---------------------------- MODULE WebClientProofs ----------------------------
(***************************************************************************)
(* What holds of WebClient for every number of changes under way, every    *)
(* bound and every load: WebClientTypeOK, OwnChangesShown, PagesFitGuards  *)
(* and LinksOpen, of tables that fit together (TablesFit).                 *)
(***************************************************************************)
EXTENDS WebClient, FiniteSetTheorems, TLAPS

(***************************************************************************)
(* The tables                                                              *)
(***************************************************************************)

LEMMA RoleOfLoad ==
    ASSUME load \in LoadType
    PROVE  /\ role \in Roles /\ load.screens \subseteq Screens /\ load.changes \subseteq Changes
           /\ load.most \in 0..MaxChanges
BY DEF role, LoadType

\* The rows of one role.
LEMMA TablesOfRole ==
    ASSUME TablesFit, NEW r \in Roles
    PROVE  /\ WaysFit(r) /\ RequestsFit(r) /\ RefreshesFit(r)
           /\ \A s \in Screens : ScreenTable[r][s].reads \subseteq Queries
BY DEF TablesFit

(***************************************************************************)
(* Type correctness                                                        *)
(***************************************************************************)

Sending == {s \in Slots : change[s].stage = "sent"}

\* The queries are those of the load; there is room in the log for what is on
\* its way to the server; what was read or loaded is in the log, and so is an
\* answer.
ClientInv ==
    /\ WebClientTypeOK
    /\ Used = UNION {ReadsOf(s) : s \in load.screens}
    /\ Len(log) + Cardinality(Sending) <= load.most
    /\ opened <= Len(log)
    /\ \A q \in Used : /\ cache[q].at <= Len(log)
                       /\ fetch[q].stage = "read" => fetch[q].at <= Len(log)
    /\ \A s \in Slots :
          /\ change[s].stage # "idle" => change[s].name \in Changes
          /\ change[s].stage = "made" =>
                change[s].at \in 1..Len(log) /\ log[change[s].at] = change[s].name

LEMMA BlanksTyped ==
    /\ NoEntry \in Entry /\ NoFetch \in Fetch /\ Sent \in Fetch /\ NoChange \in ChangeUnderWay
    /\ Sent.stage = "sent" /\ NoFetch.stage = "idle" /\ NoChange.stage = "idle"
<1>1. 0 \in At
    BY WebClientAssumption DEF At
<1>2. NoEntry \in Entry
    BY DEF NoEntry, Entry
<1>3. NoFetch \in Fetch /\ NoFetch.stage = "idle"
    BY <1>1 DEF NoFetch, Fetch
<1>4. Sent \in Fetch /\ Sent.stage = "sent"
    BY <1>1 DEF Sent, NoFetch, Fetch
<1>5. NoChange \in ChangeUnderWay /\ NoChange.stage = "idle"
    BY <1>1 DEF NoChange, ChangeUnderWay
<1> QED
    BY <1>2, <1>3, <1>4, <1>5

\* The facts about lengths that arithmetic needs.
LEMMA LogFits ==
    ASSUME ClientInv
    PROVE  /\ Len(log) \in Nat /\ Len(log) \in At /\ load.most \in Nat /\ MaxChanges \in Nat
           /\ IsFiniteSet(Sending) /\ Cardinality(Sending) \in Nat
           /\ opened \in Nat
<1>1. load.most \in 0..MaxChanges /\ MaxChanges \in Nat /\ Len(log) \in At /\ opened \in At
    BY RoleOfLoad, WebClientAssumption DEF ClientInv, WebClientTypeOK
<1>2. IsFiniteSet(Sending) /\ Cardinality(Sending) \in Nat
    BY WebClientAssumption, FS_Subset, FS_CardinalityType DEF Sending
<1> QED
    BY <1>1, <1>2 DEF At

\* The queries of a screen of the load are in use, and known.
LEMMA ReadsUsed ==
    ASSUME ClientInv, TablesFit
    PROVE  /\ \A s \in load.screens : ReadsOf(s) \subseteq Used
           /\ Used \subseteq Queries
           /\ Mounted \subseteq Used
<1>1. \A s \in load.screens : ReadsOf(s) \subseteq Used
    BY DEF ClientInv
<1>2. \A s \in load.screens : ReadsOf(s) \subseteq Queries
    BY RoleOfLoad, TablesOfRole DEF ClientInv, WebClientTypeOK, ReadsOf, Here
<1>3. Used \subseteq Queries
    BY <1>2 DEF ClientInv
<1> QED
    BY <1>1, <1>3 DEF Mounted, MountedOn

LEMMA StartTyped ==
    ASSUME NEW f \in [Used -> Fetch], NEW qs
    PROVE  /\ Start(f, qs) \in [Used -> Fetch] /\ Restart(f, qs) \in [Used -> Fetch]
           /\ \A q \in Used : Start(f, qs)[q].stage = "read" => Start(f, qs)[q] = f[q]
           /\ \A q \in Used : Restart(f, qs)[q].stage = "read" => Restart(f, qs)[q] = f[q]
BY BlanksTyped DEF Start, Restart

LEMMA InitClient == Init /\ TablesFit => ClientInv
<1> SUFFICES ASSUME Init, TablesFit PROVE ClientInv
    OBVIOUS
<1>1. load \in LoadType /\ load.most \in Nat /\ MaxChanges \in Nat
    BY WebClientAssumption, RoleOfLoad DEF Init
<1>2. Used = UNION {ReadsOf(s) : s \in load.screens}
    BY DEF Init, Used
<1>3. /\ cache \in [Used -> Entry] /\ \A q \in Used : cache[q].at = NoData
      /\ fetch \in [Used -> Fetch] /\ \A q \in Used : fetch[q].stage = "idle"
    BY BlanksTyped DEF Init, Used, NoEntry
<1>4. /\ change \in [Slots -> ChangeUnderWay]
      /\ \A s \in Slots : change[s].stage = "idle"
    BY BlanksTyped DEF Init
<1>5. Cardinality(Sending) = 0
    BY <1>4, FS_EmptySet DEF Sending
<1>6. log = <<>> /\ Len(log) = 0 /\ log \in Seq(Changes)
    BY DEF Init
<1>7. WebClientTypeOK
    BY <1>1, <1>3, <1>4, <1>6 DEF Init, WebClientTypeOK, At
<1>8. opened = 0 /\ \A q \in Used : cache[q].at <= 0
    BY <1>3 DEF Init, NoData
<1>9. Len(log) + Cardinality(Sending) <= load.most /\ opened <= Len(log)
    BY <1>1, <1>5, <1>6, <1>8, RoleOfLoad
<1> QED
    BY <1>2, <1>3, <1>4, <1>6, <1>7, <1>8, <1>9 DEF ClientInv

\* A step of a query, of which the answers so far are the only source.
LEMMA QueriesTyped ==
    ASSUME ClientInv, UNCHANGED <<load, log, told, change>>,
           screen' \in load.screens \union {Elsewhere, Forbidden},
           opened' \in {opened, Len(log)}, trusted' \subseteq Used, denied' \subseteq DOMAIN Api,
           cache' \in [Used -> Entry], fetch' \in [Used -> Fetch],
           \A q \in Used : /\ \/ cache'[q].at = cache[q].at
                              \/ fetch[q].stage = "read" /\ cache'[q].at = fetch[q].at
                           /\ \/ fetch'[q].stage # "read" \/ fetch'[q] = fetch[q]
                              \/ fetch'[q].at = Len(log)
    PROVE  ClientInv'
<1>1. Len(log) \in Nat /\ Len(log) \in At
    BY LogFits
<1>2. Used' = Used /\ Sending' = Sending /\ \A s \in Screens : ReadsOf(s)' = ReadsOf(s)
    BY DEF Used, Sending, ReadsOf, Here, role
<1>3. WebClientTypeOK'
    BY <1>1, <1>2 DEF ClientInv, WebClientTypeOK
<1>4. \A q \in Used : /\ cache'[q].at <= Len(log)
                      /\ fetch'[q].stage = "read" => fetch'[q].at <= Len(log)
    BY <1>1 DEF ClientInv
<1>5. {ReadsOf(s)' : s \in load.screens} = {ReadsOf(s) : s \in load.screens}
    BY <1>2, RoleOfLoad DEF ClientInv, WebClientTypeOK
<1>6. opened' <= Len(log)
    BY <1>1 DEF ClientInv
<1> QED
    BY <1>2, <1>3, <1>4, <1>5, <1>6 DEF ClientInv

(***************************************************************************)
(* What a query goes through                                               *)
(***************************************************************************)

QueryStep(q) ==
    \/ ServeQuery(q) \/ ReceiveData(q) \/ ReceiveError(q) \/ LoseQuery(q)
    \/ GrowStale(q) \/ Poll(q)

\* A load begins, is served, refused or lost, and brings the data or an error;
\* or the data becomes stale.
Asks(q)   == cache'[q] = cache[q] /\ fetch[q].stage \in {"idle", "failed"} /\ fetch'[q].stage = "sent"
Served(q) == /\ cache'[q] = cache[q] /\ fetch[q].stage = "sent"
             /\ fetch'[q].stage = "read" /\ fetch'[q].at = Len(log)
Fails(q)  == cache'[q] = cache[q] /\ fetch[q].stage # "idle" /\ fetch'[q].stage = "failed"
Comes(q)  == /\ fetch[q].stage = "read" /\ cache'[q].at = fetch[q].at
             /\ fetch'[q].stage \in {"idle", "sent"}
Errs(q)   == /\ fetch[q].stage = "failed" /\ fetch'[q].stage = "idle"
             /\ cache'[q].at = cache[q].at /\ ~cache'[q].fresh /\ cache'[q].error
Ages(q)   == /\ fetch'[q] = fetch[q] /\ cache'[q].at = cache[q].at
             /\ cache'[q].error = cache[q].error /\ ~cache'[q].fresh
Rests(q)  == cache'[q] = cache[q] /\ fetch'[q] = fetch[q]

Moves(q) == Asks(q) \/ Served(q) \/ Fails(q) \/ Comes(q) \/ Errs(q) \/ Ages(q) \/ Rests(q)

\* What stays of the screen is mounted as before.
LEMMA MountedSame ==
    ASSUME ClientInv, TablesFit, UNCHANGED <<load, screen>>, cache' \in [Used -> Entry],
           \A q \in Used : HasData(cache', q) <=> HasData(cache, q)
    PROVE  Mounted' = Mounted
<1>1. ReadsOf(screen)' = ReadsOf(screen)
    BY DEF ReadsOf, Here, role
<1>2. screen \in load.screens => ReadsOf(screen) \subseteq Used
    BY ReadsUsed
<1> QED
    BY <1>1, <1>2 DEF Mounted, MountedOn, HasData

\* A query that is served, lost, refused, polled or stale: one query moves, and
\* what is mounted stays.
LEMMA OneMoves ==
    ASSUME ClientInv, TablesFit, NEW q \in Used, UNCHANGED load,
           ServeQuery(q) \/ ReceiveError(q) \/ LoseQuery(q) \/ GrowStale(q) \/ Poll(q)
    PROVE  /\ UNCHANGED <<screen, opened, trusted, log, told, change>>
           /\ cache' \in [Used -> Entry] /\ fetch' \in [Used -> Fetch]
           /\ \A p \in Used : Moves(p)
           /\ Mounted' = Mounted
           /\ \A p \in Used : fetch'[p].stage # "idle" => fetch[p].stage # "idle" \/ p \in Mounted
<1>0. /\ cache \in [Used -> Entry] /\ fetch \in [Used -> Fetch]
      /\ cache[q] \in Entry /\ fetch[q] \in Fetch /\ Len(log) \in At
    BY LogFits DEF ClientInv, WebClientTypeOK
<1>1. UNCHANGED <<screen, opened, trusted, log, told, change>>
    BY DEF ServeQuery, ReceiveError, LoseQuery, GrowStale, Poll
<1>2. ASSUME NEW entry \in Entry, NEW f \in Fetch,
             cache' = [cache EXCEPT ![q] = entry], fetch' = [fetch EXCEPT ![q] = f],
             entry.at = cache[q].at, Moves(q),
             f.stage # "idle" => fetch[q].stage # "idle" \/ q \in Mounted
      PROVE  /\ cache' \in [Used -> Entry] /\ fetch' \in [Used -> Fetch]
             /\ \A p \in Used : Moves(p)
             /\ Mounted' = Mounted
             /\ \A p \in Used : fetch'[p].stage # "idle" => fetch[p].stage # "idle" \/ p \in Mounted
    <2>1. cache' \in [Used -> Entry] /\ fetch' \in [Used -> Fetch]
        BY <1>0, <1>2
    <2>2. \A p \in Used \ {q} : Rests(p)
        BY <1>0, <1>2 DEF Rests
    <2>3. \A p \in Used : HasData(cache', p) <=> HasData(cache, p)
        BY <1>0, <1>2 DEF HasData
    <2>4. Mounted' = Mounted
        BY <1>1, <2>1, <2>3, MountedSame
    <2> QED
        BY <1>0, <1>2, <2>1, <2>2, <2>4 DEF Moves, Rests
<1>3. CASE ServeQuery(q)
    <2>1. CASE Permits(QueryOf[q].call, role)
        <3> DEFINE f == [fetch[q] EXCEPT !.stage = "read", !.at = Len(log)]
        <3>1. f \in Fetch /\ f.stage = "read" /\ f.at = Len(log)
            BY <1>0 DEF Fetch
        <3>2. cache' = [cache EXCEPT ![q] = cache[q]] /\ fetch' = [fetch EXCEPT ![q] = f]
            BY <1>0, <1>3, <2>1 DEF ServeQuery
        <3>3. Moves(q) /\ fetch[q].stage # "idle"
            BY <1>0, <1>3, <3>1, <3>2 DEF Moves, Served, ServeQuery
        <3> HIDE DEF f
        <3> QED
            BY <1>0, <1>1, <1>2, <3>1, <3>2, <3>3
    <2>2. CASE ~Permits(QueryOf[q].call, role)
        <3> DEFINE f == [fetch[q] EXCEPT !.stage = "failed"]
        <3>1. f \in Fetch /\ f.stage = "failed"
            BY <1>0 DEF Fetch
        <3>2. cache' = [cache EXCEPT ![q] = cache[q]] /\ fetch' = [fetch EXCEPT ![q] = f]
            BY <1>0, <1>3, <2>2 DEF ServeQuery
        <3>3. Moves(q) /\ fetch[q].stage # "idle"
            BY <1>0, <1>3, <3>1, <3>2 DEF Moves, Fails, ServeQuery
        <3> HIDE DEF f
        <3> QED
            BY <1>0, <1>1, <1>2, <3>1, <3>2, <3>3
    <2> QED
        BY <2>1, <2>2
<1>4. CASE LoseQuery(q)
    <2> DEFINE f == [fetch[q] EXCEPT !.stage = "failed"]
    <2>1. f \in Fetch /\ f.stage = "failed"
        BY <1>0 DEF Fetch
    <2>2. cache' = [cache EXCEPT ![q] = cache[q]] /\ fetch' = [fetch EXCEPT ![q] = f]
        BY <1>0, <1>4 DEF LoseQuery
    <2>3. Moves(q) /\ fetch[q].stage # "idle"
        BY <1>0, <1>4, <2>1, <2>2 DEF Moves, Fails, LoseQuery
    <2> HIDE DEF f
    <2> QED
        BY <1>0, <1>1, <1>2, <2>1, <2>2, <2>3
<1>5. CASE ReceiveError(q)
    <2>1. CASE fetch[q].retried
        <3> DEFINE e == [cache[q] EXCEPT !.error = TRUE, !.fresh = FALSE]
        <3>1. e \in Entry /\ e.error /\ ~e.fresh /\ e.at = cache[q].at
            BY <1>0 DEF Entry
        <3>2. cache' = [cache EXCEPT ![q] = e] /\ fetch' = [fetch EXCEPT ![q] = NoFetch]
            BY <1>0, <1>5, <2>1 DEF ReceiveError
        <3>3. Moves(q) /\ fetch[q].stage # "idle"
            BY <1>0, <1>5, <3>1, <3>2, BlanksTyped DEF Moves, Errs, ReceiveError
        <3> HIDE DEF e
        <3> QED
            BY <1>0, <1>1, <1>2, <3>1, <3>2, <3>3, BlanksTyped
    <2>2. CASE ~fetch[q].retried
        <3> DEFINE f == [Sent EXCEPT !.retried = TRUE]
        <3>1. f \in Fetch /\ f.stage = "sent"
            BY BlanksTyped DEF Fetch
        <3>2. cache' = [cache EXCEPT ![q] = cache[q]] /\ fetch' = [fetch EXCEPT ![q] = f]
            BY <1>0, <1>5, <2>2 DEF ReceiveError
        <3>3. Moves(q) /\ fetch[q].stage # "idle"
            BY <1>0, <1>5, <3>1, <3>2 DEF Moves, Asks, ReceiveError
        <3> HIDE DEF f
        <3> QED
            BY <1>0, <1>1, <1>2, <3>1, <3>2, <3>3
    <2> QED
        BY <2>1, <2>2
<1>6. CASE GrowStale(q)
    <2> DEFINE e == [cache[q] EXCEPT !.fresh = FALSE]
    <2>1. e \in Entry /\ e.error = cache[q].error /\ ~e.fresh /\ e.at = cache[q].at
        BY <1>0 DEF Entry
    <2>2. cache' = [cache EXCEPT ![q] = e] /\ fetch' = [fetch EXCEPT ![q] = fetch[q]]
        BY <1>0, <1>6 DEF GrowStale
    <2>3. Moves(q)
        BY <1>0, <2>1, <2>2 DEF Moves, Ages
    <2> HIDE DEF e
    <2> QED
        BY <1>0, <1>1, <1>2, <2>1, <2>2, <2>3
<1>7. CASE Poll(q)
    <2>1. cache' = [cache EXCEPT ![q] = cache[q]] /\ fetch' = [fetch EXCEPT ![q] = Sent]
        BY <1>0, <1>7 DEF Poll, Start
    <2>2. Moves(q) /\ q \in Mounted
        BY <1>0, <1>7, <2>1, BlanksTyped DEF Moves, Asks, Poll
    <2> QED
        BY <1>0, <1>1, <1>2, <2>1, <2>2, BlanksTyped
<1> QED
    BY <1>3, <1>4, <1>5, <1>6, <1>7

\* Data that comes, and lets what has waited for it be mounted: that is loaded
\* where it is stale, and trusted where it is not loaded.
LEMMA DataComes ==
    ASSUME ClientInv, TablesFit, NEW q \in Used, UNCHANGED load, ReceiveData(q)
    PROVE  /\ UNCHANGED <<screen, opened, log, told, change>>
           /\ cache' \in [Used -> Entry] /\ fetch' \in [Used -> Fetch]
           /\ \A p \in Used : Moves(p)
           /\ Mounted' \subseteq Used /\ trusted \subseteq trusted'
           /\ trusted' \subseteq trusted \union Mounted'
           /\ \A p \in Mounted' \ Mounted :
                 \/ fetch'[p].stage = "sent"
                 \/ p \in trusted' /\ (fetch'[p].stage # "idle" \/ cache'[p].fresh)
           /\ \A p \in Used : fetch'[p].stage # "idle" => fetch[p].stage # "idle" \/ p \in Mounted'
<1> DEFINE entry == [at |-> fetch[q].at, fresh |-> QueryOf[q].keeps, error |-> FALSE]
           c     == [cache EXCEPT ![q] = entry]
           f     == [fetch EXCEPT ![q] = NoFetch]
           new   == MountedOn(screen, c) \ Mounted
<1>0. /\ cache \in [Used -> Entry] /\ fetch \in [Used -> Fetch] /\ fetch[q] \in Fetch
      /\ QueryOf[q].keeps \in BOOLEAN
    BY ReadsUsed DEF ClientInv, WebClientTypeOK, TablesFit
<1>1. entry \in Entry /\ entry.at = fetch[q].at
    BY <1>0 DEF Entry, Fetch
<1>2. /\ fetch[q].stage = "read" /\ cache' = c /\ fetch' = Start(f, Stale(c, new))
      /\ trusted' = trusted \union Trusted(new, c, f)
      /\ UNCHANGED <<screen, opened, log, told, change>>
    BY DEF ReceiveData
<1>3. c \in [Used -> Entry] /\ f \in [Used -> Fetch]
    BY <1>0, <1>1, BlanksTyped
<1>4. Mounted' = MountedOn(screen, c) /\ Mounted' \subseteq Used
    BY <1>2, ReadsUsed DEF Mounted, MountedOn, ReadsOf, Here, role
<1>5. new = Mounted' \ Mounted
    BY <1>4
<1>6. \A p \in Used : fetch'[p] = IF p \in new /\ ~c[p].fresh /\ f[p].stage = "idle" THEN Sent ELSE f[p]
    BY <1>2 DEF Start, Stale
<1>7. c[q] = entry /\ f[q] = NoFetch /\ \A p \in Used \ {q} : c[p] = cache[p] /\ f[p] = fetch[p]
    BY <1>0
<1>8. Moves(q)
    BY <1>1, <1>2, <1>6, <1>7, BlanksTyped DEF Moves, Comes
<1>9. \A p \in Used \ {q} : Moves(p)
    BY <1>2, <1>6, <1>7, BlanksTyped DEF Moves, Asks, Rests
<1>10. \A p \in new : \/ fetch'[p].stage = "sent"
                      \/ p \in trusted' /\ (fetch'[p].stage # "idle" \/ cache'[p].fresh)
    BY <1>2, <1>4, <1>6, BlanksTyped DEF Trusted
<1>11. fetch' \in [Used -> Fetch] /\ trusted' \subseteq trusted \union Mounted'
    BY <1>2, <1>3, <1>5, StartTyped DEF Trusted
<1>12. \A p \in Used : fetch'[p].stage # "idle" => fetch[p].stage # "idle" \/ p \in Mounted'
    BY <1>2, <1>5, <1>6, <1>7, BlanksTyped
<1> HIDE DEF entry, c, f, new
<1> QED
    BY <1>2, <1>3, <1>4, <1>5, <1>8, <1>9, <1>10, <1>11, <1>12

\* Another screen.  What it mounts and neither loads nor had mounted is fresh
\* or being loaded; all but what it loads is trusted.
LEMMA ScreenOpens ==
    ASSUME ClientInv, TablesFit, NEW s \in Screens, UNCHANGED load, Open(s)
    PROVE  /\ UNCHANGED <<log, told, cache, change, denied>>
           /\ \/ screen' = s /\ s \in load.screens /\ MayOpen(role, s)
              \/ screen' = Elsewhere
              \/ screen' = Forbidden /\ ~MayOpen(role, s)
           /\ opened' \in {opened, Len(log)} /\ trusted' \subseteq Used
           /\ fetch' \in [Used -> Fetch]
           /\ \A p \in Used : Moves(p)
           /\ Mounted' \subseteq Used
           /\ \A p \in Mounted' :
                 \/ fetch'[p].stage = "sent"
                 \/ p \in trusted' /\ (p \in Mounted \/ fetch'[p].stage # "idle" \/ cache'[p].fresh)
           /\ \A p \in Used : fetch'[p].stage # "idle" => fetch[p].stage # "idle" \/ p \in Mounted'
<1>0. /\ cache \in [Used -> Entry] /\ fetch \in [Used -> Fetch]
      /\ load.screens \subseteq Screens
    BY RoleOfLoad DEF ClientInv, WebClientTypeOK
<1>1. UNCHANGED <<log, told, cache, change, denied>>
    BY DEF Open
<1>2. CASE Mount(s) /\ s \in load.screens /\ MayOpen(role, s)
    <2> DEFINE new == MountedOn(s, cache) \ StaysMounted(s)
    <2>1. Mounted' = MountedOn(s, cache) /\ Mounted' \subseteq Used
        BY <1>1, <1>2, ReadsUsed DEF Mount, Mounted, MountedOn, ReadsOf, Here, role
    <2>2. StaysMounted(s) \subseteq Mounted /\ Mounted \subseteq Used
        BY ReadsUsed DEF StaysMounted
    <2>3. /\ screen' = s /\ opened' = Len(log)
          /\ fetch' = Start(fetch, Stale(cache, new))
          /\ trusted' = StaysMounted(s) \union Trusted(new, cache, fetch)
        BY <1>2 DEF Mount
    <2>4. new \subseteq Mounted' /\ Mounted' \subseteq new \union StaysMounted(s)
        BY <2>1
    <2> HIDE DEF new
    <2>5. \A p \in Used : fetch'[p] = IF p \in new /\ ~cache[p].fresh /\ fetch[p].stage = "idle"
                                      THEN Sent ELSE fetch[p]
        BY <2>3 DEF Start, Stale
    <2>6. \A p \in Used : Moves(p)
        BY <1>1, <2>5, BlanksTyped DEF Moves, Asks, Rests
    <2>7. fetch' \in [Used -> Fetch] /\ trusted' \subseteq Used
        BY <1>0, <2>1, <2>2, <2>3, <2>4, StartTyped DEF Trusted
    <2>8. \A p \in new : \/ fetch'[p].stage = "sent"
                         \/ p \in trusted' /\ (fetch'[p].stage # "idle" \/ cache'[p].fresh)
        BY <1>1, <2>1, <2>3, <2>4, <2>5, BlanksTyped DEF Trusted
    <2>9. \A p \in StaysMounted(s) : p \in trusted' /\ p \in Mounted
        BY <2>2, <2>3
    <2>10. \A p \in Used : fetch'[p].stage # "idle" => fetch[p].stage # "idle" \/ p \in Mounted'
        BY <2>4, <2>5
    <2> QED
        BY <1>1, <1>2, <2>1, <2>3, <2>4, <2>6, <2>7, <2>8, <2>9, <2>10
<1>3. CASE Leave(Elsewhere) \/ (Leave(Forbidden) /\ ~MayOpen(role, s))
    <2>1. /\ screen' \in {Elsewhere, Forbidden} /\ trusted' = {}
          /\ UNCHANGED <<fetch, opened>>
        BY <1>3 DEF Leave
    <2>2. Mounted' = {}
        BY <1>0, <2>1 DEF Mounted, MountedOn, TablesFit
    <2>3. \A p \in Used : Moves(p)
        BY <1>1, <2>1 DEF Moves, Rests
    <2>4. screen' = Elsewhere \/ (screen' = Forbidden /\ ~MayOpen(role, s))
        BY <1>3 DEF Leave
    <2> QED
        BY <1>0, <1>1, <2>1, <2>2, <2>3, <2>4
<1> QED
    BY <1>2, <1>3 DEF Open

(***************************************************************************)
(* What a change goes through                                              *)
(***************************************************************************)

ChangeStep(slot) ==
    \/ \E m \in load.changes : Click(slot, m)
    \/ ServeChange(slot) \/ ReceiveAnswer(slot) \/ ReceiveRejection(slot) \/ LoseAnswer(slot)

\* The answer of a change: what it sets is as of that change, what it
\* invalidates is stale, loaded anew where it is mounted with data, and for the
\* first time where it is mounted without and not being loaded.
LEMMA AnswerComes ==
    ASSUME ClientInv, TablesFit, NEW slot \in Slots, UNCHANGED load, ReceiveAnswer(slot),
           NEW m, m = change[slot].name
    PROVE  /\ m \in Changes /\ change[slot].stage = "made"
           /\ UNCHANGED <<opened, log, denied>>
           /\ told' = told \union {change[slot].at}
           /\ screen' \in {screen, Elsewhere}
           /\ trusted' = trusted \ (RefreshedBy[m] \intersect Used)
           /\ change' = [change EXCEPT ![slot] = NoChange]
           /\ cache' \in [Used -> Entry] /\ fetch' \in [Used -> Fetch]
           /\ \A q \in Used \ RefreshedBy[m] : Rests(q)
           /\ \A q \in Used \intersect SetBy[m] : cache'[q].at = change[slot].at
           /\ \A q \in (Used \intersect InvalidatedBy[m]) \ SetBy[m] :
                 cache'[q].at = cache[q].at /\ ~cache'[q].fresh
           /\ \A q \in Used :
                 \/ fetch'[q] = fetch[q] /\
                        (q \in Mounted \intersect InvalidatedBy[m] => fetch[q].stage # "idle" /\ q \notin Reloaded(m))
                 \/ q \in Mounted /\ fetch'[q].stage = "sent"
           /\ ~MayOverlap("race") =>
                 \A q \in Used \intersect RefreshedBy[m] : fetch[q].stage = "idle" \/ q \in Reloaded(m)
<1> DEFINE set == SetBy[m] \intersect Used
           old == InvalidatedBy[m] \intersect Used
           c   == [q \in Used |->
                      IF q \in set THEN [at |-> change[slot].at, fresh |-> QueryOf[q].keeps,
                                         error |-> FALSE]
                      ELSE IF q \in old THEN [cache[q] EXCEPT !.fresh = FALSE]
                      ELSE cache[q]]
<1>0. /\ cache \in [Used -> Entry] /\ fetch \in [Used -> Fetch] /\ change[slot] \in ChangeUnderWay
      /\ \A q \in Used : QueryOf[q].keeps \in BOOLEAN
    BY ReadsUsed DEF ClientInv, WebClientTypeOK, TablesFit
<1>1. m \in Changes /\ change[slot].stage = "made"
    BY DEF ReceiveAnswer, ClientInv
<1>2. RefreshedBy[m] = InvalidatedBy[m] \union SetBy[m]
    BY <1>1 DEF RefreshedBy
<1>3. /\ UNCHANGED <<opened, log, denied>> /\ told' = told \union {change[slot].at}
      /\ screen' \in {screen, Elsewhere} /\ change' = [change EXCEPT ![slot] = NoChange]
      /\ cache' = c /\ trusted' = trusted \ (set \union old)
      /\ fetch' = Start(Restart(fetch, Reloaded(m)), old \intersect Mounted)
      /\ ~Overtakes(m) \/ MayOverlap("race")
    BY DEF ReceiveAnswer
<1>4. \A q \in Used :
          fetch'[q] = IF q \in Reloaded(m) \/ (q \in old \intersect Mounted /\ fetch[q].stage = "idle")
                      THEN Sent ELSE fetch[q]
    BY <1>3, BlanksTyped DEF Start, Restart
<1>5. Reloaded(m) \subseteq old \intersect Mounted
    BY ReadsUsed DEF Reloaded
<1>6. fetch' \in [Used -> Fetch]
    <2>1. DOMAIN fetch' = Used /\ fetch' = [q \in Used |-> fetch'[q]]
        BY <1>3 DEF Start
    <2> QED
        BY <1>0, <1>4, <2>1, BlanksTyped
<1>7. cache' \in [Used -> Entry]
    <2>1. \A q \in Used : [at |-> change[slot].at, fresh |-> QueryOf[q].keeps, error |-> FALSE] \in Entry
        BY <1>0 DEF Entry, ChangeUnderWay
    <2>2. \A q \in Used : [cache[q] EXCEPT !.fresh = FALSE] \in Entry
        BY <1>0 DEF Entry
    <2>3. \A q \in Used : c[q] \in Entry
        BY <1>0, <2>1, <2>2
    <2> QED
        BY <1>3, <2>3
<1>8. /\ \A q \in Used \ RefreshedBy[m] : cache'[q] = cache[q]
      /\ \A q \in set : cache'[q].at = change[slot].at
      /\ \A q \in old \ set : cache'[q].at = cache[q].at /\ ~cache'[q].fresh
    <2>1. \A q \in Used : [cache[q] EXCEPT !.fresh = FALSE].at = cache[q].at
                          /\ ~[cache[q] EXCEPT !.fresh = FALSE].fresh
        BY <1>0 DEF Entry
    <2> QED
        BY <1>2, <1>3, <2>1
<1> HIDE DEF c
<1>9. \A q \in Used \ RefreshedBy[m] : fetch'[q] = fetch[q]
    BY <1>2, <1>4, <1>5
<1>10. \A q \in Used :
          \/ fetch'[q] = fetch[q] /\
                 (q \in Mounted \intersect InvalidatedBy[m] => fetch[q].stage # "idle" /\ q \notin Reloaded(m))
          \/ q \in Mounted /\ fetch'[q].stage = "sent"
    BY <1>4, <1>5, BlanksTyped
<1>11. ~MayOverlap("race") =>
          \A q \in Used \intersect RefreshedBy[m] : fetch[q].stage = "idle" \/ q \in Reloaded(m)
    BY <1>3 DEF Overtakes
<1>12. trusted' = trusted \ (RefreshedBy[m] \intersect Used)
    BY <1>2, <1>3
<1> QED
    BY <1>1, <1>3, <1>6, <1>7, <1>8, <1>9, <1>10, <1>11, <1>12 DEF Rests

\* One change under way is replaced, with room in the log.
LEMMA ChangeReplaced ==
    ASSUME ClientInv, NEW slot \in Slots, NEW x \in ChangeUnderWay,
           UNCHANGED <<load, screen, opened, trusted, log, told, cache, fetch>>,
           change' = [change EXCEPT ![slot] = x],
           x.stage # "made", x.stage # "idle" => x.name \in Changes,
           x.stage = "sent" => Len(log) + Cardinality(UnderWay) < load.most /\ change[slot].stage = "idle",
           denied' \subseteq DOMAIN Api
    PROVE  ClientInv'
<1>1. /\ change \in [Slots -> ChangeUnderWay] /\ change' \in [Slots -> ChangeUnderWay]
      /\ \A s \in Slots : change'[s] = IF s = slot THEN x ELSE change[s]
    BY DEF ClientInv, WebClientTypeOK
<1>2. Used' = Used /\ \A s \in Screens : ReadsOf(s)' = ReadsOf(s)
    BY DEF Used, ReadsOf, Here, role
<1>3. Len(log) + Cardinality(Sending') <= load.most
    <2>1. CASE x.stage = "sent"
        <3>1. Sending' = Sending \union {slot} /\ slot \notin Sending /\ Sending \subseteq UnderWay
            BY <1>1, <2>1 DEF Sending, UnderWay
        <3>2. IsFiniteSet(UnderWay) /\ IsFiniteSet(Sending)
            BY WebClientAssumption, FS_Subset DEF UnderWay, Sending
        <3>3. /\ Cardinality(Sending) \in Nat /\ Cardinality(UnderWay) \in Nat
              /\ Cardinality(Sending) <= Cardinality(UnderWay)
            BY <3>1, <3>2, FS_Subset, FS_CardinalityType
        <3>4. Cardinality(Sending') = Cardinality(Sending) + 1
            BY <3>1, <3>2, FS_AddElement
        <3> QED
            BY <2>1, <3>3, <3>4, LogFits
    <2>2. CASE x.stage # "sent"
        <3>1. Sending' \subseteq Sending
            BY <1>1, <2>2 DEF Sending
        <3>2. Cardinality(Sending') \in Nat /\ Cardinality(Sending') <= Cardinality(Sending)
            BY <3>1, LogFits, FS_Subset, FS_CardinalityType
        <3> QED
            BY <3>2, LogFits DEF ClientInv
    <2> QED
        BY <2>1, <2>2
<1>4. WebClientTypeOK'
    BY <1>1, <1>2 DEF ClientInv, WebClientTypeOK
<1>5. {ReadsOf(s)' : s \in load.screens} = {ReadsOf(s) : s \in load.screens}
    BY <1>2, RoleOfLoad DEF ClientInv, WebClientTypeOK
<1> QED
    BY <1>1, <1>2, <1>3, <1>4, <1>5 DEF ClientInv

\* The server makes a change: the log grows by it.
LEMMA ChangeMade ==
    ASSUME ClientInv, NEW slot \in Slots, change[slot].stage = "sent",
           UNCHANGED <<load, screen, opened, trusted, told, cache, fetch, denied>>,
           log' = Append(log, change[slot].name),
           change' = [change EXCEPT ![slot].stage = "made", ![slot].at = Len(log) + 1]
    PROVE  /\ ClientInv'
           /\ Len(log') = Len(log) + 1 /\ log'[Len(log) + 1] = change[slot].name
           /\ \A i \in 1..Len(log) : log'[i] = log[i]
           /\ change'[slot].stage = "made" /\ change'[slot].at = Len(log')
           /\ change'[slot].name = change[slot].name
           /\ \A s \in Slots \ {slot} : change'[s] = change[s]
<1>1. /\ change \in [Slots -> ChangeUnderWay] /\ change[slot] \in ChangeUnderWay
      /\ change[slot].name \in Changes /\ log \in Seq(Changes)
    BY DEF ClientInv, WebClientTypeOK
<1>2. /\ log' \in Seq(Changes) /\ Len(log') = Len(log) + 1 /\ log'[Len(log) + 1] = change[slot].name
      /\ \A i \in 1..Len(log) : log'[i] = log[i]
    BY <1>1
<1>3. Sending = {slot} \union (Sending \ {slot}) /\ slot \in Sending
    BY DEF Sending
<1>4. Cardinality(Sending \ {slot}) = Cardinality(Sending) - 1
    BY <1>3, LogFits, FS_RemoveElement
<1>5. Len(log) + 1 + Cardinality(Sending \ {slot}) <= load.most
    BY <1>4, LogFits DEF ClientInv
<1>6. Cardinality(Sending \ {slot}) \in Nat
    <2>1. IsFiniteSet(Sending \ {slot})
        BY LogFits, FS_Subset, Sending \ {slot} \subseteq Sending
    <2> QED
        BY <2>1, FS_CardinalityType
<1>7. Len(log') \in At
    <2>1. load.most \in 0..MaxChanges
        BY RoleOfLoad DEF ClientInv, WebClientTypeOK
    <2>2. Len(log) \in Nat /\ MaxChanges \in Nat
        BY LogFits
    <2> QED
        BY <1>2, <1>5, <1>6, <2>1, <2>2 DEF At
<1>8. /\ change' \in [Slots -> ChangeUnderWay]
      /\ change'[slot].stage = "made" /\ change'[slot].at = Len(log')
      /\ change'[slot].name = change[slot].name
      /\ \A s \in Slots \ {slot} : change'[s] = change[s]
    <2> DEFINE x == [change[slot] EXCEPT !.stage = "made", !.at = Len(log) + 1]
    <2>1. x \in ChangeUnderWay /\ x.stage = "made" /\ x.at = Len(log) + 1 /\ x.name = change[slot].name
        BY <1>1, <1>2, <1>7 DEF ChangeUnderWay
    <2>2. change' = [change EXCEPT ![slot] = x]
        BY <1>1
    <2> HIDE DEF x
    <2> QED
        BY <1>1, <1>2, <2>1, <2>2
<1>9. Sending' = Sending \ {slot}
    BY <1>8 DEF Sending
<1>10. Used' = Used /\ \A s \in Screens : ReadsOf(s)' = ReadsOf(s)
    BY DEF Used, ReadsOf, Here, role
<1>11. {ReadsOf(s)' : s \in load.screens} = {ReadsOf(s) : s \in load.screens}
    BY <1>10, RoleOfLoad DEF ClientInv, WebClientTypeOK
<1>12. Len(log) \in Nat
    BY LogFits
<1>13. WebClientTypeOK'
    BY <1>2, <1>7, <1>8, <1>10, <1>12 DEF ClientInv, WebClientTypeOK
<1>14. \A q \in Used : /\ cache[q].at \in Int /\ fetch[q].at \in Int
                       /\ cache[q].at <= Len(log')
                       /\ fetch[q].stage = "read" => fetch[q].at <= Len(log')
    <2>1. \A q \in Used : cache[q] \in Entry /\ fetch[q] \in Fetch
        BY DEF ClientInv, WebClientTypeOK
    <2>2. \A q \in Used : cache[q].at \in Int /\ fetch[q].at \in Int
        BY <2>1, LogFits DEF Entry, Fetch, At, NoData
    <2> QED
        BY <1>2, <1>12, <2>2 DEF ClientInv
<1>15. opened <= Len(log')
    BY <1>2, LogFits DEF ClientInv
<1>16. Len(log') + Cardinality(Sending') <= load.most
    BY <1>2, <1>5, <1>9
<1>17. \A s \in Slots :
          /\ change'[s].stage # "idle" => change'[s].name \in Changes
          /\ change'[s].stage = "made" =>
                change'[s].at \in 1..Len(log') /\ log'[change'[s].at] = change'[s].name
    BY <1>1, <1>2, <1>8, <1>12 DEF ClientInv
<1> QED
    BY <1>2, <1>8, <1>10, <1>11, <1>13, <1>14, <1>15, <1>16, <1>17 DEF ClientInv
LEMMA AnswerTyped ==
    ASSUME ClientInv, TablesFit, NEW slot \in Slots, UNCHANGED load, ReceiveAnswer(slot)
    PROVE  ClientInv'
<1> DEFINE m == change[slot].name
<1>1. /\ m \in Changes /\ change[slot].stage = "made"
      /\ UNCHANGED <<opened, log, denied>>
      /\ told' = told \union {change[slot].at}
      /\ screen' \in {screen, Elsewhere}
      /\ trusted' = trusted \ (RefreshedBy[m] \intersect Used)
      /\ change' = [change EXCEPT ![slot] = NoChange]
      /\ cache' \in [Used -> Entry] /\ fetch' \in [Used -> Fetch]
      /\ \A q \in Used \ RefreshedBy[m] : Rests(q)
      /\ \A q \in Used \intersect SetBy[m] : cache'[q].at = change[slot].at
      /\ \A q \in (Used \intersect InvalidatedBy[m]) \ SetBy[m] : cache'[q].at = cache[q].at
      /\ \A q \in Used : fetch'[q] = fetch[q] \/ fetch'[q].stage = "sent"
    BY AnswerComes
<1>2. change[slot].at \in 1..Len(log) /\ log[change[slot].at] = m
    BY <1>1 DEF ClientInv
<1>3. /\ change \in [Slots -> ChangeUnderWay] /\ change' \in [Slots -> ChangeUnderWay]
      /\ change'[slot].stage = "idle" /\ \A s \in Slots \ {slot} : change'[s] = change[s]
    BY <1>1, BlanksTyped DEF ClientInv, WebClientTypeOK
<1>4. Used' = Used /\ \A s \in Screens : ReadsOf(s)' = ReadsOf(s)
    BY <1>1 DEF Used, ReadsOf, Here, role
<1>5. {ReadsOf(s)' : s \in load.screens} = {ReadsOf(s) : s \in load.screens}
    BY <1>4, RoleOfLoad DEF ClientInv, WebClientTypeOK
<1>6. Len(log) + Cardinality(Sending') <= load.most
    <2>1. Sending' \subseteq Sending
        BY <1>3 DEF Sending
    <2>2. Cardinality(Sending') \in Nat /\ Cardinality(Sending') <= Cardinality(Sending)
        BY <2>1, LogFits, FS_Subset, FS_CardinalityType
    <2> QED
        BY <2>2, LogFits DEF ClientInv
<1>7. WebClientTypeOK'
    BY <1>1, <1>2, <1>3, <1>4 DEF ClientInv, WebClientTypeOK
<1>8. RefreshedBy[m] = InvalidatedBy[m] \union SetBy[m]
    BY <1>1 DEF RefreshedBy
<1>9. \A q \in Used : cache'[q].at <= Len(log)
    <2>1. \A q \in Used : cache'[q].at = cache[q].at \/ cache'[q].at = change[slot].at
        BY <1>1, <1>8 DEF Rests
    <2>2. change[slot].at <= Len(log)
        BY <1>2, LogFits
    <2> QED
        BY <2>1, <2>2 DEF ClientInv
<1>10. \A q \in Used : fetch'[q].stage = "read" => fetch'[q].at <= Len(log)
    BY <1>1 DEF ClientInv
<1> HIDE DEF m
<1> QED
    BY <1>1, <1>3, <1>4, <1>5, <1>6, <1>7, <1>9, <1>10 DEF ClientInv

\* The requests the server knows, and what a click may name.
LEMMA ChangesTyped ==
    ASSUME ClientInv, TablesFit, NEW slot \in Slots, UNCHANGED load, ChangeStep(slot)
    PROVE  ClientInv'
<1>0. /\ change \in [Slots -> ChangeUnderWay] /\ change[slot] \in ChangeUnderWay
      /\ denied \subseteq DOMAIN Api /\ load.changes \subseteq Changes
    BY RoleOfLoad DEF ClientInv, WebClientTypeOK
<1>1. CASE \E m \in load.changes : Click(slot, m)
    <2>1. PICK m \in load.changes : Click(slot, m)
        BY <1>1
    <2> DEFINE x == [stage |-> "sent", name |-> m, at |-> 0]
    <2>2. x \in ChangeUnderWay /\ x.stage = "sent" /\ x.name \in Changes
        BY <1>0, WebClientAssumption DEF ChangeUnderWay, At
    <2>3. /\ UNCHANGED <<screen, opened, trusted, log, told, cache, fetch, denied>>
          /\ change' = [change EXCEPT ![slot] = x] /\ change[slot].stage = "idle"
          /\ Len(log) + Cardinality(UnderWay) < load.most
        BY <2>1 DEF Click
    <2> HIDE DEF x
    <2> QED
        BY <1>0, <2>2, <2>3, ChangeReplaced
<1>2. CASE ServeChange(slot)
    <2>1. change[slot].stage = "sent" /\ change[slot].name \in Changes
          /\ UNCHANGED <<screen, opened, trusted, told, cache, fetch>>
        BY <1>2 DEF ServeChange, ClientInv
    <2>2. ChangeOf[change[slot].name].call \in DOMAIN Api
        BY <2>1 DEF TablesFit
    <2>3. CASE change' = [change EXCEPT ![slot].stage = "rejected"] /\ UNCHANGED log
        <3> DEFINE x == [change[slot] EXCEPT !.stage = "rejected"]
        <3>1. x \in ChangeUnderWay /\ x.stage = "rejected" /\ x.name \in Changes
            BY <1>0, <2>1 DEF ChangeUnderWay
        <3>2. change' = [change EXCEPT ![slot] = x]
            BY <1>0, <2>3
        <3>3. denied' \subseteq DOMAIN Api
            BY <1>0, <1>2, <2>2 DEF ServeChange
        <3> HIDE DEF x
        <3> QED
            BY <2>1, <2>3, <3>1, <3>2, <3>3, ChangeReplaced
    <2>4. CASE /\ log' = Append(log, change[slot].name) /\ UNCHANGED denied
               /\ change' = [change EXCEPT ![slot].stage = "made", ![slot].at = Len(log) + 1]
        BY <2>1, <2>4, ChangeMade
    <2> QED
        BY <1>2, <2>3, <2>4 DEF ServeChange
<1>3. CASE ReceiveAnswer(slot)
    BY <1>3, AnswerTyped
<1>4. CASE ReceiveRejection(slot) \/ LoseAnswer(slot)
    <2>1. /\ change' = [change EXCEPT ![slot] = NoChange]
          /\ UNCHANGED <<screen, opened, trusted, log, told, cache, fetch, denied>>
        BY <1>4 DEF ReceiveRejection, LoseAnswer
    <2> QED
        BY <1>0, <2>1, BlanksTyped, ChangeReplaced
<1> QED
    BY <1>1, <1>2, <1>3, <1>4 DEF ChangeStep
\* What a step of the client is.
LEMMA ClientSteps ==
    ASSUME Next
    PROVE  /\ UNCHANGED load
           /\ \/ \E s \in Screens : OpenFromMenu(s) \/ Follow(s) \/ GoBack(s) \/ OpenTab(s)
              \/ GetLost
              \/ \E q \in Used :
                    \/ ReceiveData(q)
                    \/ ServeQuery(q) \/ ReceiveError(q) \/ LoseQuery(q) \/ GrowStale(q) \/ Poll(q)
              \/ \E slot \in Slots : ChangeStep(slot)
BY DEF Next, ChangeStep

\* Loaded anew, the client has nothing and waits for nothing.
LEMMA LostHasNothing ==
    ASSUME ClientInv, TablesFit, UNCHANGED load, GetLost
    PROVE  /\ UNCHANGED <<opened, log, told, denied>>
           /\ screen' = "notFound" /\ screen' \in load.screens \intersect OpenTo(role)
           /\ screen' \notin {Elsewhere, Forbidden}
           /\ role' = role /\ Used' = Used /\ Mounted' = {} /\ trusted' = {}
           /\ cache' \in [Used -> Entry] /\ fetch' \in [Used -> Fetch]
           /\ change' \in [Slots -> ChangeUnderWay]
           /\ \A q \in Used : /\ cache'[q].at = NoData /\ ~cache'[q].fresh
                             /\ fetch'[q].stage = "idle"
           /\ \A s \in Slots : change'[s].stage = "idle"
<1>1. /\ UNCHANGED <<opened, log, told, denied>> /\ screen' = "notFound" /\ trusted' = {}
      /\ "notFound" \in load.screens
      /\ cache' = [q \in Used |-> NoEntry] /\ fetch' = [q \in Used |-> NoFetch]
      /\ change' = [s \in Slots |-> NoChange]
    BY DEF GetLost
<1>2. role \in Roles /\ role' = role /\ load.screens \subseteq Screens
    BY RoleOfLoad DEF ClientInv, WebClientTypeOK, role
<1>3. WaysFit(role) /\ Elsewhere \notin Screens /\ Forbidden \notin Screens
    BY <1>2, TablesOfRole DEF TablesFit
<1>4. "notFound" \in OpenTo(role) /\ ScreenTable[role]["notFound"].reads = {}
    BY <1>3 DEF WaysFit
<1>5. Mounted' = {}
    BY <1>1, <1>2, <1>4 DEF Mounted, MountedOn, ReadsOf, Here
<1>6. cache' \in [Used -> Entry] /\ Used' = Used /\ \A q \in Used : cache'[q] = NoEntry
    BY <1>1, BlanksTyped DEF Used
<1>7. fetch' \in [Used -> Fetch] /\ \A q \in Used : fetch'[q].stage = "idle"
    BY <1>1, BlanksTyped
<1>8. change' \in [Slots -> ChangeUnderWay] /\ \A s \in Slots : change'[s].stage = "idle"
    BY <1>1, BlanksTyped
<1>9. NoEntry.at = NoData /\ ~NoEntry.fresh
    BY DEF NoEntry
<1> QED
    BY <1>1, <1>2, <1>3, <1>4, <1>5, <1>6, <1>7, <1>8, <1>9

LEMMA LostTyped ==
    ASSUME ClientInv, TablesFit, UNCHANGED load, GetLost
    PROVE  ClientInv'
<1>1. Len(log) \in Nat /\ load.most \in Nat /\ Len(log) + Cardinality(Sending) <= load.most
      /\ Cardinality(Sending) \in Nat
    BY LogFits DEF ClientInv
<1>2. Sending' = {} /\ Cardinality(Sending') = 0
    BY LostHasNothing, FS_EmptySet DEF Sending
<1>3. WebClientTypeOK'
    BY LostHasNothing DEF ClientInv, WebClientTypeOK
<1>4. \A s \in Screens : ReadsOf(s)' = ReadsOf(s)
    BY LostHasNothing DEF ReadsOf, Here
<1>5. Used' = UNION {ReadsOf(s)' : s \in load.screens}
    BY <1>4, LostHasNothing, RoleOfLoad DEF ClientInv, WebClientTypeOK
<1>6. \A q \in Used : cache'[q].at <= Len(log) /\ fetch'[q].stage # "read"
    BY <1>1, LostHasNothing DEF NoData
<1> QED
    BY <1>1, <1>2, <1>3, <1>5, <1>6, LostHasNothing DEF ClientInv

LEMMA NextClient == ClientInv /\ TablesFit /\ [Next]_vars => ClientInv'
<1> SUFFICES ASSUME ClientInv, TablesFit, [Next]_vars PROVE ClientInv'
    OBVIOUS
<1>0. /\ cache \in [Used -> Entry] /\ fetch \in [Used -> Fetch] /\ trusted \subseteq Used
      /\ denied \subseteq DOMAIN Api /\ screen \in load.screens \union {Elsewhere, Forbidden}
    BY DEF ClientInv, WebClientTypeOK
\* How a load moves, in the terms of QueriesTyped.
<1>1. ASSUME NEW q \in Used, Moves(q)
      PROVE  /\ \/ cache'[q].at = cache[q].at
                \/ fetch[q].stage = "read" /\ cache'[q].at = fetch[q].at
             /\ \/ fetch'[q].stage # "read" \/ fetch'[q] = fetch[q]
                \/ fetch'[q].at = Len(log)
    BY <1>1 DEF Moves, Asks, Served, Fails, Comes, Errs, Ages, Rests
<1>2. ASSUME Next, NEW s \in Screens, OpenFromMenu(s) \/ Follow(s) \/ GoBack(s) \/ OpenTab(s)
      PROVE  ClientInv'
    <2>1. Open(s) /\ UNCHANGED load
        BY <1>2, ClientSteps DEF OpenFromMenu, Follow, GoBack, OpenTab
    <2>2. /\ UNCHANGED <<log, told, cache, change, denied>>
          /\ screen' \in load.screens \union {Elsewhere, Forbidden}
          /\ opened' \in {opened, Len(log)} /\ trusted' \subseteq Used
          /\ fetch' \in [Used -> Fetch] /\ \A p \in Used : Moves(p)
        BY <2>1, ScreenOpens
    <2> QED
        BY <1>0, <1>1, <2>1, <2>2, QueriesTyped
<1>3. ASSUME Next, NEW q \in Used, ReceiveData(q)
      PROVE  ClientInv'
    <2>1. UNCHANGED load
        BY <1>3, ClientSteps
    <2>2. /\ UNCHANGED <<screen, opened, log, told, change>>
          /\ cache' \in [Used -> Entry] /\ fetch' \in [Used -> Fetch]
          /\ \A p \in Used : Moves(p)
          /\ Mounted' \subseteq Used /\ trusted' \subseteq trusted \union Mounted'
        BY <1>3, <2>1, DataComes
    <2>3. UNCHANGED denied
        BY <1>3 DEF ReceiveData
    <2> QED
        BY <1>0, <1>1, <2>1, <2>2, <2>3, QueriesTyped
<1>4. ASSUME Next, NEW q \in Used,
             ServeQuery(q) \/ ReceiveError(q) \/ LoseQuery(q) \/ GrowStale(q) \/ Poll(q)
      PROVE  ClientInv'
    <2>1. UNCHANGED load
        BY <1>4, ClientSteps
    <2>2. /\ UNCHANGED <<screen, opened, trusted, log, told, change>>
          /\ cache' \in [Used -> Entry] /\ fetch' \in [Used -> Fetch]
          /\ \A p \in Used : Moves(p)
        BY <1>4, <2>1, OneMoves
    <2>3. QueryOf[q].call \in DOMAIN Api
        BY ReadsUsed DEF TablesFit
    <2>4. denied' \subseteq DOMAIN Api
        BY <1>0, <1>4, <2>3 DEF ServeQuery, ReceiveError, LoseQuery, GrowStale, Poll
    <2> QED
        BY <1>0, <1>1, <2>1, <2>2, <2>4, QueriesTyped
<1>5. ASSUME Next, NEW slot \in Slots, ChangeStep(slot)
      PROVE  ClientInv'
    BY <1>5, ClientSteps, ChangesTyped
<1>6. CASE UNCHANGED vars
    BY <1>0, <1>6, QueriesTyped DEF vars
<1>7. ASSUME Next, GetLost
      PROVE  ClientInv'
    BY <1>7, ClientSteps, LostTyped
<1> QED
    BY <1>2, <1>3, <1>4, <1>5, <1>6, <1>7, ClientSteps

LEMMA ClientInvariant == TablesFit => (Spec => []ClientInv)
<1> SUFFICES ASSUME TablesFit PROVE Spec => []ClientInv
    OBVIOUS
<1>1. Init => ClientInv
    BY InitClient
<1>2. ClientInv /\ [Next]_vars => ClientInv'
    BY NextClient
<1> QED
    BY <1>1, <1>2, PTL DEF Spec

\* The variables keep to their types: the log within the bound of the load,
\* only queries of the load's screens loaded, only known requests refused.
THEOREM WebClientTypeCorrect == TablesFit => (Spec => []WebClientTypeOK)
<1> SUFFICES ASSUME TablesFit PROVE Spec => []WebClientTypeOK
    OBVIOUS
<1>1. ClientInv => WebClientTypeOK
    BY DEF ClientInv
<1> QED
    BY <1>1, ClientInvariant, PTL
(***************************************************************************)
(* By the tables                                                           *)
(***************************************************************************)

\* Screens, loads, changes, the log and the refusals are all of the tables of
\* the role.
ByTheTables ==
    /\ screen \in (load.screens \intersect OpenTo(role)) \union {Elsewhere, Forbidden}
    /\ \A q \in Used : fetch[q].stage # "idle" => q \in ReadBy(role)
    /\ \A s \in Slots : change[s].stage # "idle" =>
          \E o \in OfferedTo(role) :
              o.change = change[s].name /\ \A p \in o.after \intersect Used : HasData(cache, p)
    /\ \A i \in 1..Len(log) : ~Malformed(log[i]) /\ \E o \in OfferedTo(role) : o.change = log[i]
    /\ denied \subseteq RefusedFor(role)

\* The screens one comes to, and what they read.
LEMMA ScreenHere ==
    ASSUME ClientInv, TablesFit, screen \in (load.screens \intersect OpenTo(role)) \union {Elsewhere, Forbidden}
    PROVE  /\ screen \in Screens <=> screen \in load.screens
           /\ screen \in load.screens => screen \in OpenTo(role)
           /\ Mounted \subseteq ReadBy(role)
<1>1. load.screens \subseteq Screens /\ Elsewhere \notin Screens /\ Forbidden \notin Screens
    BY RoleOfLoad DEF ClientInv, WebClientTypeOK, TablesFit
<1>2. screen \in load.screens => screen \in OpenTo(role)
    BY <1>1
<1>3. screen \in load.screens => ReadsOf(screen) \subseteq ReadBy(role)
    BY <1>2 DEF ReadsOf, Here, ReadBy
<1>4. Mounted \subseteq ReadBy(role)
    BY <1>3 DEF Mounted, MountedOn
<1> QED
    BY <1>1, <1>2, <1>4

\* Data stays.
LEMMA DataStays ==
    ASSUME ClientInv, NEW q \in Used,
           Moves(q) \/ (fetch'[q] = fetch[q] /\ cache'[q].at = cache[q].at),
           HasData(cache, q)
    PROVE  HasData(cache', q)
<1>1. fetch[q] \in Fetch /\ 0 \notin {NoData} /\ NoData \notin At
    BY WebClientAssumption DEF ClientInv, WebClientTypeOK, At, NoData
<1>2. fetch[q].at # NoData
    BY <1>1 DEF Fetch
<1> QED
    BY <1>2 DEF Moves, Asks, Served, Fails, Comes, Errs, Ages, Rests, HasData

\* Where a click leads: to a page the role has a way to, or by a dead link.
LEMMA WaysLead ==
    ASSUME ClientInv, TablesFit, ByTheTables, NEW s \in Screens,
           OpenFromMenu(s) \/ Follow(s) \/ GoBack(s) \/ OpenTab(s)
    PROVE  /\ Open(s)
           /\ MayOpen(role, s) => s \in OpenTo(role)
           /\ ~MayOpen(role, s) => Follow(s) /\ <<role, s>> \in DeadLinks
<1>1. role \in Roles /\ WaysFit(role)
    BY RoleOfLoad, TablesOfRole DEF ClientInv, WebClientTypeOK
<1>2. Open(s)
    BY DEF OpenFromMenu, Follow, GoBack, OpenTab
<1>3. OpenTo(role) \subseteq {other \in Screens : MayOpen(role, other)}
    BY DEF OpenTo
<1>4. CASE OpenFromMenu(s)
    BY <1>1, <1>2, <1>3, <1>4 DEF OpenFromMenu, WaysFit
<1>5. CASE OpenTab(s)
    <2>1. screen \notin {Elsewhere, Forbidden}
        BY <1>5 DEF OpenTab, IsTab, Tabs, Elsewhere, Forbidden
    <2>2. screen \in OpenTo(role) /\ IsTab(screen) /\ s \in TabsOf(role)
        BY <1>5, <2>1 DEF ByTheTables, OpenTab
    <2> QED
        BY <1>1, <1>2, <1>3, <2>2 DEF WaysFit
<1>6. CASE Follow(s)
    <2>1. s \in LinksHere /\ s \notin Tabs \ {"info"}
        BY <1>6 DEF Follow
    <2>2. MayOpen(role, s) => s \in OpenTo(role)
        BY <2>1 DEF OpenTo, IsTab, TabsOf
    <2>3. ASSUME ~MayOpen(role, s)
          PROVE  <<role, s>> \in DeadLinks
        <3>1. screen \in OpenTo(role) /\ s \in ScreenTable[role][screen].links
            BY <2>1, <2>3 DEF LinksHere, ByTheTables, Here
        <3> QED
            BY <1>1, <1>3, <2>1, <2>3, <3>1 DEF WaysFit
    <2> QED
        BY <1>2, <1>6, <2>2, <2>3
<1>7. CASE GoBack(s)
    BY <1>2, <1>7 DEF GoBack, OpenTo, IsTab, TabsOf
<1> QED
    BY <1>4, <1>5, <1>6, <1>7

LEMMA InitByTheTables == Init /\ TablesFit => ByTheTables
<1> SUFFICES ASSUME Init, TablesFit PROVE ByTheTables
    OBVIOUS
<1>1. /\ \A q \in Used : fetch[q].stage = "idle"
      /\ \A s \in Slots : change[s].stage = "idle"
    BY BlanksTyped DEF Init
<1>2. screen = Elsewhere /\ log = <<>> /\ denied = {}
    BY DEF Init
<1> QED
    BY <1>1, <1>2 DEF ByTheTables

\* A step of the queries: what they load is mounted on a page of the role.
LEMMA QueriesByTheTables ==
    ASSUME ClientInv, TablesFit, ByTheTables, UNCHANGED <<load, log, change>>, cache' \in [Used -> Entry],
           screen' \in (load.screens \intersect OpenTo(role)) \union {Elsewhere, Forbidden},
           \A q \in Used : Moves(q),
           \A q \in Used : fetch'[q].stage # "idle" => fetch[q].stage # "idle" \/ q \in Mounted',
           denied' \subseteq RefusedFor(role)
    PROVE  ByTheTables'
<1>1. role' = role /\ Used' = Used
    BY DEF role, Used
<1>2. Mounted' \subseteq ReadBy(role)
    <2>1. screen' \in load.screens => screen' \in OpenTo(role) /\ screen' \in Screens
        BY RoleOfLoad DEF ClientInv, WebClientTypeOK, TablesFit
    <2>2. screen' \in load.screens => ReadsOf(screen') \subseteq ReadBy(role)
        BY <2>1 DEF ReadsOf, Here, ReadBy
    <2> QED
        BY <1>1, <2>2 DEF Mounted, MountedOn, ReadsOf, Here
<1>3. \A q \in Used : fetch'[q].stage # "idle" => q \in ReadBy(role)
    BY <1>2 DEF ByTheTables
<1>4. \A q \in Used : HasData(cache, q) => HasData(cache', q)
    BY DataStays
<1> QED
    BY <1>1, <1>3, <1>4 DEF ByTheTables, ClientInv
\* A step of a change: what is clicked is offered, and what the server makes or
\* refuses was clicked.
LEMMA ChangesByTheTables ==
    ASSUME ClientInv, TablesFit, ByTheTables, NEW slot \in Slots, UNCHANGED load, ChangeStep(slot)
    PROVE  ByTheTables'
<1>0. /\ change \in [Slots -> ChangeUnderWay] /\ change[slot] \in ChangeUnderWay
      /\ role \in Roles /\ role' = role /\ RequestsFit(role)
    BY RoleOfLoad, TablesOfRole DEF ClientInv, WebClientTypeOK, role
<1>1. CASE \E m \in load.changes : Click(slot, m)
    <2>1. PICK m \in load.changes : Click(slot, m)
        BY <1>1
    <2>2. screen \in load.screens /\ screen \in OpenTo(role)
        BY <2>1, ScreenHere DEF Click, ByTheTables
    <2>3. PICK o \in Here(screen).offers : o.change = m /\ \A q \in o.after : HasData(cache, q)
        BY <2>1 DEF Click
    <2>4. o \in OfferedTo(role)
        BY <2>2, <2>3 DEF OfferedTo, Here
    <2>5. /\ UNCHANGED <<screen, log, cache, fetch, denied>>
          /\ \A s \in Slots \ {slot} : change'[s] = change[s]
          /\ change'[slot].name = m
        BY <1>0, <2>1 DEF Click
    <2>6. Used' = Used /\ \A q : HasData(cache', q) = HasData(cache, q)
        BY <2>5 DEF Used, HasData
    <2> QED
        BY <1>0, <2>3, <2>4, <2>5, <2>6 DEF ByTheTables
<1>2. CASE ServeChange(slot)
    <2> DEFINE m == change[slot].name
    <2>1. /\ UNCHANGED <<screen, cache, fetch>>
          /\ change[slot].stage = "sent"
          /\ \A s \in Slots \ {slot} : change'[s] = change[s]
          /\ change'[slot].name = m
        <3>1. \/ change' = [change EXCEPT ![slot] = [change[slot] EXCEPT !.stage = "rejected"]]
              \/ change' = [change EXCEPT ![slot] = [change[slot] EXCEPT !.stage = "made", !.at = Len(log) + 1]]
            BY <1>0, <1>2 DEF ServeChange
        <3>2. /\ [change[slot] EXCEPT !.stage = "rejected"].name = m
              /\ [change[slot] EXCEPT !.stage = "made", !.at = Len(log) + 1].name = m
            BY <1>0 DEF ChangeUnderWay
        <3>3. change'[slot].name = m /\ \A s \in Slots \ {slot} : change'[s] = change[s]
            BY <1>0, <3>1, <3>2
        <3> QED
            BY <1>2, <3>3 DEF ServeChange
    <2>2. PICK o \in OfferedTo(role) : o.change = m /\ \A p \in o.after \intersect Used : HasData(cache, p)
        BY <2>1 DEF ByTheTables
    <2>3. Malformed(m) \/ Permits(ChangeOf[m].call, role) \/ ChangeOf[m].call \in RefusedFor(role)
        BY <1>0, <2>2 DEF RequestsFit, Fits
    <2>4. denied' \subseteq RefusedFor(role)
        BY <1>2, <2>3 DEF ServeChange, ByTheTables
    <2>5. \A i \in 1..Len(log') : ~Malformed(log'[i]) /\ \E x \in OfferedTo(role) : x.change = log'[i]
        <3>1. CASE UNCHANGED log
            BY <3>1 DEF ByTheTables
        <3>2. CASE log' = Append(log, m) /\ ~Malformed(m)
            <4>1. /\ log \in Seq(Changes) /\ Len(log') = Len(log) + 1 /\ log'[Len(log) + 1] = m
                  /\ \A i \in 1..Len(log) : log'[i] = log[i] /\ Len(log) \in Nat
                BY <3>2 DEF ClientInv, WebClientTypeOK
            <4>2. \A i \in 1..Len(log') : i \in 1..Len(log) \/ i = Len(log) + 1
                BY <4>1, LogFits
            <4> HIDE DEF m
            <4> QED
                BY <2>2, <3>2, <4>1, <4>2 DEF ByTheTables
        <3> QED
            BY <1>2, <3>1, <3>2 DEF ServeChange
    <2>6. Used' = Used /\ \A q : HasData(cache', q) = HasData(cache, q)
        BY <2>1 DEF Used, HasData
    <2> HIDE DEF m
    <2> QED
        BY <1>0, <2>1, <2>2, <2>4, <2>5, <2>6 DEF ByTheTables
<1>3. CASE ReceiveAnswer(slot)
    <2> DEFINE m == change[slot].name
    <2>1. /\ m \in Changes /\ change[slot].stage = "made"
          /\ UNCHANGED <<log, denied>> /\ screen' \in {screen, Elsewhere}
          /\ change' = [change EXCEPT ![slot] = NoChange]
          /\ cache' \in [Used -> Entry]
          /\ \A q \in Used \ RefreshedBy[m] : Rests(q)
          /\ \A q \in Used \intersect SetBy[m] : cache'[q].at = change[slot].at
          /\ \A q \in (Used \intersect InvalidatedBy[m]) \ SetBy[m] : cache'[q].at = cache[q].at
          /\ \A q \in Used : fetch'[q] = fetch[q] \/ q \in Mounted
        BY <1>3, AnswerComes
    <2>2. Used' = Used
        BY <2>1 DEF Used
    <2>3. Mounted \subseteq ReadBy(role)
        BY ScreenHere DEF ByTheTables
    <2>4. change[slot].at # NoData
        BY <2>1 DEF ClientInv, NoData
    <2>5. \A q \in Used : HasData(cache, q) => HasData(cache', q)
        BY <2>1, <2>4 DEF HasData, Rests, RefreshedBy
    <2>6. change'[slot].stage = "idle" /\ \A s \in Slots \ {slot} : change'[s] = change[s]
        BY <1>0, <2>1, BlanksTyped
    <2> QED
        BY <1>0, <2>1, <2>2, <2>3, <2>5, <2>6 DEF ByTheTables
<1>4. CASE ReceiveRejection(slot) \/ LoseAnswer(slot)
    <2>1. /\ change' = [change EXCEPT ![slot] = NoChange]
          /\ UNCHANGED <<screen, log, cache, fetch, denied>>
        BY <1>4 DEF ReceiveRejection, LoseAnswer
    <2>2. change'[slot].stage = "idle" /\ \A s \in Slots \ {slot} : change'[s] = change[s]
        BY <1>0, <2>1, BlanksTyped
    <2>3. Used' = Used /\ \A q : HasData(cache', q) = HasData(cache, q)
        BY <2>1 DEF Used, HasData
    <2> QED
        BY <1>0, <2>1, <2>2, <2>3 DEF ByTheTables
<1> QED
    BY <1>1, <1>2, <1>3, <1>4 DEF ChangeStep

LEMMA NextByTheTables == ClientInv /\ TablesFit /\ ByTheTables /\ [Next]_vars => ByTheTables'
<1> SUFFICES ASSUME ClientInv, TablesFit, ByTheTables, [Next]_vars PROVE ByTheTables'
    OBVIOUS
<1>0. /\ cache \in [Used -> Entry] /\ role \in Roles /\ RequestsFit(role)
      /\ denied \subseteq RefusedFor(role)
      /\ screen \in (load.screens \intersect OpenTo(role)) \union {Elsewhere, Forbidden}
    BY RoleOfLoad, TablesOfRole DEF ClientInv, WebClientTypeOK, ByTheTables
<1>1. ASSUME Next, NEW s \in Screens, OpenFromMenu(s) \/ Follow(s) \/ GoBack(s) \/ OpenTab(s)
      PROVE  ByTheTables'
    <2>1. UNCHANGED load /\ Open(s) /\ (MayOpen(role, s) => s \in OpenTo(role))
        BY <1>1, ClientSteps, WaysLead
    <2>2. /\ UNCHANGED <<log, told, cache, change, denied>>
          /\ \/ screen' = s /\ s \in load.screens /\ MayOpen(role, s)
             \/ screen' = Elsewhere
             \/ screen' = Forbidden /\ ~MayOpen(role, s)
          /\ \A p \in Used : Moves(p)
          /\ \A p \in Used : fetch'[p].stage # "idle" => fetch[p].stage # "idle" \/ p \in Mounted'
        BY <2>1, ScreenOpens
    <2> QED
        BY <1>0, <2>1, <2>2, QueriesByTheTables
<1>2. ASSUME Next, NEW q \in Used, ReceiveData(q)
      PROVE  ByTheTables'
    <2>1. UNCHANGED load /\ UNCHANGED denied
        BY <1>2, ClientSteps DEF ReceiveData
    <2>2. /\ UNCHANGED <<screen, opened, log, told, change>>
          /\ cache' \in [Used -> Entry]
          /\ \A p \in Used : Moves(p)
          /\ \A p \in Used : fetch'[p].stage # "idle" => fetch[p].stage # "idle" \/ p \in Mounted'
        BY <1>2, <2>1, DataComes
    <2> QED
        BY <1>0, <2>1, <2>2, QueriesByTheTables
<1>3. ASSUME Next, NEW q \in Used,
             ServeQuery(q) \/ ReceiveError(q) \/ LoseQuery(q) \/ GrowStale(q) \/ Poll(q)
      PROVE  ByTheTables'
    <2>1. UNCHANGED load
        BY <1>3, ClientSteps
    <2>2. /\ UNCHANGED <<screen, opened, trusted, log, told, change>>
          /\ cache' \in [Used -> Entry]
          /\ \A p \in Used : Moves(p) /\ Mounted' = Mounted
          /\ \A p \in Used : fetch'[p].stage # "idle" => fetch[p].stage # "idle" \/ p \in Mounted
        BY <1>3, <2>1, OneMoves
    <2>3. denied' \subseteq RefusedFor(role)
        <3>1. CASE ServeQuery(q)
            <4>1. q \in ReadBy(role)
                BY <3>1 DEF ServeQuery, ByTheTables
            <4>2. Permits(QueryOf[q].call, role) \/ QueryOf[q].call \in RefusedFor(role)
                BY <1>0, <4>1 DEF RequestsFit, Fits
            <4> QED
                BY <1>0, <3>1, <4>2 DEF ServeQuery
        <3>2. CASE UNCHANGED denied
            BY <1>0, <3>2
        <3> QED
            BY <1>3, <3>1, <3>2 DEF ReceiveError, LoseQuery, GrowStale, Poll
    <2> QED
        BY <1>0, <2>1, <2>2, <2>3, QueriesByTheTables
<1>4. ASSUME Next, NEW slot \in Slots, ChangeStep(slot)
      PROVE  ByTheTables'
    BY <1>4, ClientSteps, ChangesByTheTables
<1>5. CASE UNCHANGED vars
    <2>1. UNCHANGED <<load, screen, log, change, cache, fetch, denied>> /\ role' = role /\ Used' = Used
        BY <1>5 DEF vars, role, Used
    <2> QED
        BY <2>1 DEF ByTheTables, HasData
<1>6. ASSUME Next, GetLost
      PROVE  ByTheTables'
    <2>1. UNCHANGED load
        BY <1>6, ClientSteps
    <2> QED
        BY <1>6, <2>1, LostHasNothing DEF ByTheTables
<1> QED
    BY <1>1, <1>2, <1>3, <1>4, <1>5, <1>6, ClientSteps

LEMMA ByTheTablesInvariant == TablesFit => (Spec => [](ClientInv /\ ByTheTables))
<1> SUFFICES ASSUME TablesFit PROVE Spec => [](ClientInv /\ ByTheTables)
    OBVIOUS
<1>1. Init => ClientInv /\ ByTheTables
    BY InitClient, InitByTheTables
<1>2. (ClientInv /\ ByTheTables) /\ [Next]_vars => (ClientInv /\ ByTheTables)'
    BY NextClient, NextByTheTables
<1> QED
    BY <1>1, <1>2, PTL DEF Spec

\* Whatever a page sends and a role guard refuses is one of the exceptions: no
\* sequence of pages, answers and errors has a role ask for anything else it may
\* not have.
THEOREM PagesAskForWhatTheyMay == TablesFit => (Spec => []PagesFitGuards)
<1> SUFFICES ASSUME TablesFit PROVE Spec => []PagesFitGuards
    OBVIOUS
<1>1. ByTheTables => PagesFitGuards
    BY DEF ByTheTables, PagesFitGuards
<1> QED
    BY <1>1, ByTheTablesInvariant, PTL

\* The forbidden screen is reached by the dead links alone, never from the menu,
\* a tab, or a page a change has led to.
THEOREM LinksLeadWhereTheyMay == TablesFit => (Spec => LinksOpen)
<1> SUFFICES ASSUME TablesFit PROVE Spec => LinksOpen
    OBVIOUS
<1> DEFINE Dead == screen' = Forbidden /\ screen # Forbidden =>
                       \E s \in Screens : <<role, s>> \in DeadLinks /\ Follow(s)
<1>1. ClientInv /\ ByTheTables /\ [Next]_vars => [Dead]_vars
    <2> SUFFICES ASSUME ClientInv, ByTheTables, Next, screen' = Forbidden, screen # Forbidden
                 PROVE  \E s \in Screens : <<role, s>> \in DeadLinks /\ Follow(s)
        BY DEF vars
    <2>1. ASSUME NEW s \in Screens, OpenFromMenu(s) \/ Follow(s) \/ GoBack(s) \/ OpenTab(s)
          PROVE  Follow(s) /\ <<role, s>> \in DeadLinks
        <3>1. UNCHANGED load /\ Open(s) /\ Forbidden \notin Screens /\ Forbidden # Elsewhere
            BY <2>1, ClientSteps, WaysLead DEF TablesFit, Forbidden, Elsewhere
        <3>2. ~MayOpen(role, s)
            BY <3>1, ScreenOpens
        <3> QED
            BY <2>1, <3>2, WaysLead
    <2>2. ASSUME NEW q \in Used
          PROVE  ~(\/ ReceiveData(q) \/ ServeQuery(q) \/ ReceiveError(q) \/ LoseQuery(q)
                   \/ GrowStale(q) \/ Poll(q))
        BY DEF ReceiveData, ServeQuery, ReceiveError, LoseQuery, GrowStale, Poll
    <2>3. ASSUME NEW slot \in Slots
          PROVE  ~ChangeStep(slot)
        <3>1. Forbidden # Elsewhere
            BY DEF Forbidden, Elsewhere
        <3> QED
            BY <3>1 DEF ChangeStep, Click, ServeChange, ReceiveAnswer, ReceiveRejection, LoseAnswer
    <2>4. ~GetLost
        BY LostHasNothing, ClientSteps
    <2> QED
        BY <2>1, <2>2, <2>3, <2>4, ClientSteps
<1> QED
    BY <1>1, ByTheTablesInvariant, PTL DEF Spec, LinksOpen
(***************************************************************************)
(* A page shows the changes of its user                                    *)
(***************************************************************************)

\* One change at a time, the last of the log.
OneChange ==
    ~MayOverlap("twin") =>
        /\ \A s, r \in Slots : change[s].stage # "idle" /\ change[r].stage # "idle" => s = r
        /\ \A s \in Slots : change[s].stage = "made" => change[s].at = Len(log)

\* The data of q is as of the n-th change, or will be unless the load fails.
Coming(q, n) ==
    \/ cache[q].at >= n
    \/ fetch[q].stage \in {"sent", "failed"}
    \/ fetch[q].stage = "read" /\ fetch[q].at >= n

Failed(q) == fetch[q].stage = "idle" /\ ~cache[q].fresh /\ cache[q].error

\* Stale, and if the page shows it, with an error.
Behind(q) == fetch[q].stage = "idle" /\ ~cache[q].fresh /\ (q \in Mounted => cache[q].error)

\* A load brings no older data than there is; what is mounted and not trusted is
\* as of the opening of the page; what an answered change refreshes is as of that
\* change, or will be once it is mounted.
ShowInv ==
    ~MayOverlap("race") /\ ~MayOverlap("twin") =>
        /\ \A q \in Used : fetch[q].stage = "read" => fetch[q].at >= cache[q].at
        /\ \A q \in Mounted \ trusted : Coming(q, opened) \/ Failed(q)
        /\ \A k \in told : \A q \in Used \intersect RefreshedBy[log[k]] : Coming(q, k) \/ Behind(q)

LEMMA OneChangeKept ==
    ASSUME ClientInv, OneChange, NEW slot \in Slots, UNCHANGED load, ChangeStep(slot)
    PROVE  OneChange'
<1> SUFFICES ASSUME ~MayOverlap("twin")
             PROVE  /\ \A s, r \in Slots : change'[s].stage # "idle" /\ change'[r].stage # "idle" => s = r
                    /\ \A s \in Slots : change'[s].stage = "made" => change'[s].at = Len(log')
    BY DEF OneChange, MayOverlap
<1>0. /\ change \in [Slots -> ChangeUnderWay] /\ change[slot] \in ChangeUnderWay
      /\ log \in Seq(Changes)
    BY DEF ClientInv, WebClientTypeOK
<1>1. CASE \E m \in load.changes : Click(slot, m)
    <2>1. \A s \in Slots : change[s].stage = "idle"
        BY <1>1 DEF Click, UnderWay
    <2>2. change'[slot].stage = "sent" /\ \A s \in Slots \ {slot} : change'[s] = change[s]
        BY <1>0, <1>1 DEF Click
    <2> QED
        BY <2>1, <2>2
<1>2. CASE ServeChange(slot)
    <2>1. \A s \in Slots \ {slot} : change[s].stage = "idle"
        BY <1>2 DEF ServeChange, OneChange
    <2>2. CASE change' = [change EXCEPT ![slot].stage = "rejected"]
        <3>1. change'[slot].stage = "rejected" /\ \A s \in Slots \ {slot} : change'[s] = change[s]
            BY <1>0, <2>2 DEF ChangeUnderWay
        <3> QED
            BY <2>1, <3>1
    <2>3. CASE /\ log' = Append(log, change[slot].name)
               /\ change' = [change EXCEPT ![slot].stage = "made", ![slot].at = Len(log) + 1]
        <3>1. UNCHANGED <<load, screen, opened, trusted, told, cache, fetch>>
              /\ change[slot].stage = "sent"
            BY <1>2 DEF ServeChange
        <3>2. Len(log') = Len(log) + 1
            BY <1>0, <2>3
        <3>3. change'[slot].at = Len(log) + 1 /\ \A s \in Slots \ {slot} : change'[s] = change[s]
            <4>1. change' = [change EXCEPT ![slot] = [change[slot] EXCEPT !.stage = "made", !.at = Len(log) + 1]]
                BY <1>0, <2>3
            <4>2. [change[slot] EXCEPT !.stage = "made", !.at = Len(log) + 1].at = Len(log) + 1
                BY <1>0 DEF ChangeUnderWay
            <4> QED
                BY <1>0, <4>1, <4>2
        <3> QED
            BY <2>1, <3>2, <3>3
    <2> QED
        BY <1>2, <2>2, <2>3 DEF ServeChange
<1>3. CASE ReceiveAnswer(slot) \/ ReceiveRejection(slot) \/ LoseAnswer(slot)
    <2>1. change' = [change EXCEPT ![slot] = NoChange] /\ UNCHANGED log
        BY <1>3 DEF ReceiveAnswer, ReceiveRejection, LoseAnswer
    <2>2. change'[slot].stage = "idle" /\ \A s \in Slots \ {slot} : change'[s] = change[s]
        BY <1>0, <2>1, BlanksTyped
    <2> QED
        BY <2>1, <2>2 DEF OneChange
<1> QED
    BY <1>1, <1>2, <1>3 DEF ChangeStep

\* One query in one step: what is coming comes or fails, what has failed is
\* loaded anew or stays so.
LEMMA ComingKept ==
    ASSUME ClientInv, NEW q \in Used, Moves(q),
           fetch[q].stage = "read" => fetch[q].at >= cache[q].at
    PROVE  /\ fetch'[q].stage = "read" => fetch'[q].at >= cache'[q].at
           /\ \A n \in Int : n <= Len(log) =>
                 /\ Coming(q, n) =>
                       \/ cache'[q].at >= n
                       \/ fetch'[q].stage \in {"sent", "failed"}
                       \/ fetch'[q].stage = "read" /\ fetch'[q].at >= n
                       \/ fetch'[q].stage = "idle" /\ ~cache'[q].fresh /\ cache'[q].error
                 /\ fetch[q].stage = "idle" /\ ~cache[q].fresh =>
                       \/ fetch'[q].stage = "sent"
                       \/ /\ fetch'[q].stage = "idle" /\ ~cache'[q].fresh
                          /\ cache[q].error => cache'[q].error
<1>1. /\ Len(log) \in Int /\ cache[q].at \in Int /\ fetch[q].at \in Int /\ cache[q].at <= Len(log)
    <2>1. cache[q] \in Entry /\ fetch[q] \in Fetch
        BY DEF ClientInv, WebClientTypeOK
    <2>2. cache[q].at \in Int /\ fetch[q].at \in Int
        BY <2>1, LogFits DEF Entry, Fetch, At, NoData
    <2> QED
        BY <2>2, LogFits DEF ClientInv
<1>2. CASE Asks(q)
    BY <1>2 DEF Asks
<1>3. CASE Served(q)
    BY <1>1, <1>3 DEF Served
<1>4. CASE Fails(q)
    BY <1>4 DEF Fails
<1>5. CASE Comes(q)
    BY <1>1, <1>5 DEF Comes, Coming
<1>6. CASE Errs(q)
    BY <1>6 DEF Errs
<1>7. CASE Ages(q)
    BY <1>1, <1>7 DEF Ages, Coming
<1>8. CASE Rests(q)
    BY <1>1, <1>8 DEF Rests, Coming
<1> QED
    BY <1>2, <1>3, <1>4, <1>5, <1>6, <1>7, <1>8 DEF Moves

\* A step without an answer: what is mounted anew is loaded or trusted, so that
\* what pages show keeps up.
LEMMA ShowKept ==
    ASSUME ClientInv, ShowInv, UNCHANGED <<load, told>>, cache' \in [Used -> Entry],
           \A k \in told : log'[k] = log[k],
           \A q \in Used : Moves(q), Mounted' \subseteq Used,
           \A q \in Mounted' \ Mounted : fetch'[q].stage # "idle" \/ cache'[q].fresh,
           \A q \in Mounted' \ trusted' :
              fetch'[q].stage = "sent" \/ (q \in Mounted \ trusted /\ UNCHANGED opened)
    PROVE  ShowInv'
<1> SUFFICES ASSUME ~MayOverlap("race"), ~MayOverlap("twin")
             PROVE  /\ \A q \in Used : fetch'[q].stage = "read" => fetch'[q].at >= cache'[q].at
                    /\ \A q \in Mounted' \ trusted' : Coming(q, opened)' \/ Failed(q)'
                    /\ \A k \in told : \A q \in Used \intersect RefreshedBy[log[k]] :
                          Coming(q, k)' \/ Behind(q)'
    <2>1. Used' = Used
        BY DEF Used
    <2> QED
        BY <2>1 DEF ShowInv, MayOverlap
<1>1. /\ \A q \in Used : fetch[q].stage = "read" => fetch[q].at >= cache[q].at
      /\ \A q \in Mounted \ trusted : Coming(q, opened) \/ Failed(q)
      /\ \A k \in told : \A q \in Used \intersect RefreshedBy[log[k]] : Coming(q, k) \/ Behind(q)
    BY DEF ShowInv
<1>2. \A q \in Used : fetch'[q].stage = "read" => fetch'[q].at >= cache'[q].at
    BY <1>1, ComingKept
<1>3. ASSUME NEW q \in Mounted' \ trusted'
      PROVE  Coming(q, opened)' \/ Failed(q)'
    <2>1. CASE fetch'[q].stage = "sent"
        BY <2>1 DEF Coming
    <2>2. CASE q \in Mounted \ trusted /\ UNCHANGED opened
        <3>1. opened \in Int /\ opened <= Len(log) /\ q \in Used
            BY LogFits DEF ClientInv
        <3>2. CASE Coming(q, opened)
            BY <1>1, <2>2, <3>1, <3>2, ComingKept DEF Coming, Failed
        <3>3. CASE Failed(q)
            BY <1>1, <2>2, <3>1, <3>3, ComingKept DEF Coming, Failed
        <3> QED
            BY <1>1, <2>2, <3>2, <3>3
    <2> QED
        BY <2>1, <2>2
<1>4. ASSUME NEW k \in told, NEW q \in Used \intersect RefreshedBy[log[k]]
      PROVE  Coming(q, k)' \/ Behind(q)'
    <2>1. k \in Int /\ k <= Len(log)
        BY LogFits DEF ClientInv, WebClientTypeOK
    <2>2. CASE Coming(q, k)
        BY <1>1, <2>1, <2>2, ComingKept DEF Coming, Behind
    <2>3. CASE Behind(q)
        <3>1. \/ fetch'[q].stage = "sent"
              \/ /\ fetch'[q].stage = "idle" /\ ~cache'[q].fresh
                 /\ cache[q].error => cache'[q].error
            BY <1>1, <2>1, <2>3, ComingKept DEF Behind
        <3> QED
            BY <2>3, <3>1 DEF Coming, Behind
    <2> QED
        BY <1>1, <2>2, <2>3
<1> QED
    BY <1>2, <1>3, <1>4
\* Nothing waits on a page for what an answer sets.
LEMMA AnswerMountsNothing ==
    ASSUME ClientInv, TablesFit, ByTheTables, NEW slot \in Slots, UNCHANGED load, ReceiveAnswer(slot)
    PROVE  Mounted' \subseteq Mounted
<1> DEFINE m == change[slot].name
<1>1. /\ m \in Changes /\ change[slot].stage = "made"
      /\ screen' \in {screen, Elsewhere}
      /\ \A q \in Used \ RefreshedBy[m] : Rests(q)
      /\ \A q \in (Used \intersect InvalidatedBy[m]) \ SetBy[m] : cache'[q].at = cache[q].at
    BY AnswerComes
<1>2. PICK o \in OfferedTo(role) : o.change = m /\ \A p \in o.after \intersect Used : HasData(cache, p)
    BY <1>1 DEF ByTheTables
<1>3. RefreshesFit(role) /\ Elsewhere \notin load.screens
    BY RoleOfLoad, TablesOfRole DEF ClientInv, WebClientTypeOK, TablesFit
<1>4. CASE screen' = Elsewhere
    BY <1>3, <1>4 DEF Mounted, MountedOn
<1>5. CASE screen' = screen /\ screen \in load.screens
    <2>1. ReadsOf(screen) \subseteq Used /\ ReadsOf(screen) \subseteq ReadBy(role)
        BY <1>5, ReadsUsed, ScreenHere DEF ByTheTables, ReadBy, ReadsOf, Here
    <2>2. ASSUME NEW q \in ReadsOf(screen), NEW p \in After(q) \intersect ReadsOf(screen),
                 HasData(cache', p)
          PROVE  HasData(cache, p)
        <3>1. CASE p \in SetBy[m]
            BY <1>2, <1>3, <2>1, <2>2, <3>1 DEF RefreshesFit
        <3>2. CASE p \notin SetBy[m]
            BY <1>1, <2>1, <2>2, <3>2 DEF HasData, Rests, RefreshedBy
        <3> QED
            BY <3>1, <3>2
    <2>3. ReadsOf(screen)' = ReadsOf(screen)
        BY <1>5 DEF ReadsOf, Here, role
    <2> QED
        BY <1>5, <2>2, <2>3 DEF Mounted, MountedOn
<1>6. CASE screen' = screen /\ screen \notin load.screens
    BY <1>6 DEF Mounted, MountedOn
<1> QED
    BY <1>1, <1>4, <1>5, <1>6

\* The answer of the last change: what it refreshes is as of it, on its way, or
\* stale and not mounted.
LEMMA ShowAnswer ==
    ASSUME ClientInv, TablesFit, ByTheTables, OneChange, ShowInv,
           NEW slot \in Slots, UNCHANGED load, ReceiveAnswer(slot)
    PROVE  ShowInv'
<1> DEFINE m == change[slot].name
<1> SUFFICES ASSUME ~MayOverlap("race"), ~MayOverlap("twin")
             PROVE  /\ \A q \in Used : fetch'[q].stage = "read" => fetch'[q].at >= cache'[q].at
                    /\ \A q \in Mounted' \ trusted' : Coming(q, opened)' \/ Failed(q)'
                    /\ \A k \in told' : \A q \in Used \intersect RefreshedBy[log'[k]] :
                          Coming(q, k)' \/ Behind(q)'
    <2>1. Used' = Used
        BY AnswerComes DEF Used
    <2> QED
        BY <2>1 DEF ShowInv, MayOverlap
<1>1. /\ m \in Changes /\ change[slot].stage = "made"
      /\ UNCHANGED <<opened, log>> /\ told' = told \union {change[slot].at}
      /\ trusted' = trusted \ (RefreshedBy[m] \intersect Used)
      /\ \A q \in Used \ RefreshedBy[m] : Rests(q)
      /\ \A q \in Used \intersect SetBy[m] : cache'[q].at = change[slot].at
      /\ \A q \in (Used \intersect InvalidatedBy[m]) \ SetBy[m] :
            cache'[q].at = cache[q].at /\ ~cache'[q].fresh
      /\ \A q \in Used :
            \/ fetch'[q] = fetch[q] /\
                   (q \in Mounted \intersect InvalidatedBy[m] => fetch[q].stage # "idle" /\ q \notin Reloaded(m))
            \/ q \in Mounted /\ fetch'[q].stage = "sent"
      /\ \A q \in Used \intersect RefreshedBy[m] : fetch[q].stage = "idle" \/ q \in Reloaded(m)
    BY AnswerComes
<1>2. change[slot].at = Len(log) /\ log[Len(log)] = m
    BY <1>1 DEF OneChange, ClientInv
<1>3. /\ \A q \in Used : fetch[q].stage = "read" => fetch[q].at >= cache[q].at
      /\ \A q \in Mounted \ trusted : Coming(q, opened) \/ Failed(q)
      /\ \A k \in told : \A q \in Used \intersect RefreshedBy[log[k]] : Coming(q, k) \/ Behind(q)
    BY DEF ShowInv
<1>4. RefreshedBy[m] = InvalidatedBy[m] \union SetBy[m] /\ Reloaded(m) \subseteq Mounted \intersect InvalidatedBy[m]
    BY <1>1 DEF RefreshedBy, Reloaded
<1>5. Mounted' \subseteq Mounted /\ Mounted \subseteq Used
    BY AnswerMountsNothing, ReadsUsed
<1> HIDE DEF m
\* What the answer refreshes.
<1>6. ASSUME NEW q \in Used \intersect RefreshedBy[m]
      PROVE  \/ fetch'[q].stage = "sent"
             \/ /\ fetch'[q].stage = "idle"
                /\ \/ cache'[q].at = Len(log)
                   \/ q \notin Mounted /\ ~cache'[q].fresh
    <2>1. CASE q \in Mounted /\ fetch'[q].stage = "sent"
        BY <2>1
    <2>2. CASE fetch'[q] = fetch[q] /\
                   (q \in Mounted \intersect InvalidatedBy[m] => fetch[q].stage # "idle" /\ q \notin Reloaded(m))
        <3>1. fetch[q].stage = "idle" /\ q \notin Mounted \intersect InvalidatedBy[m]
            BY <1>1, <1>4, <2>2
        <3> QED
            BY <1>1, <1>2, <1>4, <2>2, <3>1
    <2> QED
        BY <1>1, <2>1, <2>2
<1>7. \A q \in Used : fetch'[q].stage = "read" => fetch'[q].at >= cache'[q].at
    <2>1. \A q \in Used \intersect RefreshedBy[m] : fetch'[q].stage # "read"
        BY <1>6
    <2> QED
        BY <1>1, <1>3, <2>1 DEF Rests
<1>8. ASSUME NEW q \in Mounted' \ trusted'
      PROVE  Coming(q, opened)' \/ Failed(q)'
    <2>1. CASE q \in RefreshedBy[m]
        <3>1. fetch'[q].stage = "sent" \/ cache'[q].at = Len(log)
            BY <1>5, <1>6, <2>1
        <3>2. opened' \in Int /\ opened' <= Len(log) /\ Len(log) \in Int
            BY <1>1, LogFits DEF ClientInv
        <3> QED
            BY <3>1, <3>2 DEF Coming
    <2>2. CASE q \notin RefreshedBy[m]
        <3>1. q \in Mounted \ trusted /\ Rests(q)
            BY <1>1, <1>5, <2>2
        <3> QED
            BY <1>1, <1>3, <3>1 DEF Rests, Coming, Failed
    <2> QED
        BY <2>1, <2>2
<1>9. ASSUME NEW k \in told', NEW q \in Used \intersect RefreshedBy[log'[k]]
      PROVE  Coming(q, k)' \/ Behind(q)'
    <2>1. k \in Int /\ k <= Len(log) /\ Len(log) \in Int
        BY <1>1, <1>2, LogFits DEF ClientInv, WebClientTypeOK
    <2>2. CASE q \in RefreshedBy[m]
        BY <1>5, <1>6, <2>1, <2>2 DEF Coming, Behind
    <2>3. CASE q \notin RefreshedBy[m]
        <3>1. k \in told /\ q \in RefreshedBy[log[k]]
            BY <1>1, <1>2, <2>3
        <3>2. Rests(q)
            BY <1>1, <2>3
        <3> QED
            BY <1>3, <1>5, <3>1, <3>2 DEF Rests, Coming, Behind
    <2> QED
        BY <2>2, <2>3
<1> QED
    BY <1>7, <1>8, <1>9

\* All that keeps what a page shows with the changes of its user.
ShowsAll == ClientInv /\ ByTheTables /\ OneChange /\ ShowInv

LEMMA InitShows == Init /\ TablesFit => ShowsAll
<1> SUFFICES ASSUME Init, TablesFit PROVE ShowsAll
    OBVIOUS
<1>1. ClientInv /\ ByTheTables
    BY InitClient, InitByTheTables
<1>2. /\ \A s \in Slots : change[s].stage = "idle"
      /\ \A q \in Used : fetch[q].stage = "idle"
      /\ told = {} /\ screen = Elsewhere
    BY BlanksTyped DEF Init
<1>3. Mounted = {}
    BY <1>1, <1>2, RoleOfLoad DEF Mounted, MountedOn, TablesFit, ClientInv, WebClientTypeOK
<1> QED
    BY <1>1, <1>2, <1>3 DEF ShowsAll, OneChange, ShowInv

LEMMA NextShows == ShowsAll /\ TablesFit /\ [Next]_vars => ShowsAll'
<1> SUFFICES ASSUME ShowsAll, TablesFit, [Next]_vars PROVE ShowsAll'
    OBVIOUS
<1>0. /\ ClientInv /\ ByTheTables /\ OneChange /\ ShowInv
      /\ ClientInv' /\ ByTheTables'
      /\ cache \in [Used -> Entry] /\ fetch \in [Used -> Fetch]
    BY NextClient, NextByTheTables DEF ShowsAll, ClientInv, WebClientTypeOK
<1>1. ASSUME Next, NEW s \in Screens, OpenFromMenu(s) \/ Follow(s) \/ GoBack(s) \/ OpenTab(s)
      PROVE  OneChange' /\ ShowInv'
    <2>1. UNCHANGED load /\ Open(s)
        BY <1>0, <1>1, ClientSteps, WaysLead
    <2>2. /\ UNCHANGED <<log, told, cache, change, denied>>
          /\ \A p \in Used : Moves(p)
          /\ Mounted' \subseteq Used
          /\ \A p \in Mounted' :
                \/ fetch'[p].stage = "sent"
                \/ p \in trusted' /\ (p \in Mounted \/ fetch'[p].stage # "idle" \/ cache'[p].fresh)
        BY <1>0, <2>1, ScreenOpens
    <2>3. ShowInv'
        BY <1>0, <2>1, <2>2, ShowKept
    <2> QED
        BY <1>0, <2>1, <2>2, <2>3 DEF OneChange, MayOverlap
<1>2. ASSUME Next, NEW q \in Used, ReceiveData(q)
      PROVE  OneChange' /\ ShowInv'
    <2>1. UNCHANGED load
        BY <1>2, ClientSteps
    <2>2. /\ UNCHANGED <<screen, opened, log, told, change>>
          /\ cache' \in [Used -> Entry]
          /\ \A p \in Used : Moves(p)
          /\ Mounted' \subseteq Used /\ trusted \subseteq trusted'
          /\ \A p \in Mounted' \ Mounted :
                \/ fetch'[p].stage = "sent"
                \/ p \in trusted' /\ (fetch'[p].stage # "idle" \/ cache'[p].fresh)
        BY <1>0, <1>2, <2>1, DataComes
    <2>3. ShowInv'
        BY <1>0, <2>1, <2>2, ShowKept
    <2> QED
        BY <1>0, <2>1, <2>2, <2>3 DEF OneChange, MayOverlap
<1>3. ASSUME Next, NEW q \in Used,
             ServeQuery(q) \/ ReceiveError(q) \/ LoseQuery(q) \/ GrowStale(q) \/ Poll(q)
      PROVE  OneChange' /\ ShowInv'
    <2>1. UNCHANGED load /\ Mounted \subseteq Used
        BY <1>0, <1>3, ClientSteps, ReadsUsed
    <2>2. /\ UNCHANGED <<screen, opened, trusted, log, told, change>>
          /\ cache' \in [Used -> Entry]
          /\ \A p \in Used : Moves(p)
          /\ Mounted' = Mounted
        BY <1>0, <1>3, <2>1, OneMoves
    <2>3. ShowInv'
        BY <1>0, <2>1, <2>2, ShowKept
    <2> QED
        BY <1>0, <2>1, <2>2, <2>3 DEF OneChange, MayOverlap
<1>4. ASSUME Next, NEW slot \in Slots, ChangeStep(slot)
      PROVE  OneChange' /\ ShowInv'
    <2>1. UNCHANGED load /\ OneChange'
        BY <1>0, <1>4, ClientSteps, OneChangeKept
    <2>2. CASE ReceiveAnswer(slot)
        BY <1>0, <2>1, <2>2, ShowAnswer
    <2>3. CASE ~ReceiveAnswer(slot)
        <3>1. /\ UNCHANGED <<screen, opened, trusted, told, cache, fetch>>
              /\ UNCHANGED log \/ log' = Append(log, change[slot].name)
            BY <1>4, <2>3 DEF ChangeStep, Click, ServeChange, ReceiveRejection, LoseAnswer
        <3>2. \A k \in told : log'[k] = log[k]
            BY <1>0, <3>1 DEF ClientInv, WebClientTypeOK
        <3>3. Mounted' = Mounted /\ Mounted \subseteq Used
            BY <1>0, <2>1, <3>1, ReadsUsed DEF Mounted, MountedOn, ReadsOf, Here, role
        <3>4. \A q \in Used : Moves(q)
            BY <3>1 DEF Moves, Rests
        <3> QED
            BY <1>0, <2>1, <3>1, <3>2, <3>3, <3>4, ShowKept
    <2> QED
        BY <2>1, <2>2, <2>3
<1>5. CASE UNCHANGED vars
    <2>1. UNCHANGED <<load, screen, opened, trusted, log, told, cache, fetch, change>>
        BY <1>5 DEF vars
    <2>2. Mounted' = Mounted /\ Mounted \subseteq Used
        BY <1>0, <2>1, ReadsUsed DEF Mounted, MountedOn, ReadsOf, Here, role
    <2>3. \A q \in Used : Moves(q)
        BY <2>1 DEF Moves, Rests
    <2>4. ShowInv'
        BY <1>0, <2>1, <2>2, <2>3, ShowKept
    <2>5. OneChange'
        BY <1>0, <2>1 DEF OneChange, MayOverlap
    <2> QED
        BY <1>0, <2>4, <2>5 DEF ShowsAll
<1>6. ASSUME Next, GetLost
      PROVE  OneChange' /\ ShowInv'
    <2>1. UNCHANGED load
        BY <1>6, ClientSteps
    <2>2. OneChange'
        BY <1>0, <1>6, <2>1, LostHasNothing DEF OneChange
    <2>3. ShowInv'
        BY <1>0, <1>6, <2>1, LostHasNothing DEF ShowInv, Behind, MayOverlap
    <2> QED
        BY <2>2, <2>3
<1> QED
    BY <1>0, <1>1, <1>2, <1>3, <1>4, <1>5, <1>6, ClientSteps DEF ShowsAll

LEMMA ShowsInvariant == TablesFit => (Spec => []ShowsAll)
<1> SUFFICES ASSUME TablesFit PROVE Spec => []ShowsAll
    OBVIOUS
<1>1. Init => ShowsAll
    BY InitShows
<1>2. ShowsAll /\ [Next]_vars => ShowsAll'
    BY NextShows
<1> QED
    BY <1>1, <1>2, PTL DEF Spec

\* Once nothing is on its way a page shows the answered changes of its user,
\* through every order of pages, loads, retries, lost answers and changes, one at
\* a time; what is left behind is behind on pages that have not loaded it since.
THEOREM ChangesAreShown == TablesFit => (Spec => []OwnChangesShown)
<1> SUFFICES ASSUME TablesFit PROVE Spec => []OwnChangesShown
    OBVIOUS
<1>1. ShowsAll => OwnChangesShown
    <2> SUFFICES ASSUME ShowsAll, AtRest, ~MayOverlap("race"), ~MayOverlap("twin"),
                        NEW q \in Mounted, NEW k \in told, q \in AffectedBy[log[k]]
                 PROVE  Shows(q, k) \/ (LeftBehind(log[k], q) /\ (k > opened \/ q \in trusted))
        BY DEF OwnChangesShown
    <2>1. ClientInv /\ ByTheTables /\ ShowInv
        BY DEF ShowsAll
    <2>2. q \in Used /\ q \in ReadBy(role) /\ fetch[q].stage = "idle"
        BY <2>1, ReadsUsed, ScreenHere DEF ByTheTables, AtRest
    <2>3. /\ k \in 1..Len(log) /\ k \in Int /\ opened \in Int /\ cache[q].at \in Int
        <3>1. cache[q] \in Entry /\ k \in 1..Len(log)
            BY <2>1, <2>2 DEF ClientInv, WebClientTypeOK
        <3> QED
            BY <2>1, <3>1, LogFits DEF Entry, At, NoData
    <2>4. PICK o \in OfferedTo(role) : o.change = log[k] /\ ~Malformed(log[k])
        BY <2>1, <2>3 DEF ByTheTables
    <2>5. RefreshesFit(role)
        BY <2>1, RoleOfLoad, TablesOfRole DEF ClientInv, WebClientTypeOK
    <2>6. q \in RefreshedBy[log[k]] \/ LeftBehind(log[k], q)
        BY <2>2, <2>4, <2>5 DEF RefreshesFit
    <2>7. CASE q \in RefreshedBy[log[k]]
        <3>1. Coming(q, k) \/ Behind(q)
            BY <2>1, <2>2, <2>7 DEF ShowInv
        <3> QED
            BY <2>2, <3>1 DEF Coming, Behind, Shows
    <2>8. CASE LeftBehind(log[k], q) /\ k <= opened /\ q \notin trusted
        <3>1. Coming(q, opened) \/ Failed(q)
            BY <2>1, <2>8 DEF ShowInv
        <3> QED
            BY <2>2, <2>3, <2>8, <3>1 DEF Coming, Failed, Shows
    <2> QED
        BY <2>3, <2>6, <2>7, <2>8
<1> QED
    BY <1>1, ShowsInvariant, PTL

=============================================================================
