----------------------------- MODULE WebClient -----------------------------
(***************************************************************************)
(* The web client of one user and the server: the pages of Pages, with the *)
(* cache of React Query behind QueryHooks and the role guards of ApiRoutes *)
(* in front of the data.                                                   *)
(*                                                                         *)
(* The changes this user has made are logged in their order; what a query  *)
(* has of them is the length of the log when the server read for it.  The  *)
(* changes of others do not matter to what is checked.  A query that is    *)
(* not mounted keeps its data; the collection of such data after five      *)
(* minutes would only load it anew.                                        *)
(*                                                                         *)
(* load says who is signed in, which screens mount their queries (others   *)
(* are Elsewhere), which changes are made, how many, and what may happen:  *)
(*   "time"  a staleTime or an interval passes                             *)
(*   "twin"  a second change before the answer of the first                *)
(*   "race"  the answer of a change overtakes a load that it does not stop *)
(*   "loss"  answers get lost                                              *)
(***************************************************************************)
EXTENDS Pages, Integers, FiniteSets

CONSTANTS
    Slots,       \* the changes that may be under way at once
    MaxChanges,  \* bound: changes made, by the load's own bound
    Loads

Overlaps == {"time", "twin", "race", "loss"}

LoadType ==
    [role: Roles, screens: SUBSET Screens, changes: SUBSET Changes,
     most: 0..MaxChanges, overlap: SUBSET Overlaps]

ASSUME WebClientAssumption ==
    /\ IsFiniteSet(Slots)
    /\ MaxChanges \in Nat \ {0}
    /\ Loads \subseteq LoadType

VARIABLES
    load,
    screen,
    opened,   \* the length of the log when the screen was opened
    trusted,  \* the queries it did not load then: fresh, mounted before, or a load was under way
    log,      \* the changes the server has made, a sequence
    told,     \* those the client has the answer of
    cache,    \* [Used -> Entry], the QueryClient
    fetch,    \* [Used -> Fetch], the request of a query
    change,   \* [Slots -> a change under way]
    denied    \* the requests a role guard has refused

vars == <<load, screen, opened, trusted, log, told, cache, fetch, change, denied>>

role == load.role

Elsewhere == "elsewhere"
Forbidden == "forbidden"

NoData == -1
At     == 0..MaxChanges

\* fresh is within the staleTime and not invalidated.
Entry   == [at: At \union {NoData}, fresh: BOOLEAN, error: BOOLEAN]
NoEntry == [at |-> NoData, fresh |-> FALSE, error |-> FALSE]

\* retried is the one retry of main.tsx.
Fetch  == [stage: {"idle", "sent", "read", "failed"}, at: At, retried: BOOLEAN]
NoFetch == [stage |-> "idle", at |-> 0, retried |-> FALSE]
Sent    == [NoFetch EXCEPT !.stage = "sent"]

\* "made" has its place in the log, "rejected" has none.
ChangeUnderWay == [stage: {"idle", "sent", "made", "rejected"}, name: Changes \union {"none"}, at: At]
NoChange == [stage |-> "idle", name |-> "none", at |-> 0]

\* The screens of each role, once and for all.
ScreenTable == [r \in Roles |-> [s \in Screens |-> ScreenOf(s, r)]]

Here(s) == ScreenTable[role][s]

ReadsOf(s) == Here(s).reads

Used == DOMAIN cache

MayOverlap(what) == what \in load.overlap

(***************************************************************************)
(* Mounting                                                                *)
(***************************************************************************)

HasData(c, q) == c[q].at # NoData

\* What of the screen is mounted and enabled, with the data of c.
MountedOn(s, c) ==
    IF s \in load.screens
    THEN {q \in ReadsOf(s) : \A p \in After(q) \intersect ReadsOf(s) : HasData(c, p)}
    ELSE {}

Mounted == MountedOn(screen, cache)

\* A fetch for those that have none.
Start(f, qs) == [q \in Used |-> IF q \in qs /\ f[q].stage = "idle" THEN Sent ELSE f[q]]

Restart(f, qs) == [q \in Used |-> IF q \in qs THEN Sent ELSE f[q]]

\* Wrong on purpose: what has data is not loaded when a page opens.
StaleIfEmpty(c, qs) == {q \in qs : ~HasData(c, q)}

\* What is loaded when it is mounted.
Stale(c, qs) == {q \in qs : ~c[q].fresh}

IsTab(s) == s \in Tabs

\* What is mounted and not loaded for that.
Trusted(new, c, f) == {q \in new : c[q].fresh \/ f[q].stage # "idle"}

\* The page of a tour stays mounted when another tab is opened; what the tabs
\* share is mounted again.
StaysMounted(s) ==
    IF IsTab(screen) /\ IsTab(s) THEN Mounted \intersect TourPage(role).reads ELSE {}

Mount(s) ==
    LET new == MountedOn(s, cache) \ StaysMounted(s)
    IN  /\ screen' = s
        /\ fetch' = Start(fetch, Stale(cache, new))
        /\ opened' = Len(log)
        /\ trusted' = StaysMounted(s) \union Trusted(new, cache, fetch)

Leave(s) ==
    /\ screen' = s
    /\ UNCHANGED <<fetch, opened>>
    /\ trusted' = {}

\* A link of the menu or of the page; ProtectedRoute decides.
Open(s) ==
    /\ s # screen
    /\ IF ~MayOpen(role, s) THEN Leave(Forbidden)
       ELSE IF s \in load.screens THEN Mount(s) ELSE Leave(Elsewhere)
    /\ UNCHANGED <<log, told, cache, change, denied>>

\* The menu of each role and the way home, once and for all.
MenuTable == [r \in Roles |-> NavItems(r) \union {RoleHome(r)}]

MenuOf(r) == MenuTable[r]

\* A page outside the load may link to any page the role has a way to.
LinksHere ==
    IF screen = Elsewhere THEN {s \in load.screens \ {"notFound"} : MayOpen(role, s)}
    ELSE IF screen = Forbidden THEN {}
    ELSE Here(screen).links

\* The forbidden screen and the page of the route * are shown without it.
HasMenu == screen \notin {Forbidden, "notFound"}

\* Wrong on purpose: the menu shows the figures to the whole team.
OpenFromMenuOfTeam(s) ==
    /\ HasMenu
    /\ s \in MenuOf(role) \union (IF role \in Team THEN {"finance"} ELSE {})
    /\ Open(s)

OpenFromMenu(s) == HasMenu /\ s \in MenuOf(role) /\ Open(s)

\* What the menu has as well counts as the menu.
Follow(s) ==
    /\ s \in LinksHere \ (Tabs \ {"info"})
    /\ ~HasMenu \/ s \notin MenuOf(role)
    /\ Open(s)

\* The browser's way back, to any page that did open.
GoBack(s) ==
    /\ ~HasMenu
    /\ MayOpen(role, s) /\ s \notin Tabs \ {"info"}
    /\ Open(s)

\* An address that no route has: the client is loaded anew, and whatever it kept
\* or waited for is gone.
GetLost ==
    /\ "notFound" \in load.screens /\ screen # "notFound"
    /\ screen' = "notFound"
    /\ cache' = [q \in Used |-> NoEntry]
    /\ fetch' = [q \in Used |-> NoFetch]
    /\ change' = [s \in Slots |-> NoChange]
    /\ trusted' = {}
    /\ UNCHANGED <<opened, log, told, denied>>

\* Wrong on purpose: every role gets all the tabs.
OpenAnyTab(s) ==
    /\ IsTab(screen) /\ HasData(cache, "tourDetail")
    /\ s \in Tabs \intersect load.screens
    /\ Open(s)

\* The tabs are there once the tour is.
OpenTab(s) ==
    /\ IsTab(screen) /\ HasData(cache, "tourDetail")
    /\ s \in TabsOf(role) \intersect load.screens
    /\ Open(s)

(***************************************************************************)
(* Queries                                                                 *)
(***************************************************************************)

\* The server answers as of now, or its role guard refuses.
ServeQuery(q) ==
    /\ fetch[q].stage = "sent"
    /\ IF Permits(QueryOf[q].call, role)
       THEN /\ fetch' = [fetch EXCEPT ![q].stage = "read", ![q].at = Len(log)]
            /\ UNCHANGED denied
       ELSE /\ fetch' = [fetch EXCEPT ![q].stage = "failed"]
            /\ denied' = denied \union {QueryOf[q].call}
    /\ UNCHANGED <<screen, opened, trusted, log, told, cache, change>>

LoseQuery(q) ==
    /\ fetch[q].stage \in {"sent", "read"}
    /\ fetch' = [fetch EXCEPT ![q].stage = "failed"]
    /\ UNCHANGED <<screen, opened, trusted, log, told, cache, change, denied>>

\* The data is stored, and what has waited for it is mounted.
ReceiveData(q) ==
    LET c   == [cache EXCEPT ![q] = [at |-> fetch[q].at, fresh |-> QueryOf[q].keeps, error |-> FALSE]]
        f   == [fetch EXCEPT ![q] = NoFetch]
        new == MountedOn(screen, c) \ Mounted
    IN  /\ fetch[q].stage = "read"
        /\ cache' = c
        /\ fetch' = Start(f, Stale(c, new))
        /\ trusted' = trusted \union Trusted(new, c, f)
        /\ UNCHANGED <<screen, opened, log, told, change, denied>>

\* One retry, then the error is shown.
ReceiveError(q) ==
    /\ fetch[q].stage = "failed"
    /\ IF fetch[q].retried
       THEN /\ fetch' = [fetch EXCEPT ![q] = NoFetch]
            /\ cache' = [cache EXCEPT ![q].error = TRUE, ![q].fresh = FALSE]
       ELSE /\ fetch' = [fetch EXCEPT ![q] = [Sent EXCEPT !.retried = TRUE]]
            /\ UNCHANGED cache
    /\ UNCHANGED <<screen, opened, trusted, log, told, change, denied>>

\* staleTime passes; nothing is loaded for that.
GrowStale(q) ==
    /\ cache[q].fresh
    /\ cache' = [cache EXCEPT ![q].fresh = FALSE]
    /\ UNCHANGED <<screen, opened, trusted, log, told, fetch, change, denied>>

\* refetchInterval.
Poll(q) ==
    /\ q \in Mounted /\ QueryOf[q].polls
    /\ fetch[q].stage = "idle"
    /\ fetch' = Start(fetch, {q})
    /\ UNCHANGED <<screen, opened, trusted, log, told, cache, change, denied>>

(***************************************************************************)
(* Mutations                                                               *)
(***************************************************************************)

UnderWay == {s \in Slots : change[s].stage # "idle"}

\* One click; "twin" is a second before the answer.
Click(slot, m) ==
    /\ change[slot].stage = "idle"
    /\ UnderWay = {} \/ MayOverlap("twin")
    /\ Len(log) + Cardinality(UnderWay) < load.most
    /\ m \in load.changes
    /\ screen \in load.screens
    /\ \E offer \in Here(screen).offers :
          /\ offer.change = m
          /\ \A q \in offer.after : HasData(cache, q)
    /\ change' = [change EXCEPT ![slot] = [stage |-> "sent", name |-> m, at |-> 0]]
    /\ UNCHANGED <<screen, opened, trusted, log, told, cache, fetch, denied>>

\* LeadsList sends a conversion without the body its schema requires.
Malformed(m) == m = "convertLead"

\* The schema, the role guard, then the handler, which may refuse as well.
ServeChange(slot) ==
    LET m == change[slot].name
    IN  /\ change[slot].stage = "sent"
        /\ \/ /\ change' = [change EXCEPT ![slot].stage = "rejected"]
              /\ denied' = IF Malformed(m) \/ Permits(ChangeOf[m].call, role) THEN denied
                           ELSE denied \union {ChangeOf[m].call}
              /\ UNCHANGED log
           \/ /\ ~Malformed(m) /\ Permits(ChangeOf[m].call, role)
              /\ log' = Append(log, m)
              /\ change' = [change EXCEPT ![slot].stage = "made", ![slot].at = Len(log) + 1]
              /\ UNCHANGED denied
        /\ UNCHANGED <<screen, opened, trusted, told, cache, fetch>>

\* The pages that go on to the record they have made.
GoesOn(m) == m \in {"createTour", "createDeparture", "createBooking"}

\* What invalidateQueries loads anew at once: it is mounted and has data.
Reloaded(m) == {q \in InvalidatedBy[m] \intersect Mounted : HasData(cache, q)}

\* A load under way that goes on as if nothing had changed.
Overtakes(m) == \E q \in (RefreshedBy[m] \intersect Used) \ Reloaded(m) : fetch[q].stage # "idle"

\* onSuccess.  invalidateQueries starts what is mounted anew, but for a first
\* load, which goes on; what is not mounted waits.
ReceiveAnswer(slot) ==
    LET m       == change[slot].name
        set     == SetBy[m] \intersect Used
        old     == InvalidatedBy[m] \intersect Used
        c       == [q \in Used |->
                       IF q \in set THEN [at |-> change[slot].at, fresh |-> QueryOf[q].keeps,
                                          error |-> FALSE]
                       ELSE IF q \in old THEN [cache[q] EXCEPT !.fresh = FALSE]
                       ELSE cache[q]]
    IN  /\ change[slot].stage = "made"
        /\ ~Overtakes(m) \/ MayOverlap("race")
        /\ told' = told \union {change[slot].at}
        /\ cache' = c
        /\ fetch' = Start(Restart(fetch, Reloaded(m)), old \intersect Mounted)
        /\ trusted' = trusted \ (set \union old)
        /\ screen' = IF GoesOn(m) THEN Elsewhere ELSE screen
        /\ change' = [change EXCEPT ![slot] = NoChange]
        /\ UNCHANGED <<opened, log, denied>>

\* Wrong on purpose: a refusal is taken for an answer.
ReceiveRejectionAsAnswer(slot) ==
    /\ change[slot].stage = "rejected"
    /\ told' = told \union {change[slot].at}
    /\ change' = [change EXCEPT ![slot] = NoChange]
    /\ UNCHANGED <<screen, opened, trusted, log, cache, fetch, denied>>

ReceiveRejection(slot) ==
    /\ change[slot].stage = "rejected"
    /\ change' = [change EXCEPT ![slot] = NoChange]
    /\ UNCHANGED <<screen, opened, trusted, log, told, cache, fetch, denied>>

\* The change is made or not, and the page shows an error.
LoseAnswer(slot) ==
    /\ change[slot].stage \in {"sent", "made"}
    /\ change' = [change EXCEPT ![slot] = NoChange]
    /\ UNCHANGED <<screen, opened, trusted, log, told, cache, fetch, denied>>

(***************************************************************************)
(* The whole                                                               *)
(***************************************************************************)

Init ==
    /\ load \in Loads
    /\ screen = Elsewhere
    /\ opened = 0 /\ trusted = {}
    /\ log = <<>> /\ told = {}
    /\ cache = [q \in UNION {ReadsOf(s) : s \in load.screens} |-> NoEntry]
    /\ fetch = [q \in Used |-> NoFetch]
    /\ change = [s \in Slots |-> NoChange]
    /\ denied = {}

Next ==
    /\ UNCHANGED load
    /\ \/ \E s \in Screens : OpenFromMenu(s) \/ Follow(s) \/ GoBack(s) \/ OpenTab(s)
       \/ GetLost
       \/ \E q \in Used :
             \/ ServeQuery(q) \/ ReceiveData(q) \/ ReceiveError(q)
             \/ MayOverlap("time") /\ (GrowStale(q) \/ Poll(q))
             \/ MayOverlap("loss") /\ LoseQuery(q)
       \/ \E slot \in Slots :
             \/ \E m \in load.changes : Click(slot, m)
             \/ ServeChange(slot) \/ ReceiveAnswer(slot) \/ ReceiveRejection(slot)
             \/ MayOverlap("loss") /\ LoseAnswer(slot)

Spec == Init /\ [][Next]_vars

WebClientTypeOK ==
    /\ load \in LoadType
    /\ screen \in load.screens \union {Elsewhere, Forbidden}
    /\ opened \in At
    /\ trusted \subseteq Used
    /\ log \in Seq(Changes) /\ Len(log) \in At
    /\ told \subseteq 1..Len(log)
    /\ cache \in [Used -> Entry]
    /\ fetch \in [Used -> Fetch]
    /\ change \in [Slots -> ChangeUnderWay]
    /\ denied \subseteq DOMAIN Api

(***************************************************************************)
(* What must hold                                                          *)
(***************************************************************************)

AtRest ==
    /\ \A q \in Used : fetch[q].stage = "idle"
    /\ UnderWay = {}

Shows(q, k) == cache[q].at >= k \/ cache[q].error

\* No mutation refreshes what is summed up from its data.
Figures == {"opsDashboard", "marginAlerts", "toursLoad", "financeSummary", "debts",
            "salesFunnel", "revenueTrend", "agentsTop", "leadsByStatus"}

\* What the mutations forget besides.
Forgotten ==
    [assignSeat |-> {"tourTourists"},
     createHotel |-> {"roomStructure"}, patchHotel |-> {"roomStructure"},
     setStructure |-> {"hotels"}, approveStructure |-> {"hotels"}, finalizeStructure |-> {"hotels"},
     updateTour |-> {"availability"}, changeTourStatus |-> {"availability"},
     changeBookingStatus |-> {"tourTourists", "transport"},
     createBooking |-> {"bookings", "tourTourists", "transport", "commissions", "royalty",
                        "tours", "toursOf50", "tourDetail", "availability"},
     createLead |-> {"touristSearch"},
     patchStaff |-> {"drivers"}, deactivateStaff |-> {"drivers"}]

LeftBehind(m, q) == q \in Figures \/ (m \in DOMAIN Forgotten /\ q \in Forgotten[m])

\* Once nothing is on its way, a page shows the changes of its user that have
\* been answered, wherever they were made.  What the mutation leaves behind is
\* behind only where it was not loaded since: on a page opened before the change,
\* or one that still trusted what it had.  Answers that overtake each other or a
\* load are excepted.
OwnChangesShown ==
    AtRest /\ ~MayOverlap("race") /\ ~MayOverlap("twin") =>
        \A q \in Mounted, k \in told :
            q \in AffectedBy[log[k]] =>
                Shows(q, k) \/ (LeftBehind(log[k], q) /\ (k > opened \/ q \in trusted))

\* Requests a role guard refuses to a page that sends them.
RefusedReads ==
    [accountant |-> {"getChecklist", "listTourTourists", "getStructure", "listHotels",
                     "listActivities", "getTourSeatMap", "listTransport", "listTourPapers",
                     "getOpsDashboard", "listLeads", "listBookingPapers", "listBookingMail"},
     ops |-> {"getFinanceSummary", "listLeads", "listBookingPapers"},
     logist |-> {"listTourTourists"},
     agent |-> {"listAgents"}]

RefusedFor(r) ==
    (IF r \in DOMAIN RefusedReads THEN RefusedReads[r] ELSE {})
    \union (IF r = "director" THEN {"updateLead"} ELSE {})

\* Apart from the reads above, no page asks for what the server refuses to the
\* role it is shown to; and no button is offered whose request is refused for
\* the role, but for the cards a director may drag.

PagesFitGuards == denied \subseteq RefusedFor(role)

\* As a comment in TourDetail has it: the server serves the logist the tabs for
\* hotels, rooming and transport.
LogistIsServed == role = "logist" => denied = {}

\* The links of a page that lead a role to the forbidden screen.
DeadLinks ==
    {<<r, "bookingNew">> : r \in {"director", "accountant"}}
    \union {<<r, "finance">> : r \in TourTeam \ {"admin", "director"}}
    \union {<<r, "leadsPage">> : r \in {"ops", "accountant"}}
    \union {<<"agent", "bookings">>}
    \union {<<r, "dashboard">> : r \in {"agent", "tourist", "product_manager", "logist"}}

\* Menu, home page and links agree with the routes: apart from those links no
\* click ends on the forbidden screen, and the menu never does.  (The return of
\* LoginPage to the page one was sent away from is no click: it may take a user
\* of another role there.)
LinksOpen ==
    [][ screen' = Forbidden /\ screen # Forbidden =>
            \E s \in Screens : <<role, s>> \in DeadLinks /\ Follow(s) ]_vars

(***************************************************************************)
(* The tables, without the client                                          *)
(***************************************************************************)

\* The pages a role comes to; a tab through the bar of tabs only.
OpenTo(r)    == {s \in Screens : MayOpen(r, s) /\ (IsTab(s) => s \in TabsOf(r))}
ReadBy(r)    == UNION {ScreenTable[r][s].reads : s \in OpenTo(r)}
OfferedTo(r) == UNION {ScreenTable[r][s].offers : s \in OpenTo(r)}

\* Menu, tabs and links lead where the routes let the role in; the page of the
\* route * is for everyone and loads nothing.
WaysFit(r) ==
    /\ "notFound" \in OpenTo(r) /\ ScreenTable[r]["notFound"].reads = {}
    /\ MenuOf(r) \subseteq OpenTo(r)
    /\ \A s \in OpenTo(r) :
          /\ IsTab(s) => TabsOf(r) \subseteq OpenTo(r)
          /\ \A other \in Screens \intersect ScreenTable[r][s].links :
                \/ other \in MenuOf(r) \union (Tabs \ {"info"})
                \/ other \in OpenTo(r)
                \/ <<r, other>> \in DeadLinks

\* What the pages send is what the guards let through, or one of the exceptions.
Fits(call, r) == Permits(call, r) \/ call \in RefusedFor(r)

RequestsFit(r) ==
    /\ \A q \in ReadBy(r) : Fits(QueryOf[q].call, r)
    /\ \A o \in OfferedTo(r) : Malformed(o.change) \/ Fits(ChangeOf[o.change].call, r)

\* What a change affects it refreshes, or leaves behind; and nothing has waited
\* for what it sets.
RefreshesFit(r) ==
    \A o \in OfferedTo(r), q \in ReadBy(r) :
        /\ After(q) \intersect SetBy[o.change] \subseteq o.after
        /\ q \in AffectedBy[o.change] =>
              \/ Malformed(o.change)
              \/ q \in RefreshedBy[o.change]
              \/ LeftBehind(o.change, q)

\* For every role, all that the tables of ApiRoutes, QueryHooks and Pages have to
\* agree on for the client to keep to what it must: TLC goes through all of their
\* rows here, whatever the loads.
TablesFit ==
    /\ Elsewhere \notin Screens /\ Forbidden \notin Screens
    /\ \A q \in Queries : QueryOf[q].keeps \in BOOLEAN /\ QueryOf[q].call \in DOMAIN Api
    /\ \A m \in Changes : ChangeOf[m].call \in DOMAIN Api
    /\ \A r \in Roles :
          /\ \A s \in Screens : ScreenTable[r][s].reads \subseteq Queries
          /\ WaysFit(r) /\ RequestsFit(r) /\ RefreshesFit(r)
=============================================================================
