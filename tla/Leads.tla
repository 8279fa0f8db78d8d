-------------------------------- MODULE Leads --------------------------------
(***************************************************************************)
(* Leads, the people behind them, and how a lead (or a caller) becomes a   *)
(* booking with a number: leads.service.ts, tourist-identity.ts,           *)
(* booking-number.ts.  A request of a desk is a sequence of awaited        *)
(* queries; only what createBooking and convertToBooking write is in a     *)
(* transaction, whose row lock on the tour holds from claimSeats to the    *)
(* end, and which reads the last number outside itself: committed bookings *)
(* only.                                                                   *)
(***************************************************************************)
EXTENDS Bookings, Sequences

CONSTANTS
    LeadIds,
    People,          \* who may ask; the passport number of a person, as the search
                     \* spells it, is the person
    Identity,        \* [People -> [passport: BOOLEAN, email: Emails \union {NoEmail}]]
    Emails, NoEmail,
    MaxProfiles,     \* bound on the table tourists
    LeadTargets,     \* the statuses a PUT /leads/:id may carry
    NoLead, NoBooking, NoPerson,
    Base, Pad,       \* 10 and BOOKING_NUMBER_PAD (5)
    EarlierNumbers   \* the numbers of this year's older bookings

LeadStatuses == {"new", "in_work", "needs_clarification", "proposal_sent",
                 "waiting_decision", "won", "lost"}

ASSUME LeadsAssumption ==
    /\ Identity \in [People -> [passport: BOOLEAN, email: Emails \union {NoEmail}]]
    /\ LeadTargets \subseteq LeadStatuses
    /\ Base \in Nat \ {0, 1} /\ Pad \in Nat \ {0}
    /\ EarlierNumbers \subseteq Nat \ {0}
    /\ MaxProfiles \in Nat
    /\ Offers # {}
\* What stands for null is no id, no person and no address.
ASSUME NullAssumption ==
    NoLead \notin LeadIds /\ NoBooking \notin BookingIds /\ NoPerson \notin People
    /\ NoEmail \notin Emails

VARIABLES
    profiles,   \* the table tourists, in the order of createdAt
    leads,      \* [LeadIds -> Lead]
    papers,     \* [BookingIds -> Paper]: number, lead and contact of a booking, and
                \* whether a conversion made it
    sales       \* [Desks -> Sale], the request of a desk

leadVars == <<profiles, leads, papers, sales>>

\* padded: the passport was sent, and is stored, with blanks around it.
Profile == [passport: People \union {NoPerson}, padded: BOOLEAN,
            email: Emails \union {NoEmail}, of: People]

NoProfile == 0

\* person is whom the lead is about; the status "none" is an id not yet used.
Lead == [status: LeadStatuses \union {"none"}, person: People \union {NoPerson},
         tourist: 0..MaxProfiles, manager: Desks \union {NoPerson},
         agent: Agents \union {NoAgent},
         convertedToBookingId: BookingIds \union {NoBooking}]

NoLeadRow == [status |-> "none", person |-> NoPerson, tourist |-> NoProfile,
              manager |-> NoPerson, agent |-> NoAgent, convertedToBookingId |-> NoBooking]

LeadExists(l) == leads[l].status # "none"

Paper == [number: Nat, lead: LeadIds \union {NoLead}, converted: BOOLEAN,
          contact: 0..MaxProfiles]
NoPaper == [number |-> 0, lead |-> NoLead, converted |-> FALSE, contact |-> NoProfile]

(***************************************************************************)
(* Booking numbers (booking-number.ts)                                     *)
(***************************************************************************)

Power[k \in Nat] == IF k = 0 THEN 1 ELSE Base * Power[k - 1]

Digits(n) == CHOOSE k \in 1..(n + 1) : n < Power[k] /\ (k > 1 => n >= Power[k - 1])

\* Wrong on purpose: without padStart.
WidthUnpadded(n) == Digits(n)

\* The length of the number once padded.
Width(n) == Greatest(Digits(n), Pad)

\* The order of the padded numbers as strings, in which the last one is looked for.
NumberBefore(m, n) ==
    IF Width(m) <= Width(n)
    THEN LET prefix == n \div Power[Width(n) - Width(m)]
         IN  m < prefix \/ (m = prefix /\ m # n)
    ELSE m \div Power[Width(m) - Width(n)] < n

UsedNumbers == EarlierNumbers \union {papers[b].number : b \in {x \in BookingIds : BookingExists(x)}}

LastNumbers == {n \in UsedNumbers : \A m \in UsedNumbers : m = n \/ NumberBefore(m, n)}

\* generateBookingNumber: one more than the last number, if there is one.
NextNumbers == IF UsedNumbers = {} THEN {1} ELSE {n + 1 : n \in LastNumbers}

(***************************************************************************)
(* Requests                                                                *)
(***************************************************************************)

\* "byEmail", "new" and "found" are the stages of createLead after its first
\* query; "sale", "claimed" and "numbered" those of a creation of a booking.
Sale == [op: {"idle", "byEmail", "new", "found", "update", "sale", "claimed", "numbered"},
         lead: LeadIds \union {NoLead}, converts: BOOLEAN,
         person: People \union {NoPerson}, padded: BOOLEAN,
         tourist: 0..MaxProfiles, agent: Agents \union {NoAgent}, to: LeadStatuses,
         tour: Tours, offer: Offers, number: Nat]

NoSale == [op |-> "idle", lead |-> NoLead, converts |-> FALSE, person |-> NoPerson,
           padded |-> FALSE, tourist |-> NoProfile, agent |-> NoAgent, to |-> "new",
           tour |-> CHOOSE t \in Tours : TRUE,
           offer |-> CHOOSE o \in Offers : TRUE, number |-> 0]

SaleIdle(d) == sales[d].op = "idle" /\ desk[d].op = "idle"

\* The request dies.  At "found" it is also how POST /tourists ends, which makes
\* the same search and the same insert, and no lead.
AbandonSale(d) ==
    /\ sales[d].op # "idle"
    /\ sales' = [sales EXCEPT ![d] = NoSale]
    /\ UNCHANGED <<tours, bookings, payments, desk, profiles, leads, papers>>

(***************************************************************************)
(* POST /leads                                                             *)
(***************************************************************************)

\* Wrong on purpose: the passport is not looked for.
WithPassportIgnored(p) == {}

\* The search trims the passport it is given: what is stored with blanks is not found.
WithPassport(p) ==
    {i \in DOMAIN profiles :
        Identity[p].passport /\ profiles[i].passport = p /\ ~profiles[i].padded}

WithEmail(p) ==
    {i \in DOMAIN profiles : Identity[p].email # NoEmail /\ profiles[i].email = Identity[p].email}

Searching(d, p, padded, op, tourist) ==
    sales' = [sales EXCEPT ![d] = [NoSale EXCEPT !.op = op, !.person = p, !.padded = padded,
                                                 !.tourist = tourist]]

\* findExistingTourist: first the pair of passport and date of birth, in no order ...
BeginCreateLead(d, p, padded) ==
    /\ SaleIdle(d)
    /\ padded => Identity[p].passport
    /\ IF WithPassport(p) = {} THEN Searching(d, p, padded, "byEmail", NoProfile)
       ELSE \E i \in WithPassport(p) : Searching(d, p, padded, "found", i)
    /\ UNCHANGED <<tours, bookings, payments, desk, profiles, leads, papers>>

\* The request names the profile: nothing is looked for.
BeginLeadOfKnown(d, i) ==
    /\ SaleIdle(d)
    /\ Searching(d, profiles[i].of, FALSE, "found", i)
    /\ UNCHANGED <<tours, bookings, payments, desk, profiles, leads, papers>>

\* ... then the oldest profile with the address.
FindByEmail(d) ==
    /\ sales[d].op = "byEmail"
    /\ LET found == WithEmail(sales[d].person)
       IN  sales' = [sales EXCEPT ![d].op = IF found = {} THEN "new" ELSE "found",
                                  ![d].tourist = IF found = {} THEN NoProfile
                                                 ELSE CHOOSE i \in found : \A j \in found : i <= j]
    /\ UNCHANGED <<tours, bookings, payments, desk, profiles, leads, papers>>

\* The insert has the passport as it was sent.
CreateProfile(d) ==
    LET p == sales[d].person
    IN  /\ sales[d].op = "new"
        /\ Len(profiles) < MaxProfiles
        /\ profiles' = Append(profiles,
               [passport |-> IF Identity[p].passport THEN p ELSE NoPerson,
                padded |-> sales[d].padded, email |-> Identity[p].email, of |-> p])
        /\ sales' = [sales EXCEPT ![d].op = "found", ![d].tourist = Len(profiles) + 1]
        /\ UNCHANGED <<tours, bookings, payments, desk, leads, papers>>

CommitCreateLead(d, l, agent) ==
    /\ sales[d].op = "found"
    /\ ~LeadExists(l)
    /\ leads' = [leads EXCEPT ![l] = [NoLeadRow EXCEPT !.status = "new", !.manager = d,
           !.person = sales[d].person, !.tourist = sales[d].tourist, !.agent = agent]]
    /\ sales' = [sales EXCEPT ![d] = NoSale]
    /\ UNCHANGED <<tours, bookings, payments, desk, profiles, papers>>

(***************************************************************************)
(* PUT /leads/:id                                                          *)
(***************************************************************************)

BeginUpdateLead(d, l, to) ==
    /\ SaleIdle(d)
    /\ MayCreate(d)
    /\ LeadExists(l)
    /\ Role[d] = "manager" => leads[l].manager = d
    /\ leads[l].convertedToBookingId = NoBooking
    /\ sales' = [sales EXCEPT ![d] = [NoSale EXCEPT !.op = "update", !.lead = l, !.to = to]]
    /\ UNCHANGED <<tours, bookings, payments, desk, profiles, leads, papers>>

CommitUpdateLead(d) ==
    /\ sales[d].op = "update"
    /\ leads' = [leads EXCEPT ![sales[d].lead].status = sales[d].to]
    /\ sales' = [sales EXCEPT ![d] = NoSale]
    /\ UNCHANGED <<tours, bookings, payments, desk, profiles, papers>>

(***************************************************************************)
(* PATCH /leads/:id/convert and POST /bookings                             *)
(***************************************************************************)

\* Wrong on purpose: the lead is not asked whether it is converted.
ConvertibleAgain(l) == LeadExists(l)

Convertible(l) == LeadExists(l) /\ leads[l].convertedToBookingId = NoBooking

\* agent is the one of the request, else that of the lead.
BeginConvert(d, l, t, offer, agent) ==
    /\ SaleIdle(d)
    /\ MayCreate(d)
    /\ Convertible(l)
    /\ sales' = [sales EXCEPT ![d] = [NoSale EXCEPT !.op = "sale", !.lead = l,
           !.converts = TRUE, !.tourist = leads[l].tourist, !.tour = t, !.offer = offer,
           !.agent = IF agent = NoAgent THEN leads[l].agent ELSE agent]]
    /\ UNCHANGED <<tours, bookings, payments, desk, profiles, leads, papers>>

\* lead is what the request says, and is looked up by nobody.
BeginBooking(d, lead, t, offer, agent) ==
    /\ SaleIdle(d)
    /\ MayCreate(d)
    /\ agent \in EffectiveAgents(d)
    /\ sales' = [sales EXCEPT ![d] = [NoSale EXCEPT !.op = "sale", !.lead = lead, !.tour = t,
                                          !.offer = offer, !.agent = agent]]
    /\ UNCHANGED <<tours, bookings, payments, desk, profiles, leads, papers>>

TourLocked(t) == \E d \in Desks : sales[d].op \in {"claimed", "numbered"} /\ sales[d].tour = t

\* claimSeats: until the end of the transaction nobody else sees its write, and
\* nobody else writes the tour.
ClaimForSale(d) ==
    /\ sales[d].op = "sale"
    /\ ~TourLocked(sales[d].tour)
    /\ CanClaim(sales[d].tour, sales[d].offer.persons)
    /\ sales' = [sales EXCEPT ![d].op = "claimed"]
    /\ UNCHANGED <<tours, bookings, payments, desk, profiles, leads, papers>>

TakeNumber(d) ==
    /\ sales[d].op = "claimed"
    /\ \E number \in NextNumbers :
          sales' = [sales EXCEPT ![d].op = "numbered", ![d].number = number]
    /\ UNCHANGED <<tours, bookings, payments, desk, profiles, leads, papers>>

\* The unique index on the number.
NumberTaken(d) == sales[d].number \in UsedNumbers

\* Commission only where the lead has an agent, whoever the booking's agent is.
ConvertedCommission(l, agent) ==
    IF agent # NoAgent /\ leads[l].agent # NoAgent THEN "pending" ELSE "none"

SoldRow(t, offer, agent, commission) ==
    [NoBookingRow EXCEPT !.status = "new", !.tour = t, !.agent = agent,
        !.persons = offer.persons, !.total = offer.total, !.depositAmount = offer.deposit,
        !.balanceAmount = offer.total - offer.deposit,
        !.commission = commission, !.agentCommission = commission]

\* The end of the transaction: the insert, and the lead that is converted is won.
CommitSale(d, b) ==
    LET sale == sales[d]
    IN  /\ sale.op = "numbered"
        /\ ~NumberTaken(d)
        /\ ~BookingExists(b)
        /\ Claim(sale.tour, sale.offer.persons)
        /\ papers' = [papers EXCEPT ![b] = [number |-> sale.number, lead |-> sale.lead,
                                            converted |-> sale.converts,
                                            contact |-> sale.tourist]]
        /\ IF ~sale.converts
           THEN /\ bookings' = [bookings EXCEPT ![b] = SoldRow(sale.tour, sale.offer, sale.agent,
                                   IF sale.agent = NoAgent THEN "none" ELSE "pending")]
                /\ UNCHANGED leads
           ELSE /\ bookings' = [bookings EXCEPT ![b] = SoldRow(sale.tour, sale.offer, sale.agent,
                                   ConvertedCommission(sale.lead, sale.agent))]
                /\ leads' = [leads EXCEPT ![sale.lead].status = "won",
                                          ![sale.lead].convertedToBookingId = b]
        /\ sales' = [sales EXCEPT ![d] = NoSale]
        /\ UNCHANGED <<payments, desk, profiles>>

\* Wrong on purpose: the seats of a sale that fails are not given back.
RollbackSeats(d) == Claim(sales[d].tour, sales[d].offer.persons)

\* A transaction that fails leaves the tour as it was.
Rollback(d) == UNCHANGED tours

\* Another booking has the number by now.
ClashSale(d) ==
    /\ sales[d].op = "numbered"
    /\ NumberTaken(d)
    /\ Rollback(d)
    /\ sales' = [sales EXCEPT ![d] = NoSale]
    /\ UNCHANGED <<bookings, payments, desk, profiles, leads, papers>>

LeadsInit ==
    /\ profiles = <<>>
    /\ leads = [l \in LeadIds |-> NoLeadRow]
    /\ papers = [b \in BookingIds |-> NoPaper]
    /\ sales = [d \in Desks |-> NoSale]

LeadsTypeOK ==
    /\ profiles \in Seq(Profile) /\ Len(profiles) <= MaxProfiles
    /\ leads \in [LeadIds -> Lead]
    /\ papers \in [BookingIds -> Paper]
    /\ sales \in [Desks -> Sale]
=============================================================================
