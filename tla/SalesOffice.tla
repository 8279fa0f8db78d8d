----------------------------- MODULE SalesOffice -----------------------------
(***************************************************************************)
(* From a first call to a booking that is confirmed or cancelled: Leads    *)
(* and BookingMail on one database.  load says which requests are sent,    *)
(* about whom and what, and what may happen at once:                       *)
(*   "person"   two leads are created                                      *)
(*   "lead"     two requests work on one lead                              *)
(*   "booking"  two requests work on one booking, or a request comes while *)
(*              the triggers of the one before it run                      *)
(*   "crash"    triggers end before their last command                     *)
(***************************************************************************)
EXTENDS Leads, BookingMail, Sums

CONSTANTS Loads

Kinds    == {"lead", "update", "convert", "direct", "status", "cancel"}
Overlaps == {"person", "lead", "booking", "crash"}

ASSUME LoadsAssumption ==
    Loads \subseteq [kinds: SUBSET Kinds, people: SUBSET People, leads: SUBSET LeadIds,
                     tours: SUBSET Tours, bookings: SUBSET BookingIds,
                     overlap: SUBSET Overlaps]

VARIABLES load

vars == <<load, tourVars, bookingVars, leadVars, mailVars>>

Sends(kind)      == kind \in load.kinds
MayOverlap(what) == what \in load.overlap

\* Two tours are on sale from the start, each with its first capacity.
Init ==
    /\ load \in Loads
    /\ \E seats \in Capacities :
          tours = [t \in Tours |-> [status |-> "open", archived |-> FALSE,
                                    totalSeats |-> seats, availableSeats |-> seats]]
    /\ plans = [p \in Planners |-> NoPlan]
    /\ BookingsInit /\ LeadsInit /\ MailInit

CreatingLead == \E d \in Desks : sales[d].op \in {"byEmail", "new", "found"}

\* A direct booking does not touch the lead it names.
LeadInFlight(l) ==
    \E d \in Desks :
        /\ sales[d].op = "update" \/ sales[d].converts
        /\ sales[d].lead = l

BookingBusy(b) ==
    (\E d \in Desks : desk[d].op # "idle" /\ desk[d].booking = b) \/ TriggersOf(b) # {}

LeadFree(l)    == MayOverlap("lead") \/ ~LeadInFlight(l)
BookingFree(b) == MayOverlap("booking") \/ ~BookingBusy(b)

LeadStep(d) ==
    \/ /\ Sends("lead") /\ (MayOverlap("person") \/ ~CreatingLead)
       /\ \/ \E p \in load.people, padded \in BOOLEAN : BeginCreateLead(d, p, padded)
          \/ \E i \in DOMAIN profiles : BeginLeadOfKnown(d, i)
    \/ FindByEmail(d)
    \/ CreateProfile(d)
    \/ \E l \in load.leads, agent \in Agents \union {NoAgent} : CommitCreateLead(d, l, agent)
    \/ \E l \in load.leads, to \in LeadTargets :
          Sends("update") /\ LeadFree(l) /\ BeginUpdateLead(d, l, to)
    \/ CommitUpdateLead(d)

SaleStep(d) ==
    \/ \E l \in load.leads, t \in load.tours, offer \in Offers, agent \in Agents \union {NoAgent} :
          Sends("convert") /\ LeadFree(l) /\ BeginConvert(d, l, t, offer, agent)
    \/ \E lead \in load.leads \union {NoLead}, t \in load.tours, offer \in Offers :
          \E agent \in EffectiveAgents(d) :
             Sends("direct") /\ BeginBooking(d, lead, t, offer, agent)
    \/ ClaimForSale(d)
    \/ TakeNumber(d)
    \/ \E b \in load.bookings : CommitSale(d, b)
    \/ ClashSale(d)
    \/ AbandonSale(d)

\* A request of the booking desk, from a desk that sells nothing at the time.
DeskStep(d) ==
    \/ \E b \in load.bookings, to \in StatusTargets :
          Sends("status") /\ SaleIdle(d) /\ BookingFree(b) /\ BeginChangeStatus(d, b, to)
             /\ UNCHANGED mailVars
    \/ \E g \in Triggers, toDeadline, toDeparture \in DaysLeft :
          CommitStatusAndFire(d, g, toDeadline, toDeparture)
    \/ \E b \in load.bookings, cancelType \in CancelTypes, days \in DaysAhead :
          Sends("cancel") /\ SaleIdle(d) /\ BookingFree(b)
             /\ BeginCancel(d, b, cancelType, NoPolicy, days) /\ UNCHANGED mailVars
    \/ ~TourLocked(bookings[desk[d].booking].tour) /\ CommitCancel(d) /\ UNCHANGED mailVars
    \/ AbandonRequest(d) /\ UNCHANGED mailVars

MailStep ==
    \E g \in Triggers : RunTrigger(g) \/ (MayOverlap("crash") /\ LoseTrigger(g))

Next ==
    /\ UNCHANGED <<load, plans>>
    /\ \/ \E d \in Desks : (LeadStep(d) \/ SaleStep(d)) /\ UNCHANGED mailVars
       \/ \E d \in Desks : DeskStep(d) /\ UNCHANGED leadVars
       \/ MailStep /\ UNCHANGED leadVars

Spec == Init /\ [][Next]_vars

SalesTypeOK ==
    /\ load \in Loads
    /\ ToursTypeOK /\ BookingsTypeOK /\ LeadsTypeOK /\ MailTypeOK

(***************************************************************************)
(* What must hold                                                          *)
(***************************************************************************)

\* A lead is converted once: the booking it names was made by converting it, no
\* other booking was, and it stays won, whatever is asked of it afterwards.  (A
\* direct booking may name any lead, also a converted one: nobody asks.)  Two
\* requests on one lead at once can break all three.
LeadHasItsBooking ==
    ~MayOverlap("lead") =>
        /\ \A l \in LeadIds : leads[l].convertedToBookingId # NoBooking =>
              LET b == leads[l].convertedToBookingId
              IN  leads[l].status = "won" /\ papers[b].lead = l /\ papers[b].converted
        /\ \A b \in BookingIds : papers[b].converted =>
              leads[papers[b].lead].convertedToBookingId = b

\* POST /cancel gives the seats back, and is what cancels the commission.
SeatsHeld(b) == BookingExists(b) /\ bookings[b].commission # "cancelled"

\* Seats are never lost to, nor taken twice by, a sale that fails half-way: what
\* a tour has sold is what its bookings hold, also after two sales on different
\* tours have drawn the same number and one of them was rolled back.
SeatsOfSales ==
    ~MayOverlap("booking") =>
        \A t \in Tours :
            tours[t].totalSeats - tours[t].availableSeats =
                SumOf([b \in BookingIds |-> bookings[b].persons],
                      {b \in BookingIds : SeatsHeld(b) /\ bookings[b].tour = t})

\* The number drawn next is one nobody has, as long as the padding holds: a
\* clash is only ever with a sale in flight, and the next attempt succeeds.
NextNumberIsFree ==
    (\A n \in UsedNumbers : n < Power[Pad] - 1) => NextNumbers \intersect UsedNumbers = {}

\* No two profiles have one address, nor one passport in the spelling of the
\* search, unless two leads were being created at once; a creation that died
\* half-way and is repeated finds the profile it left.  A passport that came with
\* blanks is stored with them and never found: it may be there many times.
IdentitiesAreUnique ==
    ~MayOverlap("person") =>
        \A i, j \in DOMAIN profiles : i # j =>
            /\ profiles[i].passport = profiles[j].passport =>
                  profiles[i].passport = NoPerson \/ profiles[i].padded \/ profiles[j].padded
            /\ profiles[i].email = profiles[j].email => profiles[i].email = NoEmail

\* Once a booking has been cancelled through the status route and the triggers
\* have run, no reminder of it is left, however often it was scheduled before.
CancelledHasNoReminders ==
    \A b \in BookingIds :
        /\ ~MayOverlap("booking") /\ ~MayOverlap("crash") /\ ~Sends("cancel")
        /\ TriggersOf(b) = {}
        /\ isCancelledStatus(bookings[b].status)
        => \A job \in jobs : job.booking # b

=============================================================================
