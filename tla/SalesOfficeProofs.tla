-------------------------- MODULE SalesOfficeProofs --------------------------
(***************************************************************************)
(* The sales office for any number of desks, leads, persons, tours and     *)
(* e-mail triggers, and any loads: SalesTypeOK, LeadHasItsBooking,         *)
(* IdentitiesAreUnique, SeatsOfSales, CancelledHasNoReminders and          *)
(* NextNumberIsFree.                                                       *)
(***************************************************************************)
EXTENDS SalesOffice, BookingsProofs, SequenceTheorems

(***************************************************************************)
(* Type correctness                                                        *)
(***************************************************************************)

LEMMA NoSaleType == NoSale \in Sale /\ NoLeadRow \in Lead /\ NoPaper \in Paper
BY LeadsAssumption, ToursAssumption
   DEF NoSale, Sale, NoLeadRow, Lead, NoPaper, Paper, NoProfile, LeadStatuses

LEMMA NextNumbersType ==
    ASSUME BookingsTypeOK, LeadsTypeOK
    PROVE  NextNumbers \subseteq Nat
<1>1. ASSUME NEW b \in BookingIds PROVE papers[b].number \in Nat
    BY DEF LeadsTypeOK, Paper
<1>2. UsedNumbers \subseteq Nat
    BY <1>1, LeadsAssumption DEF UsedNumbers
<1> QED
    BY <1>2 DEF NextNumbers, LastNumbers

\* A creation of a lead is about somebody.
CreationsInv ==
    \A d \in Desks : sales[d].op \in {"byEmail", "new", "found"} => sales[d].person \in People

\* The next stage of a request at a desk.
LEMMA SaleWritten ==
    ASSUME LeadsTypeOK, CreationsInv, NEW d \in Desks, NEW sale \in Sale,
           sale.op \in {"byEmail", "new", "found"} => sale.person \in People,
           sales' = [sales EXCEPT ![d] = sale]
    PROVE  sales' \in [Desks -> Sale] /\ CreationsInv'
BY DEF LeadsTypeOK, CreationsInv

\* What a lead's creation does to profiles, leads and requests.
LEMMA CreatingLeadType ==
    ASSUME LeadsTypeOK, CreationsInv, NEW d \in Desks,
           \/ \E p \in People, padded \in BOOLEAN : BeginCreateLead(d, p, padded)
           \/ \E i \in DOMAIN profiles : BeginLeadOfKnown(d, i)
           \/ FindByEmail(d) \/ CreateProfile(d)
           \/ \E l \in LeadIds, agent \in Agents \union {NoAgent} : CommitCreateLead(d, l, agent)
    PROVE  LeadsTypeOK' /\ CreationsInv'
<1>0. Len(profiles) \in Nat /\ DOMAIN profiles = 1..Len(profiles)
    BY LenProperties DEF LeadsTypeOK
<1>1. DOMAIN profiles \subseteq 1..MaxProfiles
    BY <1>0, LeadsAssumption DEF LeadsTypeOK
<1>6. ASSUME NEW p \in People, NEW padded \in BOOLEAN, NEW op \in {"byEmail", "found"},
             NEW i \in 0..MaxProfiles, Searching(d, p, padded, op, i)
      PROVE  sales' \in [Desks -> Sale] /\ CreationsInv'
    <2> DEFINE sale == [NoSale EXCEPT !.op = op, !.person = p, !.padded = padded, !.tourist = i]
    <2>1. sale \in Sale /\ sale.person \in People
        BY NoSaleType DEF Sale
    <2>2. sales' = [sales EXCEPT ![d] = sale]
        BY <1>6 DEF Searching
    <2> HIDE DEF sale
    <2> QED
        BY <2>1, <2>2, SaleWritten
<1>2. ASSUME NEW p \in People, NEW padded \in BOOLEAN, BeginCreateLead(d, p, padded)
      PROVE  LeadsTypeOK' /\ CreationsInv'
    <2>2. NoProfile \in 0..MaxProfiles
        BY LeadsAssumption DEF NoProfile
    <2>3. sales' \in [Desks -> Sale] /\ CreationsInv'
        BY <1>1, <1>2, <1>6, <2>2 DEF BeginCreateLead, WithPassport
    <2> QED
        BY <1>2, <2>3 DEF BeginCreateLead, LeadsTypeOK
<1>7. ASSUME NEW i \in DOMAIN profiles, BeginLeadOfKnown(d, i)
      PROVE  LeadsTypeOK' /\ CreationsInv'
    <2>1. profiles[i] \in Profile
        BY <1>0, ElementOfSeq DEF LeadsTypeOK
    <2>2. profiles[i].of \in People /\ i \in 0..MaxProfiles
        BY <1>1, <2>1 DEF Profile
    <2>3. sales' \in [Desks -> Sale] /\ CreationsInv'
        BY <1>6, <1>7, <2>2 DEF BeginLeadOfKnown
    <2> QED
        BY <1>7, <2>3 DEF BeginLeadOfKnown, LeadsTypeOK
<1>3. CASE FindByEmail(d)
    <2> DEFINE found == WithEmail(sales[d].person)
               oldest == IF found = {} THEN NoProfile
                         ELSE CHOOSE i \in found : \A j \in found : i <= j
    <2>1. found \subseteq 1..MaxProfiles
        BY <1>1 DEF WithEmail
    <2>2. oldest \in 0..MaxProfiles
        <3>1. CASE found = {}
            BY <3>1, LeadsAssumption DEF NoProfile
        <3>2. CASE found # {}
            <4>1. \E i \in found : \A j \in found : i <= j
                BY <2>1, <3>2, LeastNatural
            <4>2. oldest \in found
                BY <3>2, <4>1
            <4> HIDE DEF found, oldest
            <4> QED
                BY <2>1, <4>2
        <3> QED
            BY <3>1, <3>2
    <2> DEFINE stage == IF found = {} THEN "new" ELSE "found"
               sale  == [sales[d] EXCEPT !.op = stage, !.tourist = oldest]
    <2>3. sales[d] \in Sale
        BY DEF LeadsTypeOK
    <2>7. sales' = [sales EXCEPT ![d].op = stage, ![d].tourist = oldest]
        BY <1>3 DEF FindByEmail
    <2>4. stage \in {"new", "found"} /\ sales[d].person \in People
        BY <1>3 DEF FindByEmail, CreationsInv
    <2> HIDE DEF found, oldest, stage
    <2>8. sales' = [sales EXCEPT ![d] = sale]
        BY <2>7
    <2>5. sale \in Sale /\ sale.person \in People
        BY <2>2, <2>3, <2>4 DEF Sale
    <2> HIDE DEF sale
    <2>6. sales' \in [Desks -> Sale] /\ CreationsInv'
        BY <2>5, <2>8, SaleWritten
    <2> QED
        BY <1>3, <2>6 DEF FindByEmail, LeadsTypeOK
<1>4. CASE CreateProfile(d)
    <2> DEFINE p == sales[d].person
               profile == [passport |-> IF Identity[p].passport THEN p ELSE NoPerson,
                           padded |-> sales[d].padded, email |-> Identity[p].email, of |-> p]
    <2>1. p \in People /\ sales[d].padded \in BOOLEAN
        BY <1>4 DEF CreateProfile, CreationsInv, LeadsTypeOK, Sale
    <2>2. profile \in Profile
        BY <2>1, LeadsAssumption DEF Profile
    <2>3. /\ Len(profiles) < MaxProfiles /\ profiles' = Append(profiles, profile)
          /\ sales' = [sales EXCEPT ![d].op = "found", ![d].tourist = Len(profiles) + 1]
          /\ UNCHANGED <<leads, papers>>
        BY <1>4 DEF CreateProfile
    <2> HIDE DEF profile
    <2>4. profiles' \in Seq(Profile) /\ Len(profiles') = Len(profiles) + 1
        BY <2>2, <2>3, AppendProperties DEF LeadsTypeOK
    <2> DEFINE number == Len(profiles) + 1
               sale == [sales[d] EXCEPT !.op = "found", !.tourist = number]
    <2>5. sales' \in [Desks -> Sale] /\ CreationsInv'
        <3>1. number \in 0..MaxProfiles
            BY <1>0, <2>3, LeadsAssumption
        <3>2. sales' = [sales EXCEPT ![d] = sale] /\ sales[d] \in Sale
            BY <2>3 DEF LeadsTypeOK
        <3> HIDE DEF number
        <3>3. sale \in Sale /\ sale.person \in People
            BY <2>1, <3>1, <3>2 DEF Sale
        <3> HIDE DEF sale
        <3> QED
            BY <3>2, <3>3, SaleWritten
    <2> QED
        BY <1>0, <2>3, <2>4, <2>5, LeadsAssumption DEF LeadsTypeOK
<1>5. ASSUME NEW l \in LeadIds, NEW agent \in Agents \union {NoAgent}, CommitCreateLead(d, l, agent)
      PROVE  LeadsTypeOK' /\ CreationsInv'
    <2> DEFINE row == [NoLeadRow EXCEPT !.status = "new", !.manager = d,
                          !.person = sales[d].person, !.tourist = sales[d].tourist,
                          !.agent = agent]
    <2>1. row \in Lead
        BY NoSaleType DEF LeadsTypeOK, Lead, Sale, LeadStatuses
    <2>2. leads' = [leads EXCEPT ![l] = row] /\ sales' = [sales EXCEPT ![d] = NoSale]
          /\ UNCHANGED <<profiles, papers>>
        BY <1>5 DEF CommitCreateLead
    <2> HIDE DEF row
    <2>3. CreationsInv'
        BY <2>2 DEF CreationsInv, LeadsTypeOK, NoSale
    <2> QED
        BY <2>1, <2>2, <2>3, NoSaleType DEF LeadsTypeOK
<1> QED
    BY <1>2, <1>3, <1>4, <1>5, <1>7

\* What a lead's update does to them.
LEMMA UpdatingLeadType ==
    ASSUME LeadsTypeOK, CreationsInv, NEW d \in Desks,
           \/ \E l \in LeadIds, to \in LeadTargets : BeginUpdateLead(d, l, to)
           \/ CommitUpdateLead(d)
    PROVE  LeadsTypeOK' /\ CreationsInv'
<1>1. ASSUME NEW l \in LeadIds, NEW to \in LeadTargets, BeginUpdateLead(d, l, to)
      PROVE  LeadsTypeOK' /\ CreationsInv'
    <2> DEFINE sale == [NoSale EXCEPT !.op = "update", !.lead = l, !.to = to]
    <2>1. sale \in Sale
        BY NoSaleType, LeadsAssumption DEF Sale
    <2>2. sale.op = "update"
        BY DEF NoSale
    <2>3. sales' = [sales EXCEPT ![d] = sale] /\ UNCHANGED <<profiles, leads, papers>>
        BY <1>1 DEF BeginUpdateLead
    <2> HIDE DEF sale
    <2> QED
        BY <2>1, <2>2, <2>3 DEF LeadsTypeOK, CreationsInv
<1>2. CASE CommitUpdateLead(d)
    <2>1. sales[d].to \in LeadStatuses
        BY DEF LeadsTypeOK, Sale
    <2>2. leads' = [leads EXCEPT ![sales[d].lead].status = sales[d].to]
          /\ sales' = [sales EXCEPT ![d] = NoSale] /\ UNCHANGED <<profiles, papers>>
        BY <1>2 DEF CommitUpdateLead
    <2>3. leads' \in [LeadIds -> Lead]
        <3> PICK l, to : l = sales[d].lead /\ to = sales[d].to
            OBVIOUS
        <3>1. leads' = [leads EXCEPT ![l].status = to] /\ to \in LeadStatuses
            BY <2>1, <2>2
        <3>2. leads \in [LeadIds -> Lead]
            BY DEF LeadsTypeOK
        <3>3. ASSUME NEW row \in Lead PROVE [row EXCEPT !.status = to] \in Lead
            BY <3>1 DEF Lead
        <3> QED
            BY <3>1, <3>2, <3>3
    <2>4. CreationsInv'
        BY <2>2 DEF CreationsInv, LeadsTypeOK, NoSale
    <2> QED
        BY <2>2, <2>3, <2>4, NoSaleType DEF LeadsTypeOK
<1> QED
    BY <1>1, <1>2

\* The steps of a sale before its commit.
LEMMA SaleBeginsType ==
    ASSUME BookingsTypeOK, LeadsTypeOK, CreationsInv, NEW d \in Desks,
           \/ \E l \in LeadIds, t \in Tours, offer \in Offers, agent \in Agents \union {NoAgent} :
                 BeginConvert(d, l, t, offer, agent)
           \/ \E lead \in LeadIds \union {NoLead}, t \in Tours, offer \in Offers :
                 \E agent \in EffectiveAgents(d) : BeginBooking(d, lead, t, offer, agent)
    PROVE  LeadsTypeOK' /\ CreationsInv'
<1>1. ASSUME NEW sale \in Sale, sale.op = "sale", sales' = [sales EXCEPT ![d] = sale],
             UNCHANGED <<profiles, leads, papers>>
      PROVE  LeadsTypeOK' /\ CreationsInv'
    BY <1>1 DEF LeadsTypeOK, CreationsInv
<1>2. ASSUME NEW l \in LeadIds, NEW t \in Tours, NEW offer \in Offers,
             NEW agent \in Agents \union {NoAgent}, BeginConvert(d, l, t, offer, agent)
      PROVE  LeadsTypeOK' /\ CreationsInv'
    <2> DEFINE buyer == IF agent = NoAgent THEN leads[l].agent ELSE agent
               sale == [NoSale EXCEPT !.op = "sale", !.lead = l, !.converts = TRUE,
                           !.tourist = leads[l].tourist, !.tour = t, !.offer = offer,
                           !.agent = buyer]
    <2>1. buyer \in Agents \union {NoAgent} /\ leads[l].tourist \in 0..MaxProfiles
        BY DEF LeadsTypeOK, Lead
    <2>2. sale \in Sale /\ sale.op = "sale"
        BY <2>1, NoSaleType DEF Sale
    <2>3. sales' = [sales EXCEPT ![d] = sale] /\ UNCHANGED <<profiles, leads, papers>>
        BY <1>2 DEF BeginConvert
    <2> HIDE DEF sale
    <2> QED
        BY <1>1, <2>2, <2>3
<1>3. ASSUME NEW lead \in LeadIds \union {NoLead}, NEW t \in Tours, NEW offer \in Offers,
             NEW agent \in EffectiveAgents(d), BeginBooking(d, lead, t, offer, agent)
      PROVE  LeadsTypeOK' /\ CreationsInv'
    <2> DEFINE sale == [NoSale EXCEPT !.op = "sale", !.lead = lead, !.tour = t,
                           !.offer = offer, !.agent = agent]
    <2>1. agent \in Agents \union {NoAgent}
        BY AgencyAssumption DEF EffectiveAgents
    <2>2. sale \in Sale /\ sale.op = "sale"
        BY <2>1, NoSaleType DEF Sale
    <2>3. sales' = [sales EXCEPT ![d] = sale] /\ UNCHANGED <<profiles, leads, papers>>
        BY <1>3 DEF BeginBooking
    <2> HIDE DEF sale
    <2> QED
        BY <1>1, <2>2, <2>3
<1> QED
    BY <1>2, <1>3

LEMMA SaleGoesOnType ==
    ASSUME BookingsTypeOK, LeadsTypeOK, CreationsInv, NEW d \in Desks,
           ClaimForSale(d) \/ TakeNumber(d) \/ ClashSale(d) \/ AbandonSale(d)
    PROVE  LeadsTypeOK' /\ CreationsInv'
<1>1. sales[d] \in Sale
    BY DEF LeadsTypeOK
<1>2. UNCHANGED <<profiles, leads, papers>>
    BY DEF ClaimForSale, TakeNumber, ClashSale, AbandonSale
<1>3. CASE ClaimForSale(d)
    <2> DEFINE sale == [sales[d] EXCEPT !.op = "claimed"]
    <2>1. sales' = [sales EXCEPT ![d] = sale]
        BY <1>3 DEF ClaimForSale
    <2>2. sale \in Sale /\ sale.op = "claimed"
        BY <1>1 DEF Sale
    <2> HIDE DEF sale
    <2> QED
        BY <1>2, <2>1, <2>2, SaleWritten DEF LeadsTypeOK
<1>4. CASE TakeNumber(d)
    <2>1. PICK number \in NextNumbers :
              sales' = [sales EXCEPT ![d].op = "numbered", ![d].number = number]
        BY <1>4 DEF TakeNumber
    <2> DEFINE sale == [sales[d] EXCEPT !.op = "numbered", !.number = number]
    <2>2. sales' = [sales EXCEPT ![d] = sale]
        BY <2>1
    <2>3. sale \in Sale /\ sale.op = "numbered"
        BY <1>1, NextNumbersType DEF Sale
    <2> HIDE DEF sale
    <2> QED
        BY <1>2, <2>2, <2>3, SaleWritten DEF LeadsTypeOK
<1>5. CASE ClashSale(d) \/ AbandonSale(d)
    <2>1. sales' = [sales EXCEPT ![d] = NoSale]
        BY <1>5 DEF ClashSale, AbandonSale
    <2>2. NoSale.op = "idle"
        BY DEF NoSale
    <2> QED
        BY <1>2, <2>1, <2>2, NoSaleType, SaleWritten DEF LeadsTypeOK
<1> QED
    BY <1>3, <1>4, <1>5

\* A sale inserts a booking that nothing but the commission tells from one of
\* the booking desk.
LEMMA SoldRowType ==
    ASSUME NEW t \in Tours, NEW agent \in Agents \union {NoAgent}, NEW offer \in Offers,
           NEW commission \in CommissionStatuses
    PROVE  /\ SoldRow(t, offer, agent, commission) \in BookingRow
           /\ SoldRow(t, offer, agent, commission).status = "new"
           /\ SoldRow(t, offer, agent, commission).tour = t
           /\ SoldRow(t, offer, agent, commission).persons = offer.persons
           /\ SoldRow(t, offer, agent, commission).commission = commission
<1>1. /\ offer.persons \in Nat /\ offer.total \in Nat /\ offer.deposit \in Nat
      /\ offer.total - offer.deposit \in Int
    BY RequestAssumption
<1>2. SoldRow(t, offer, agent, commission) \in BookingRow
    BY <1>1, NewRow, ZenonT(30) DEF SoldRow
<1> QED
    BY <1>2 DEF SoldRow, NoBookingRow

\* What the end of a sale writes: a booking row, and the lead it came from.
SaleCommitted(d, b, sale, row) ==
    /\ sale = sales[d] /\ sale.op = "numbered" /\ sale.number \notin UsedNumbers
    /\ ~BookingExists(b)
    /\ row.status = "new" /\ row.tour = sale.tour /\ row.persons = sale.offer.persons
    /\ row.commission \in {"none", "pending"}
    /\ tours' = [tours EXCEPT ![row.tour].availableSeats = @ - row.persons]
    /\ bookings' = [bookings EXCEPT ![b] = row]
    /\ papers' = [papers EXCEPT ![b] = [number |-> sale.number, lead |-> sale.lead,
                                        converted |-> sale.converts,
                                        contact |-> sale.tourist]]
    /\ ~sale.converts => UNCHANGED leads
    /\ sale.converts =>
          leads' = [leads EXCEPT ![sale.lead] = [leads[sale.lead] EXCEPT
                       !.status = "won", !.convertedToBookingId = b]]
    /\ sales' = [sales EXCEPT ![d] = NoSale]
    /\ UNCHANGED <<payments, desk, profiles>>

LEMMA CommitSaleEffect ==
    ASSUME BookingsTypeOK, LeadsTypeOK, NEW d \in Desks, NEW b \in BookingIds, CommitSale(d, b)
    PROVE  \E sale \in Sale, row \in BookingRow : SaleCommitted(d, b, sale, row)
<1>1. PICK sale \in Sale : sale = sales[d]
    BY DEF LeadsTypeOK
<1>2. sale.tour \in Tours /\ sale.offer \in Offers /\ sale.agent \in Agents \union {NoAgent}
    BY DEF Sale
<1>3. PICK commission \in {"none", "pending"} :
          bookings' = [bookings EXCEPT ![b] = SoldRow(sale.tour, sale.offer, sale.agent, commission)]
    BY <1>1 DEF CommitSale, ConvertedCommission
<1> DEFINE row == SoldRow(sale.tour, sale.offer, sale.agent, commission)
<1>4. /\ row \in BookingRow /\ row.status = "new" /\ row.tour = sale.tour
      /\ row.persons = sale.offer.persons /\ row.commission = commission
    <2>1. commission \in CommissionStatuses
        BY DEF CommissionStatuses
    <2> QED
        BY <1>2, <2>1, SoldRowType
<1>5. bookings' = [bookings EXCEPT ![b] = row]
    BY <1>3
<1> HIDE DEF row
<1>6. /\ tours' = [tours EXCEPT ![row.tour].availableSeats = @ - row.persons]
      /\ sale.op = "numbered" /\ sale.number \notin UsedNumbers /\ ~BookingExists(b)
      /\ papers' = [papers EXCEPT ![b] = [number |-> sale.number, lead |-> sale.lead,
                                          converted |-> sale.converts,
                                          contact |-> sale.tourist]]
      /\ sales' = [sales EXCEPT ![d] = NoSale]
      /\ UNCHANGED <<payments, desk, profiles>>
    BY <1>1, <1>4 DEF CommitSale, Claim, NumberTaken
<1>7. ~sale.converts => UNCHANGED leads
    BY <1>1 DEF CommitSale
<1>8. sale.converts =>
          leads' = [leads EXCEPT ![sale.lead] = [leads[sale.lead] EXCEPT
                       !.status = "won", !.convertedToBookingId = b]]
    BY <1>1 DEF CommitSale, LeadsTypeOK, Lead
<1>9. SaleCommitted(d, b, sale, row)
    BY <1>1, <1>4, <1>5, <1>6, <1>7, <1>8 DEF SaleCommitted
<1> QED
    BY <1>4, <1>9

LEMMA WonLeadType ==
    ASSUME NEW lead \in Lead, NEW b \in BookingIds
    PROVE  [lead EXCEPT !.status = "won", !.convertedToBookingId = b] \in Lead
BY DEF Lead, LeadStatuses

LEMMA CommitSaleType ==
    ASSUME ToursTypeOK, BookingsTypeOK, LeadsTypeOK, CreationsInv, UNCHANGED plans,
           NEW d \in Desks, NEW b \in BookingIds, CommitSale(d, b)
    PROVE  ToursTypeOK' /\ BookingsTypeOK' /\ LeadsTypeOK' /\ CreationsInv'
<1>1. PICK sale \in Sale, row \in BookingRow : SaleCommitted(d, b, sale, row)
    BY CommitSaleEffect
<1> USE <1>1 DEF SaleCommitted
<1>2. row.tour \in Tours /\ row.persons \in Nat
    BY DEF BookingRow
<1>3. ToursTypeOK'
    BY <1>2 DEF ToursTypeOK, Tour
<1>4. BookingsTypeOK'
    BY DEF BookingsTypeOK
<1>5. papers' \in [BookingIds -> Paper]
    BY DEF LeadsTypeOK, Paper, Sale
<1>6. leads' \in [LeadIds -> Lead]
    <2>1. CASE ~sale.converts
        BY <2>1 DEF LeadsTypeOK
    <2>2. CASE sale.converts
        <3> DEFINE row2 == [leads[sale.lead] EXCEPT !.status = "won", !.convertedToBookingId = b]
        <3>2. sale.lead \in LeadIds => row2 \in Lead
            BY WonLeadType DEF LeadsTypeOK
        <3>3. leads' = [leads EXCEPT ![sale.lead] = row2]
            BY <2>2
        <3> HIDE DEF row2
        <3> QED
            BY <3>2, <3>3 DEF LeadsTypeOK
    <2> QED
        BY <2>1, <2>2
<1>7. sales' \in [Desks -> Sale] /\ CreationsInv'
    BY NoSaleType, SaleWritten DEF NoSale
<1> QED
    BY <1>3, <1>4, <1>5, <1>6, <1>7 DEF LeadsTypeOK

LEMMA LeadStepType ==
    ASSUME SalesTypeOK, CreationsInv, NEW d \in Desks, LeadStep(d)
    PROVE  /\ LeadsTypeOK' /\ CreationsInv'
           /\ UNCHANGED <<tours, bookings, payments, desk, papers>>
<1>1. ASSUME \/ \E p \in People, padded \in BOOLEAN : BeginCreateLead(d, p, padded)
             \/ \E i \in DOMAIN profiles : BeginLeadOfKnown(d, i)
             \/ FindByEmail(d) \/ CreateProfile(d)
             \/ \E l \in LeadIds, agent \in Agents \union {NoAgent} : CommitCreateLead(d, l, agent)
      PROVE  /\ LeadsTypeOK' /\ CreationsInv'
             /\ UNCHANGED <<tours, bookings, payments, desk, papers>>
    <2>1. UNCHANGED <<tours, bookings, payments, desk, papers>>
        BY <1>1 DEF BeginCreateLead, BeginLeadOfKnown, FindByEmail, CreateProfile,
                    CommitCreateLead
    <2> QED
        BY <1>1, <2>1, CreatingLeadType DEF SalesTypeOK
<1>2. ASSUME \/ \E l \in LeadIds, to \in LeadTargets : BeginUpdateLead(d, l, to)
             \/ CommitUpdateLead(d)
      PROVE  /\ LeadsTypeOK' /\ CreationsInv'
             /\ UNCHANGED <<tours, bookings, payments, desk, papers>>
    <2>1. UNCHANGED <<tours, bookings, payments, desk, papers>>
        BY <1>2 DEF BeginUpdateLead, CommitUpdateLead
    <2> QED
        BY <1>2, <2>1, UpdatingLeadType DEF SalesTypeOK
<1>3. load.people \subseteq People /\ load.leads \subseteq LeadIds
    BY LoadsAssumption DEF SalesTypeOK
<1> QED
    BY <1>1, <1>2, <1>3 DEF LeadStep

LEMMA SaleStepType ==
    ASSUME SalesTypeOK, CreationsInv, NEW d \in Desks, SaleStep(d), UNCHANGED plans
    PROVE  ToursTypeOK' /\ BookingsTypeOK' /\ LeadsTypeOK' /\ CreationsInv'
<1>1. /\ load.leads \subseteq LeadIds /\ load.tours \subseteq Tours
      /\ load.bookings \subseteq BookingIds
    BY LoadsAssumption DEF SalesTypeOK
<1>2. ASSUME UNCHANGED <<tours, bookings, payments, desk>>
      PROVE  ToursTypeOK' /\ BookingsTypeOK'
    BY <1>2 DEF SalesTypeOK, ToursTypeOK, BookingsTypeOK
<1>3. ASSUME \/ \E l \in LeadIds, t \in Tours, offer \in Offers, agent \in Agents \union {NoAgent} :
                   BeginConvert(d, l, t, offer, agent)
             \/ \E lead \in LeadIds \union {NoLead}, t \in Tours, offer \in Offers :
                   \E agent \in EffectiveAgents(d) : BeginBooking(d, lead, t, offer, agent)
      PROVE  ToursTypeOK' /\ BookingsTypeOK' /\ LeadsTypeOK' /\ CreationsInv'
    <2>1. UNCHANGED <<tours, bookings, payments, desk>>
        BY <1>3 DEF BeginConvert, BeginBooking
    <2> QED
        BY <1>2, <1>3, <2>1, SaleBeginsType DEF SalesTypeOK
<1>4. ASSUME ClaimForSale(d) \/ TakeNumber(d) \/ ClashSale(d) \/ AbandonSale(d)
      PROVE  ToursTypeOK' /\ BookingsTypeOK' /\ LeadsTypeOK' /\ CreationsInv'
    <2>1. UNCHANGED <<tours, bookings, payments, desk>>
        BY <1>4 DEF ClaimForSale, TakeNumber, ClashSale, Rollback, AbandonSale
    <2> QED
        BY <1>2, <1>4, <2>1, SaleGoesOnType DEF SalesTypeOK
<1>5. ASSUME NEW b \in BookingIds, CommitSale(d, b)
      PROVE  ToursTypeOK' /\ BookingsTypeOK' /\ LeadsTypeOK' /\ CreationsInv'
    BY <1>5, CommitSaleType DEF SalesTypeOK
<1> QED
    BY <1>1, <1>3, <1>4, <1>5 DEF SaleStep

(***************************************************************************)
(* E-mail jobs                                                             *)
(***************************************************************************)

\* The ids of the jobs of the e-mail triggers.
LEMMA TriggerIds ==
    ASSUME NEW days \in DaysLeft
    PROVE  /\ PaymentReminders(days) \in Seq(JobIds)
           /\ PreDepartureEmail(days) \in Seq(JobIds)
<1>1. days \in Nat
    BY MailAssumption
<1>2. days > 7 \/ days \in 4..7 \/ days \in {2, 3} \/ days \in {0, 1}
    BY <1>1
<1>3. PaymentReminders(days) \in {<<7, 3, 1>>, <<3, 1>>, <<1>>, <<>>}
    BY <1>2 DEF PaymentReminders
<1>4. PreDepartureEmail(days) \in {<<PreDeparture>>, <<>>}
    BY DEF PreDepartureEmail
<1>5. /\ <<7, 3, 1>> \in Seq({7, 3, 1, 0}) /\ <<3, 1>> \in Seq({7, 3, 1, 0})
      /\ <<1>> \in Seq({7, 3, 1, 0}) /\ <<0>> \in Seq({7, 3, 1, 0})
      /\ <<>> \in Seq({7, 3, 1, 0})
    OBVIOUS
<1> QED
    BY <1>3, <1>4, <1>5 DEF JobIds, PreDeparture

LEMMA CommandsType ==
    ASSUME NEW do \in {"add", "remove"}, NEW ids \in Seq(JobIds)
    PROVE  /\ Commands(do, ids) \in Seq(Command)
           /\ Len(Commands(do, ids)) = Len(ids)
           /\ \A i \in 1..Len(ids) : Commands(do, ids)[i] = [do |-> do, id |-> ids[i]]
<1>1. ids \in [1..Len(ids) -> JobIds] /\ Len(ids) \in Nat /\ DOMAIN ids = 1..Len(ids)
    BY LenProperties
<1>2. Commands(do, ids) \in [1..Len(ids) -> Command]
    BY <1>1 DEF Commands, Command
<1>3. Commands(do, ids) \in Seq(Command) /\ Len(Commands(do, ids)) = Len(ids)
    BY <1>1, <1>2
<1> QED
    BY <1>1, <1>3 DEF Commands

LEMMA CancelledJobsType ==
    /\ CancelledJobs \in Seq(JobIds)
    /\ \A id \in JobIds : \E i \in 1..Len(CancelledJobs) : CancelledJobs[i] = id
<1> DEFINE r == <<7, 3, 1>>
           p == <<0>>
<1>1. r \in Seq(JobIds) /\ Len(r) = 3 /\ r[1] = 7 /\ r[2] = 3 /\ r[3] = 1
    BY DEF JobIds
<1>2. p \in Seq(JobIds) /\ Len(p) = 1 /\ p[1] = 0
    BY DEF JobIds, PreDeparture
<1>3. CancelledJobs = r \o p
    BY DEF CancelledJobs, ReminderDays, PreDeparture
<1> HIDE DEF r, p
<1>4. /\ r \o p \in Seq(JobIds) /\ Len(r \o p) = 4
      /\ (r \o p)[1] = 7 /\ (r \o p)[2] = 3 /\ (r \o p)[3] = 1 /\ (r \o p)[4] = 0
    <2>1. /\ r \o p \in Seq(JobIds) /\ Len(r \o p) = 3 + 1
          /\ \A i \in 1..(3 + 1) : (r \o p)[i] = IF i <= 3 THEN r[i] ELSE p[i - 3]
        <3>1. /\ r \o p \in Seq(JobIds) /\ Len(r \o p) = Len(r) + Len(p)
              /\ \A i \in 1..(Len(r) + Len(p)) :
                    (r \o p)[i] = IF i <= Len(r) THEN r[i] ELSE p[i - Len(r)]
            BY <1>1, <1>2, ConcatProperties
        <3> QED
            BY <1>1, <1>2, <3>1
    <2>2. (r \o p)[1] = r[1] /\ (r \o p)[2] = r[2] /\ (r \o p)[3] = r[3]
        BY <2>1
    <2>3. (r \o p)[4] = p[1]
        BY <2>1
    <2> QED
        BY <1>1, <1>2, <2>1, <2>2, <2>3
<1> QED
    BY <1>3, <1>4 DEF JobIds, PreDeparture

LEMMA TriggerCommandsType ==
    ASSUME NEW status, NEW toDeadline \in DaysLeft, NEW toDeparture \in DaysLeft
    PROVE  TriggerCommands(status, toDeadline, toDeparture) \in Seq(Command)
<1> DEFINE reminders == PaymentReminders(toDeadline)
           departure == PreDepartureEmail(toDeparture)
<1>1. reminders \in Seq(JobIds) /\ departure \in Seq(JobIds)
    BY TriggerIds
<1>2. reminders \o departure \in Seq(JobIds)
    BY <1>1, ConcatProperties
<1>3. /\ Commands("add", reminders \o departure) \in Seq(Command)
      /\ Commands("add", reminders) \in Seq(Command)
      /\ Commands("add", departure) \in Seq(Command)
      /\ Commands("remove", CancelledJobs) \in Seq(Command)
    BY <1>1, <1>2, CancelledJobsType, CommandsType
<1>4. <<>> \in Seq(Command)
    BY EmptySeq
<1> HIDE DEF reminders, departure
<1>5. TriggerCommands(status, toDeadline, toDeparture)
          \in {Commands("add", reminders \o departure), Commands("add", reminders),
               Commands("add", departure), Commands("remove", CancelledJobs), <<>>}
    BY DEF TriggerCommands, reminders, departure
<1> QED
    BY <1>3, <1>4, <1>5
LEMMA NoTriggerType == NoTrigger \in Trigger
BY BookingIdsAssumption, EmptySeq DEF NoTrigger, Trigger

\* A trigger is started with commands for the booking whose status was written.
LEMMA CommitStatusAndFireEffect ==
    ASSUME BookingsTypeOK, MailTypeOK, NEW d \in Desks, NEW g \in Triggers,
           NEW toDeadline \in DaysLeft, NEW toDeparture \in DaysLeft,
           CommitStatusAndFire(d, g, toDeadline, toDeparture)
    PROVE  \E b \in BookingIds, status \in Statuses, todo \in Seq(Command) :
              /\ b = desk[d].booking /\ status = desk[d].to /\ desk[d].op = "status"
              /\ todo = TriggerCommands(status, toDeadline, toDeparture)
              /\ triggers[g].todo = <<>>
              /\ triggers' = [triggers EXCEPT ![g] = [booking |-> b, todo |-> todo]]
              /\ bookings' = [bookings EXCEPT ![b].status = status]
              /\ desk' = [desk EXCEPT ![d] = NoRequest]
              /\ UNCHANGED <<tours, payments, jobs>>
<1>1. PICK b \in BookingIds, status \in Statuses : b = desk[d].booking /\ status = desk[d].to
    BY DEF BookingsTypeOK, DeskRequest
<1>2. PICK todo \in Seq(Command) : todo = TriggerCommands(status, toDeadline, toDeparture)
    BY TriggerCommandsType
<1> QED
    BY <1>1, <1>2 DEF CommitStatusAndFire, CommitChangeStatus

\* A trigger that runs adds or removes one job, and has one command less.
LEMMA RunTriggerEffect ==
    ASSUME MailTypeOK, NEW g \in Triggers, RunTrigger(g)
    PROVE  \E b \in BookingIds, todo \in Seq(Command), do \in {"add", "remove"}, id \in JobIds :
              /\ b = triggers[g].booking /\ todo = triggers[g].todo /\ todo # <<>>
              /\ Head(todo) = [do |-> do, id |-> id]
              /\ jobs' = IF do = "add" THEN jobs \union {[booking |-> b, id |-> id]}
                                       ELSE jobs \ {[booking |-> b, id |-> id]}
              /\ triggers' = [triggers EXCEPT ![g] = [booking |-> b, todo |-> Tail(todo)]]
              /\ UNCHANGED <<tours, bookings, payments, desk>>
<1>1. PICK b \in BookingIds, todo \in Seq(Command) :
          /\ b = triggers[g].booking /\ todo = triggers[g].todo
          /\ triggers[g] = [booking |-> b, todo |-> todo]
    BY DEF MailTypeOK, Trigger
<1>2. todo # <<>>
    BY <1>1 DEF RunTrigger
<1>3. Head(todo) \in Command
    BY <1>2, HeadTailProperties
<1>4. PICK do \in {"add", "remove"}, id \in JobIds : Head(todo) = [do |-> do, id |-> id]
    BY <1>3 DEF Command
<1>5. jobs' = IF Head(triggers[g].todo).do = "add"
              THEN jobs \union {[booking |-> triggers[g].booking, id |-> Head(triggers[g].todo).id]}
              ELSE jobs \ {[booking |-> triggers[g].booking, id |-> Head(triggers[g].todo).id]}
    BY DEF RunTrigger
<1>6. jobs' = IF do = "add" THEN jobs \union {[booking |-> b, id |-> id]}
                            ELSE jobs \ {[booking |-> b, id |-> id]}
    <2>1. Head(triggers[g].todo).do = do /\ Head(triggers[g].todo).id = id
        BY <1>1, <1>4
    <2>2. triggers[g].booking = b
        BY <1>1
    <2> QED
        BY <1>5, <2>1, <2>2
<1>7. triggers' = [triggers EXCEPT ![g].todo = Tail(triggers[g].todo)]
    BY DEF RunTrigger
<1>8. triggers' = [triggers EXCEPT ![g] = [booking |-> b, todo |-> Tail(todo)]]
    <2>1. triggers[g] = [booking |-> b, todo |-> todo] /\ triggers[g].todo = todo
        BY <1>1
    <2> DEFINE left == Tail(todo)
    <2>2. triggers' = [triggers EXCEPT ![g].todo = left]
        BY <1>7, <2>1
    <2> HIDE DEF left
    <2>3. triggers' = [triggers EXCEPT ![g] = [triggers[g] EXCEPT !.todo = left]]
        BY <2>2 DEF MailTypeOK
    <2>4. [triggers[g] EXCEPT !.todo = left] = [booking |-> b, todo |-> left]
        BY <2>1
    <2> QED
        BY <2>3, <2>4 DEF left
<1>9. UNCHANGED <<tours, bookings, payments, desk>>
    BY DEF RunTrigger
<1> QED
    BY <1>1, <1>2, <1>4, <1>6, <1>8, <1>9

LEMMA MailStepType ==
    ASSUME MailTypeOK, MailStep
    PROVE  MailTypeOK' /\ UNCHANGED <<tours, bookings, payments, desk>>
<1>1. ASSUME NEW g \in Triggers, RunTrigger(g)
      PROVE  MailTypeOK' /\ UNCHANGED <<tours, bookings, payments, desk>>
    <2>1. PICK b \in BookingIds, todo \in Seq(Command), do \in {"add", "remove"}, id \in JobIds :
              /\ todo # <<>>
              /\ jobs' = IF do = "add" THEN jobs \union {[booking |-> b, id |-> id]}
                                       ELSE jobs \ {[booking |-> b, id |-> id]}
              /\ triggers' = [triggers EXCEPT ![g] = [booking |-> b, todo |-> Tail(todo)]]
              /\ UNCHANGED <<tours, bookings, payments, desk>>
        BY <1>1, RunTriggerEffect
    <2>2. Tail(todo) \in Seq(Command)
        BY <2>1, HeadTailProperties
    <2>3. jobs' \subseteq Job
        BY <2>1 DEF MailTypeOK, Job
    <2> QED
        BY <2>1, <2>2, <2>3 DEF MailTypeOK, Trigger
<1>2. ASSUME NEW g \in Triggers, LoseTrigger(g)
      PROVE  MailTypeOK' /\ UNCHANGED <<tours, bookings, payments, desk>>
    BY <1>2, EmptySeq DEF LoseTrigger, MailTypeOK, Trigger
<1> QED
    BY <1>1, <1>2 DEF MailStep

LEMMA DeskStepType ==
    ASSUME SalesTypeOK, NEW d \in Desks, DeskStep(d), UNCHANGED plans
    PROVE  ToursTypeOK' /\ BookingsTypeOK' /\ MailTypeOK'
<1> USE DEF SalesTypeOK
<1>1. load.bookings \subseteq BookingIds
    BY LoadsAssumption
<1>2. ASSUME UNCHANGED tours PROVE ToursTypeOK'
    BY <1>2 DEF ToursTypeOK
<1>3. ASSUME UNCHANGED mailVars PROVE MailTypeOK'
    BY <1>3 DEF mailVars, MailTypeOK
<1>4. ASSUME NEW b \in BookingIds,
             \/ \E to \in StatusTargets : BeginChangeStatus(d, b, to)
             \/ \E cancelType \in CancelTypes, days \in DaysAhead :
                   BeginCancel(d, b, cancelType, NoPolicy, days)
      PROVE  ToursTypeOK' /\ BookingsTypeOK'
    <2>1. UNCHANGED tours
        BY <1>4 DEF BeginChangeStatus, BeginCancel
    <2>2. BookingsTypeOK'
        BY <1>4, BeginRequestType
    <2> QED
        BY <1>2, <2>1, <2>2
<1>5. ASSUME NEW g \in Triggers, NEW toDeadline \in DaysLeft, NEW toDeparture \in DaysLeft,
             CommitStatusAndFire(d, g, toDeadline, toDeparture)
      PROVE  ToursTypeOK' /\ BookingsTypeOK' /\ MailTypeOK'
    <2>1. BookingsTypeOK' /\ UNCHANGED tours
        BY <1>5, CommitChangeStatusType DEF CommitStatusAndFire, CommitChangeStatus
    <2>2. PICK b \in BookingIds, todo \in Seq(Command) :
              triggers' = [triggers EXCEPT ![g] = [booking |-> b, todo |-> todo]] /\ UNCHANGED jobs
        BY <1>5, CommitStatusAndFireEffect
    <2>3. MailTypeOK'
        BY <2>2 DEF MailTypeOK, Trigger
    <2> QED
        BY <1>2, <2>1, <2>3
<1>6. ASSUME CommitCancel(d) PROVE ToursTypeOK' /\ BookingsTypeOK'
    BY <1>6, CommitCancelType
<1>7. ASSUME AbandonRequest(d) PROVE ToursTypeOK' /\ BookingsTypeOK'
    BY <1>2, <1>7, AbandonRequestType DEF AbandonRequest
<1> QED
    BY <1>1, <1>3, <1>4, <1>5, <1>6, <1>7 DEF DeskStep

LEMMA SalesInitType == Init => SalesTypeOK /\ CreationsInv
<1> SUFFICES ASSUME Init PROVE SalesTypeOK /\ CreationsInv
    OBVIOUS
<1>1. ToursTypeOK
    <2>1. PICK seats \in Capacities :
              tours = [t \in Tours |-> [status |-> "open", archived |-> FALSE,
                                        totalSeats |-> seats, availableSeats |-> seats]]
        BY DEF Init
    <2>2. seats \in Nat
        BY TourRequestAssumption
    <2> QED
        BY <2>1, <2>2, NoPlanType DEF Init, ToursTypeOK, Tour, TourStatuses
<1>2. BookingsTypeOK
    BY NoRequestType DEF Init, BookingsInit, BookingsTypeOK
<1>3. LeadsTypeOK
    BY NoSaleType, EmptySeq, LeadsAssumption DEF Init, LeadsInit, LeadsTypeOK
<1>4. MailTypeOK
    BY NoTriggerType DEF Init, MailInit, MailTypeOK
<1>5. CreationsInv
    BY DEF Init, LeadsInit, CreationsInv, NoSale
<1> QED
    BY <1>1, <1>2, <1>3, <1>4, <1>5 DEF SalesTypeOK, Init

LEMMA SalesStepType == SalesTypeOK /\ CreationsInv /\ [Next]_vars => SalesTypeOK' /\ CreationsInv'
<1> SUFFICES ASSUME SalesTypeOK, CreationsInv, [Next]_vars PROVE SalesTypeOK' /\ CreationsInv'
    OBVIOUS
<1>1. ASSUME UNCHANGED <<tours, plans>> PROVE ToursTypeOK'
    BY <1>1 DEF SalesTypeOK, ToursTypeOK
<1>2. ASSUME UNCHANGED bookingVars PROVE BookingsTypeOK'
    BY <1>2 DEF bookingVars, SalesTypeOK, BookingsTypeOK
<1>3. ASSUME UNCHANGED leadVars PROVE LeadsTypeOK' /\ CreationsInv'
    BY <1>3 DEF leadVars, SalesTypeOK, LeadsTypeOK, CreationsInv
<1>4. ASSUME UNCHANGED mailVars PROVE MailTypeOK'
    BY <1>4 DEF mailVars, SalesTypeOK, MailTypeOK
<1>5. CASE UNCHANGED vars
    BY <1>1, <1>2, <1>3, <1>4, <1>5 DEF vars, tourVars, SalesTypeOK
<1>6. CASE Next
    <2>1. UNCHANGED <<load, plans>> /\ load' \in Loads
        BY <1>6 DEF Next, SalesTypeOK
    <2>2. ASSUME NEW d \in Desks, LeadStep(d), UNCHANGED mailVars
          PROVE  SalesTypeOK' /\ CreationsInv'
        BY <1>1, <1>2, <1>4, <2>1, <2>2, LeadStepType DEF SalesTypeOK, bookingVars
    <2>3. ASSUME NEW d \in Desks, SaleStep(d), UNCHANGED mailVars
          PROVE  SalesTypeOK' /\ CreationsInv'
        BY <1>4, <2>1, <2>3, SaleStepType DEF SalesTypeOK
    <2>4. ASSUME NEW d \in Desks, DeskStep(d), UNCHANGED leadVars
          PROVE  SalesTypeOK' /\ CreationsInv'
        BY <1>3, <2>1, <2>4, DeskStepType DEF SalesTypeOK
    <2>5. ASSUME MailStep, UNCHANGED leadVars
          PROVE  SalesTypeOK' /\ CreationsInv'
        BY <1>1, <1>2, <1>3, <2>1, <2>5, MailStepType DEF SalesTypeOK, bookingVars
    <2> QED
        BY <1>6, <2>2, <2>3, <2>4, <2>5 DEF Next
<1> QED
    BY <1>5, <1>6

\* Every reachable state of the sales office is well formed: a lead or a sale
\* refers to profiles that exist, and triggers carry commands of known jobs.
THEOREM SalesTypeCorrect == Spec => []SalesTypeOK
BY SalesInitType, SalesStepType, PTL DEF Spec

(***************************************************************************)
(* A lead has its booking                                                  *)
(***************************************************************************)

WorksOnLead(sale) == sale.op = "update" \/ sale.converts

\* The requests that work on a lead found it there and not converted, each lead
\* has one of them, an unused id is not converted, and an unused booking is
\* nobody's.
RequestsFitLeads ==
    /\ \A d \in Desks : WorksOnLead(sales[d]) =>
          sales[d].lead \in LeadIds /\ Convertible(sales[d].lead)
    /\ \A d, e \in Desks :
          /\ WorksOnLead(sales[d]) /\ WorksOnLead(sales[e])
          /\ sales[d].lead = sales[e].lead
          => d = e
    /\ \A l \in LeadIds : ~LeadExists(l) => leads[l].convertedToBookingId = NoBooking
    /\ \A b \in BookingIds : papers[b].converted => papers[b].lead \in LeadIds /\ BookingExists(b)

LeadsInv == LeadHasItsBooking /\ (~MayOverlap("lead") => RequestsFitLeads)

\* A booking that exists is there for good.
LEMMA BookingsStay ==
    ASSUME SalesTypeOK, [Next]_vars
    PROVE  \A b \in BookingIds : BookingExists(b) => BookingExists(b)'
<1> USE DEF SalesTypeOK
<1>1. ASSUME UNCHANGED bookings PROVE \A b \in BookingIds : BookingExists(b) => BookingExists(b)'
    BY <1>1 DEF BookingExists
<1>2. ASSUME NEW x \in BookingIds, NEW row \in BookingRow, row.status # "none",
             bookings' = [bookings EXCEPT ![x] = row]
      PROVE  \A b \in BookingIds : BookingExists(b) => BookingExists(b)'
    BY <1>2 DEF BookingExists, BookingsTypeOK
<1>3. CASE UNCHANGED vars
    BY <1>1, <1>3 DEF vars, bookingVars
<1>4. ASSUME NEW d \in Desks, LeadStep(d)
      PROVE  \A b \in BookingIds : BookingExists(b) => BookingExists(b)'
    <2>1. UNCHANGED bookings
        BY <1>4 DEF LeadStep, BeginCreateLead, BeginLeadOfKnown, FindByEmail, CreateProfile, CommitCreateLead,
                    BeginUpdateLead, CommitUpdateLead
    <2> QED
        BY <1>1, <2>1
<1>7. CASE MailStep
    BY <1>1, <1>7 DEF MailStep, RunTrigger, LoseTrigger
<1>5. ASSUME NEW d \in Desks, SaleStep(d)
      PROVE  \A b \in BookingIds : BookingExists(b) => BookingExists(b)'
    <2>1. ASSUME NEW x \in load.bookings, CommitSale(d, x)
          PROVE  \A b \in BookingIds : BookingExists(b) => BookingExists(b)'
        <3>1. x \in BookingIds
            BY LoadsAssumption
        <3>2. PICK sale \in Sale, row \in BookingRow : SaleCommitted(d, x, sale, row)
            BY <2>1, <3>1, CommitSaleEffect
        <3> QED
            BY <1>2, <3>1, <3>2 DEF SaleCommitted
    <2>2. ASSUME UNCHANGED bookings PROVE \A b \in BookingIds : BookingExists(b) => BookingExists(b)'
        BY <1>1, <2>2
    <2> QED
        BY <1>5, <2>1, <2>2 DEF SaleStep, BeginConvert, BeginBooking, ClaimForSale, TakeNumber,
                                ClashSale, AbandonSale
<1>6. ASSUME NEW d \in Desks, DeskStep(d)
      PROVE  \A b \in BookingIds : BookingExists(b) => BookingExists(b)'
    <2>1. desk[d].booking \in BookingIds /\ desk[d].to \in Statuses /\ "none" \notin Statuses
        BY DEF BookingsTypeOK, DeskRequest, Statuses
    <2>2. CASE CommitCancel(d)
        BY <2>1, <2>2 DEF CommitCancel, BookingsTypeOK, BookingRow, BookingExists
    <2>3. CASE CommitChangeStatus(d)
        BY <2>1, <2>3 DEF CommitChangeStatus, BookingsTypeOK, BookingRow, BookingExists
    <2> QED
        BY <1>1, <1>6, <2>2, <2>3
        DEF DeskStep, BeginChangeStatus, CommitStatusAndFire, BeginCancel, AbandonRequest
<1> QED
    BY <1>3, <1>4, <1>5, <1>6, <1>7 DEF Next

\* A request that begins, goes on or ends without a write.
LEMMA RequestKeepsLeads ==
    ASSUME LeadsTypeOK, LeadsInv, UNCHANGED <<load, leads, papers>>,
           NEW d \in Desks, NEW sale, sales' = [sales EXCEPT ![d] = sale],
           \/ ~WorksOnLead(sale)
           \/ WorksOnLead(sales[d]) /\ sale.lead = sales[d].lead
           \/ sale.lead \in LeadIds /\ Convertible(sale.lead) /\ LeadFree(sale.lead),
           \A b \in BookingIds : BookingExists(b) => BookingExists(b)'
    PROVE  LeadsInv'
<1>1. LeadHasItsBooking'
    BY DEF LeadsInv, LeadHasItsBooking, MayOverlap
<1>2. SUFFICES ASSUME ~MayOverlap("lead") PROVE RequestsFitLeads'
    BY <1>1 DEF LeadsInv, MayOverlap
<1>3. RequestsFitLeads
    BY <1>2 DEF LeadsInv
<1>4. \A e \in Desks : sales'[e] = IF e = d THEN sale ELSE sales[e]
    BY DEF LeadsTypeOK
<1>5. \A e \in Desks : WorksOnLead(sales[e])' =>
          /\ sales'[e].lead \in LeadIds
          /\ Convertible(sales[e].lead)'
    BY <1>3, <1>4 DEF RequestsFitLeads, Convertible, LeadExists, WorksOnLead
<1>6. ASSUME NEW e \in Desks, e # d, WorksOnLead(sale), WorksOnLead(sales[e]),
             sale.lead = sales[e].lead
      PROVE  FALSE
    <2>1. LeadInFlight(sale.lead)
        BY <1>6 DEF LeadInFlight, WorksOnLead
    <2>2. WorksOnLead(sales[d]) /\ sale.lead = sales[d].lead
        BY <1>2, <1>6, <2>1 DEF LeadFree
    <2> QED
        BY <1>3, <1>6, <2>2 DEF RequestsFitLeads
<1>7. \A e, f \in Desks :
          /\ WorksOnLead(sales[e])' /\ WorksOnLead(sales[f])'
          /\ sales'[e].lead = sales'[f].lead
          => e = f
    <2> SUFFICES ASSUME NEW e \in Desks, NEW f \in Desks, e # f,
                        WorksOnLead(sales'[e]), WorksOnLead(sales'[f]),
                        sales'[e].lead = sales'[f].lead
                 PROVE  FALSE
        OBVIOUS
    <2>1. CASE e = d
        BY <1>4, <1>6, <2>1
    <2>2. CASE f = d
        BY <1>4, <1>6, <2>2
    <2>3. CASE e # d /\ f # d
        BY <1>3, <1>4, <2>3 DEF RequestsFitLeads
    <2> QED
        BY <2>1, <2>2, <2>3
<1>8. \A l \in LeadIds : ~LeadExists(l)' => (leads[l].convertedToBookingId = NoBooking)'
    BY <1>3 DEF RequestsFitLeads, LeadExists
<1>9. \A b \in BookingIds : papers'[b].converted => papers'[b].lead \in LeadIds /\ BookingExists(b)'
    BY <1>3 DEF RequestsFitLeads
<1> QED
    BY <1>5, <1>7, <1>8, <1>9 DEF RequestsFitLeads

LEMMA LeadStepsKeepLeads ==
    ASSUME SalesTypeOK, LeadsInv, NEW d \in Desks, LeadStep(d), UNCHANGED load,
           \A b \in BookingIds : BookingExists(b) => BookingExists(b)'
    PROVE  LeadsInv'
<1>0. LeadsTypeOK /\ load.leads \subseteq LeadIds /\ ~WorksOnLead(NoSale)
    BY LoadsAssumption DEF SalesTypeOK, NoSale, WorksOnLead
<1>1. ASSUME NEW sale, sales' = [sales EXCEPT ![d] = sale], UNCHANGED <<leads, papers>>,
             WorksOnLead(sale) => WorksOnLead(sales[d]) /\ sale.lead = sales[d].lead
      PROVE  LeadsInv'
    BY <1>0, <1>1, RequestKeepsLeads
<1>7. ASSUME NEW p, NEW padded, NEW op \in {"byEmail", "found"}, NEW i,
             Searching(d, p, padded, op, i), UNCHANGED <<leads, papers>>
      PROVE  LeadsInv'
    <2> DEFINE sale == [NoSale EXCEPT !.op = op, !.person = p, !.padded = padded, !.tourist = i]
    <2>1. ~WorksOnLead(sale)
        BY <1>7 DEF NoSale, WorksOnLead
    <2>2. sales' = [sales EXCEPT ![d] = sale]
        BY <1>7 DEF Searching
    <2> HIDE DEF sale
    <2> QED
        BY <1>1, <1>7, <2>1, <2>2
<1>2. ASSUME \/ \E p \in People, padded \in BOOLEAN : BeginCreateLead(d, p, padded)
             \/ \E i \in DOMAIN profiles : BeginLeadOfKnown(d, i)
      PROVE  LeadsInv'
    BY <1>2, <1>7 DEF BeginCreateLead, BeginLeadOfKnown
<1>3. ASSUME FindByEmail(d) \/ CreateProfile(d) PROVE LeadsInv'
    <2>0. PICK op \in {"new", "found"} :
              \E tourist : sales' = [sales EXCEPT ![d].op = op, ![d].tourist = tourist]
        BY <1>3 DEF FindByEmail, CreateProfile
    <2>1. PICK tourist : sales' = [sales EXCEPT ![d].op = op, ![d].tourist = tourist]
        BY <2>0
    <2> DEFINE sale == [sales[d] EXCEPT !.op = op, !.tourist = tourist]
    <2>2. sales' = [sales EXCEPT ![d] = sale]
        BY <2>1
    <2>3. WorksOnLead(sale) => WorksOnLead(sales[d]) /\ sale.lead = sales[d].lead
        BY <1>0 DEF WorksOnLead, LeadsTypeOK, Sale
    <2>4. UNCHANGED <<leads, papers>>
        BY <1>3 DEF FindByEmail, CreateProfile
    <2> HIDE DEF sale
    <2> QED
        BY <1>1, <2>2, <2>3, <2>4
<1>4. ASSUME NEW l \in LeadIds, NEW agent, CommitCreateLead(d, l, agent) PROVE LeadsInv'
    <2> DEFINE row == [NoLeadRow EXCEPT !.status = "new", !.manager = d,
                          !.person = sales[d].person, !.tourist = sales[d].tourist,
                          !.agent = agent]
    <2>1. row.status = "new" /\ row.convertedToBookingId = NoBooking
        BY DEF NoLeadRow
    <2>2. leads' = [leads EXCEPT ![l] = row] /\ sales' = [sales EXCEPT ![d] = NoSale]
          /\ UNCHANGED papers /\ ~LeadExists(l)
        BY <1>4 DEF CommitCreateLead
    <2> HIDE DEF row
    <2>3. CASE MayOverlap("lead")
        BY <2>3 DEF LeadsInv, LeadHasItsBooking, MayOverlap
    <2>4. CASE ~MayOverlap("lead")
        <3>1. RequestsFitLeads /\ LeadHasItsBooking
            BY <2>4 DEF LeadsInv
        <3>2. \A x \in LeadIds : leads'[x] = IF x = l THEN row ELSE leads[x]
            BY <1>0, <2>2 DEF LeadsTypeOK
        <3>3. \A e \in Desks : sales'[e] = IF e = d THEN NoSale ELSE sales[e]
            BY <1>0, <2>2 DEF LeadsTypeOK
        <3>4. \A b \in BookingIds : papers[b].converted => papers[b].lead \in LeadIds
            BY <3>1 DEF RequestsFitLeads
        <3>6. LeadHasItsBooking'
            <4>1. \A x \in LeadIds : leads'[x].convertedToBookingId # NoBooking =>
                     /\ leads'[x].status = "won"
                     /\ papers[leads'[x].convertedToBookingId].lead = x
                     /\ papers[leads'[x].convertedToBookingId].converted
                BY <2>1, <2>4, <3>1, <3>2 DEF LeadHasItsBooking
            <4>2. \A b \in BookingIds : papers[b].converted =>
                     leads'[papers[b].lead].convertedToBookingId = b
                <5> SUFFICES ASSUME NEW b \in BookingIds, papers[b].converted
                             PROVE  leads'[papers[b].lead].convertedToBookingId = b
                    OBVIOUS
                <5>1. leads[papers[b].lead].convertedToBookingId = b /\ b # NoBooking
                    BY <2>4, <3>1, NullAssumption DEF LeadHasItsBooking
                <5>2. papers[b].lead # l
                    BY <2>2, <3>1, <5>1 DEF RequestsFitLeads
                <5> QED
                    BY <3>2, <3>4, <5>1, <5>2
            <4> QED
                BY <2>2, <4>1, <4>2 DEF LeadHasItsBooking
        <3>7. RequestsFitLeads'
            BY <1>0, <2>1, <2>2, <3>1, <3>2, <3>3
            DEF RequestsFitLeads, Convertible, LeadExists
        <3> QED
            BY <3>6, <3>7 DEF LeadsInv
    <2> QED
        BY <2>3, <2>4
<1>5. ASSUME NEW l \in LeadIds, NEW to, LeadFree(l), BeginUpdateLead(d, l, to) PROVE LeadsInv'
    <2> DEFINE sale == [NoSale EXCEPT !.op = "update", !.lead = l, !.to = to]
    <2>1. sale.lead = l
        BY DEF NoSale
    <2>2. sales' = [sales EXCEPT ![d] = sale] /\ UNCHANGED <<leads, papers>> /\ Convertible(l)
        BY <1>5 DEF BeginUpdateLead, Convertible
    <2> HIDE DEF sale
    <2> QED
        BY <1>0, <1>5, <2>1, <2>2, RequestKeepsLeads
<1>6. ASSUME CommitUpdateLead(d) PROVE LeadsInv'
    <2> DEFINE l == sales[d].lead
    <2>1. leads' = [leads EXCEPT ![l].status = sales[d].to] /\ sales' = [sales EXCEPT ![d] = NoSale]
          /\ UNCHANGED papers /\ WorksOnLead(sales[d])
        BY <1>6 DEF CommitUpdateLead, WorksOnLead
    <2>2. sales[d].to # "none"
        BY <1>0 DEF LeadsTypeOK, Sale, LeadStatuses
    <2>3. CASE MayOverlap("lead")
        BY <2>3 DEF LeadsInv, LeadHasItsBooking, MayOverlap
    <2>4. CASE ~MayOverlap("lead")
        <3>1. RequestsFitLeads /\ LeadHasItsBooking
            BY <2>4 DEF LeadsInv
        <3>2. l \in LeadIds /\ Convertible(l)
            BY <2>1, <3>1 DEF RequestsFitLeads
        <3>3. \A x \in LeadIds :
                 /\ leads'[x].convertedToBookingId = leads[x].convertedToBookingId
                 /\ leads'[x].status = IF x = l THEN sales[d].to ELSE leads[x].status
            BY <1>0, <2>1 DEF LeadsTypeOK, Lead
        <3>4. \A e \in Desks : sales'[e] = IF e = d THEN NoSale ELSE sales[e]
            BY <1>0, <2>1 DEF LeadsTypeOK
        <3>5. \A b \in BookingIds : papers[b].converted => papers[b].lead \in LeadIds
            BY <3>1 DEF RequestsFitLeads
        <3>7. \A x \in LeadIds : LeadExists(x)' = LeadExists(x)
            BY <2>2, <3>2, <3>3, NullAssumption DEF LeadExists, Convertible
        <3> HIDE DEF l
        <3>8. LeadHasItsBooking'
            BY <2>1, <2>2, <2>4, <3>1, <3>2, <3>3, <3>5, NullAssumption
            DEF LeadHasItsBooking, Convertible
        <3>9. RequestsFitLeads'
            BY <1>0, <2>1, <3>1, <3>3, <3>4, <3>7 DEF RequestsFitLeads, Convertible
        <3> QED
            BY <3>8, <3>9 DEF LeadsInv
    <2> QED
        BY <2>3, <2>4
<1> QED
    BY <1>0, <1>2, <1>3, <1>4, <1>5, <1>6, LoadsAssumption DEF LeadStep, SalesTypeOK

\* The end of a sale: the booking is new, and the lead, which nobody else works
\* on, has had no booking so far.
LEMMA CommitSaleKeepsLeads ==
    ASSUME SalesTypeOK, LeadsInv, NEW d \in Desks, NEW b \in BookingIds, CommitSale(d, b),
           UNCHANGED load,
           \A x \in BookingIds : BookingExists(x) => BookingExists(x)'
    PROVE  LeadsInv'
<1>0. LeadsTypeOK /\ BookingsTypeOK /\ ~WorksOnLead(NoSale)
    BY DEF SalesTypeOK, NoSale, WorksOnLead
<1>1. PICK sale \in Sale, row \in BookingRow : SaleCommitted(d, b, sale, row)
    BY <1>0, CommitSaleEffect
<1>2. CASE MayOverlap("lead")
    BY <1>2 DEF LeadsInv, LeadHasItsBooking, MayOverlap
<1>3. CASE ~MayOverlap("lead")
    <2>1. RequestsFitLeads /\ LeadHasItsBooking
        BY <1>3 DEF LeadsInv
    <2> DEFINE l == sale.lead
               paper == [number |-> sale.number, lead |-> l, converted |-> sale.converts,
                         contact |-> sale.tourist]
    <2>2. paper.lead = l /\ paper.converted = sale.converts
        OBVIOUS
    <2>3. \A x \in BookingIds : papers'[x] = IF x = b THEN paper ELSE papers[x]
        BY <1>0, <1>1 DEF LeadsTypeOK, SaleCommitted
    <2>4. \A e \in Desks : sales'[e] = IF e = d THEN NoSale ELSE sales[e]
        BY <1>0, <1>1 DEF LeadsTypeOK, SaleCommitted
    <2>6. sale.converts => l \in LeadIds /\ Convertible(l)
        BY <1>1, <2>1 DEF RequestsFitLeads, SaleCommitted, WorksOnLead
    <2>5. \A x \in LeadIds :
             /\ leads'[x].convertedToBookingId =
                   IF sale.converts /\ x = l THEN b ELSE leads[x].convertedToBookingId
             /\ leads'[x].status = IF sale.converts /\ x = l THEN "won" ELSE leads[x].status
        <3>1. CASE ~sale.converts
            BY <1>1, <3>1 DEF SaleCommitted
        <3>2. CASE sale.converts
            <4> DEFINE won == [leads[l] EXCEPT !.status = "won", !.convertedToBookingId = b]
            <4>1. leads' = [leads EXCEPT ![l] = won]
                BY <1>1, <3>2 DEF SaleCommitted
            <4>2. l \in LeadIds /\ leads[l] \in Lead
                BY <1>0, <2>6, <3>2 DEF LeadsTypeOK
            <4>3. won.convertedToBookingId = b /\ won.status = "won"
                BY <4>2 DEF Lead
            <4> HIDE DEF won
            <4> QED
                BY <1>0, <3>2, <4>1, <4>2, <4>3 DEF LeadsTypeOK
        <3> QED
            BY <3>1, <3>2
    <2>7. ~papers[b].converted /\ b # NoBooking /\ BookingExists(b)'
        <3>1. ~papers[b].converted
            BY <1>1, <2>1 DEF RequestsFitLeads, SaleCommitted
        <3>2. bookings'[b].status = "new"
            BY <1>0, <1>1 DEF SaleCommitted, BookingsTypeOK
        <3> QED
            BY <3>1, <3>2, NullAssumption DEF BookingExists
    <2>9. \A x \in LeadIds : leads[x].convertedToBookingId \in BookingIds \union {NoBooking}
        BY <1>0 DEF LeadsTypeOK, Lead
    <2>11. sales[d].lead = l /\ sales[d].converts = sale.converts
        BY <1>1 DEF SaleCommitted
    <2> HIDE DEF l, paper
    <2>12. ASSUME NEW x \in LeadIds, leads'[x].convertedToBookingId # NoBooking
           PROVE  /\ leads'[x].status = "won"
                  /\ papers'[leads'[x].convertedToBookingId].lead = x
                  /\ papers'[leads'[x].convertedToBookingId].converted
        <3>1. CASE sale.converts /\ x = l
            BY <2>2, <2>3, <2>5, <3>1
        <3>2. CASE ~(sale.converts /\ x = l)
            <4>1. /\ leads[x].convertedToBookingId # NoBooking /\ leads[x].status = "won"
                  /\ papers[leads[x].convertedToBookingId].lead = x
                  /\ papers[leads[x].convertedToBookingId].converted
                BY <1>3, <2>1, <2>5, <2>12, <3>2 DEF LeadHasItsBooking
            <4>2. leads[x].convertedToBookingId # b
                BY <2>7, <4>1
            <4> QED
                BY <2>3, <2>5, <2>9, <3>2, <4>1, <4>2
        <3> QED
            BY <3>1, <3>2
    <2>13. ASSUME NEW x \in BookingIds, papers'[x].converted
           PROVE  /\ papers'[x].lead \in LeadIds
                  /\ leads'[papers'[x].lead].convertedToBookingId = x
        <3>1. CASE x = b
            BY <2>2, <2>3, <2>5, <2>6, <2>13, <3>1
        <3>2. CASE x # b
            <4>1. /\ papers'[x].lead = papers[x].lead /\ papers[x].lead \in LeadIds
                  /\ leads[papers[x].lead].convertedToBookingId = x
                BY <1>3, <2>1, <2>3, <2>13, <3>2 DEF LeadHasItsBooking, RequestsFitLeads
            <4>2. ~(sale.converts /\ papers[x].lead = l)
                BY <2>6, <4>1, NullAssumption DEF Convertible
            <4> QED
                BY <2>5, <4>1, <4>2
        <3> QED
            BY <3>1, <3>2
    <2>14. LeadHasItsBooking'
        BY <2>12, <2>13 DEF LeadHasItsBooking
    <2>15. ASSUME NEW e \in Desks, WorksOnLead(sales[e])'
           PROVE  sales'[e].lead \in LeadIds /\ Convertible(sales[e].lead)'
        <3>1. e # d /\ sales'[e] = sales[e] /\ WorksOnLead(sales[e])
            BY <1>0, <2>4, <2>15
        <3>2. sales[e].lead \in LeadIds /\ Convertible(sales[e].lead)
            BY <2>1, <3>1 DEF RequestsFitLeads
        <3>3. ~(sale.converts /\ sales[e].lead = l)
            BY <2>1, <2>11, <3>1 DEF RequestsFitLeads, WorksOnLead
        <3> QED
            BY <2>5, <3>1, <3>2, <3>3 DEF Convertible, LeadExists
    <2>16. \A e, f \in Desks :
              /\ WorksOnLead(sales[e])' /\ WorksOnLead(sales[f])'
              /\ sales'[e].lead = sales'[f].lead
              => e = f
        BY <1>0, <2>1, <2>4 DEF RequestsFitLeads
    <2>17. \A x \in LeadIds : ~LeadExists(x)' => leads'[x].convertedToBookingId = NoBooking
        BY <2>1, <2>5 DEF RequestsFitLeads, LeadExists
    <2>18. \A x \in BookingIds :
              papers'[x].converted => papers'[x].lead \in LeadIds /\ BookingExists(x)'
        BY <2>1, <2>3, <2>7, <2>13 DEF RequestsFitLeads
    <2> QED
        BY <2>14, <2>15, <2>16, <2>17, <2>18 DEF LeadsInv, RequestsFitLeads
<1> QED
    BY <1>2, <1>3

LEMMA SaleStepsKeepLeads ==
    ASSUME SalesTypeOK, LeadsInv, NEW d \in Desks, SaleStep(d), UNCHANGED load,
           \A b \in BookingIds : BookingExists(b) => BookingExists(b)'
    PROVE  LeadsInv'
<1>0. LeadsTypeOK /\ load.leads \subseteq LeadIds /\ load.bookings \subseteq BookingIds
      /\ ~WorksOnLead(NoSale)
    BY LoadsAssumption DEF SalesTypeOK, NoSale, WorksOnLead
<1>1. ASSUME NEW l \in LeadIds, NEW t, NEW offer, NEW agent, LeadFree(l),
             BeginConvert(d, l, t, offer, agent)
      PROVE  LeadsInv'
    <2> DEFINE buyer == IF agent = NoAgent THEN leads[l].agent ELSE agent
               sale == [NoSale EXCEPT !.op = "sale", !.lead = l, !.converts = TRUE,
                           !.tourist = leads[l].tourist, !.tour = t, !.offer = offer,
                           !.agent = buyer]
    <2>1. sale.lead = l
        BY DEF NoSale
    <2>2. sales' = [sales EXCEPT ![d] = sale] /\ UNCHANGED <<leads, papers>> /\ Convertible(l)
        BY <1>1 DEF BeginConvert
    <2> HIDE DEF sale
    <2> QED
        BY <1>0, <1>1, <2>1, <2>2, RequestKeepsLeads
<1>2. ASSUME NEW lead, NEW t, NEW offer, NEW agent, BeginBooking(d, lead, t, offer, agent)
      PROVE  LeadsInv'
    <2> DEFINE sale == [NoSale EXCEPT !.op = "sale", !.lead = lead, !.tour = t,
                           !.offer = offer, !.agent = agent]
    <2>1. ~WorksOnLead(sale)
        BY DEF NoSale, WorksOnLead
    <2>2. sales' = [sales EXCEPT ![d] = sale] /\ UNCHANGED <<leads, papers>>
        BY <1>2 DEF BeginBooking
    <2> HIDE DEF sale
    <2> QED
        BY <1>0, <2>1, <2>2, RequestKeepsLeads
<1>3. ASSUME ClaimForSale(d) \/ TakeNumber(d) PROVE LeadsInv'
    <2>1. PICK op \in {"claimed", "numbered"}, number \in {sales[d].number} \union NextNumbers :
              sales' = [sales EXCEPT ![d] = [@ EXCEPT !.op = op, !.number = number]]
        <3>1. CASE ClaimForSale(d)
            <4>1. sales' = [sales EXCEPT ![d] = [@ EXCEPT !.op = "claimed", !.number = sales[d].number]]
                BY <1>0, <3>1 DEF ClaimForSale, LeadsTypeOK, Sale
            <4> QED
                BY <4>1
        <3>2. CASE TakeNumber(d)
            BY <3>2, ZenonT(30) DEF TakeNumber
        <3> QED
            BY <1>3, <3>1, <3>2
    <2> DEFINE sale == [sales[d] EXCEPT !.op = op, !.number = number]
    <2>2. /\ sales' = [sales EXCEPT ![d] = sale] /\ sale.lead = sales[d].lead
          /\ sale.op = op /\ sale.converts = sales[d].converts
        BY <1>0, <2>1 DEF LeadsTypeOK, Sale
    <2>3. WorksOnLead(sale) => WorksOnLead(sales[d])
        BY <2>1, <2>2 DEF WorksOnLead
    <2>4. UNCHANGED <<leads, papers>>
        BY <1>3 DEF ClaimForSale, TakeNumber
    <2> HIDE DEF sale
    <2> QED
        BY <1>0, <2>2, <2>3, <2>4, RequestKeepsLeads
<1>4. ASSUME ClashSale(d) \/ AbandonSale(d) PROVE LeadsInv'
    <2>1. sales' = [sales EXCEPT ![d] = NoSale] /\ UNCHANGED <<leads, papers>>
        BY <1>4 DEF ClashSale, AbandonSale
    <2> QED
        BY <1>0, <2>1, RequestKeepsLeads
<1>5. ASSUME NEW b \in BookingIds, CommitSale(d, b) PROVE LeadsInv'
    BY <1>5, CommitSaleKeepsLeads
<1> QED
    BY <1>0, <1>1, <1>2, <1>3, <1>4, <1>5 DEF SaleStep

LEMMA LeadsInitInv == Init => LeadsInv
<1> SUFFICES ASSUME Init PROVE LeadsInv
    OBVIOUS
<1>1. \A l \in LeadIds : leads[l].status = "none" /\ leads[l].convertedToBookingId = NoBooking
    BY DEF Init, LeadsInit, NoLeadRow
<1>2. \A b \in BookingIds : ~papers[b].converted
    BY DEF Init, LeadsInit, NoPaper
<1>3. \A d \in Desks : ~WorksOnLead(sales[d])
    BY DEF Init, LeadsInit, NoSale, WorksOnLead
<1> QED
    BY <1>1, <1>2, <1>3 DEF LeadsInv, LeadHasItsBooking, RequestsFitLeads, LeadExists

LEMMA LeadsStepInv == SalesTypeOK /\ LeadsInv /\ [Next]_vars => LeadsInv'
<1> SUFFICES ASSUME SalesTypeOK, LeadsInv, [Next]_vars PROVE LeadsInv'
    OBVIOUS
<1>1. UNCHANGED load
    BY DEF Next, vars
<1>2. \A b \in BookingIds : BookingExists(b) => BookingExists(b)'
    BY BookingsStay
<1>3. ASSUME UNCHANGED leadVars PROVE LeadsInv'
    BY <1>1, <1>2, <1>3
    DEF leadVars, LeadsInv, LeadHasItsBooking, MayOverlap, RequestsFitLeads, Convertible, LeadExists,
        WorksOnLead
<1>4. CASE UNCHANGED vars
    BY <1>3, <1>4 DEF vars
<1>5. ASSUME NEW d \in Desks, LeadStep(d) \/ SaleStep(d) PROVE LeadsInv'
    BY <1>1, <1>2, <1>5, LeadStepsKeepLeads, SaleStepsKeepLeads
<1> QED
    BY <1>3, <1>4, <1>5 DEF Next

\* A lead is converted into one booking, its own, and stays won, for as long as
\* no two requests work on one lead at once, and whatever direct bookings name it.
THEOREM LeadsHaveTheirBookings == Spec => []LeadHasItsBooking
<1>1. Init => SalesTypeOK /\ CreationsInv /\ LeadsInv
    BY SalesInitType, LeadsInitInv
<1>2. SalesTypeOK /\ CreationsInv /\ LeadsInv /\ [Next]_vars
      => SalesTypeOK' /\ CreationsInv' /\ LeadsInv'
    BY SalesStepType, LeadsStepInv
<1>3. LeadsInv => LeadHasItsBooking
    BY DEF LeadsInv
<1> QED
    BY <1>1, <1>2, <1>3, PTL DEF Spec

(***************************************************************************)
(* Profiles have their own address and passport                            *)
(***************************************************************************)

Creating == {"byEmail", "new", "found"}

\* One creation is under way, and what it has looked for so far is still not there.
CreationsSearch ==
    /\ \A d, e \in Desks : sales[d].op \in Creating /\ sales[e].op \in Creating => d = e
    /\ \A d \in Desks :
          /\ sales[d].op \in {"byEmail", "new"} => WithPassport(sales[d].person) = {}
          /\ sales[d].op = "new" => WithEmail(sales[d].person) = {}

ProfilesInv == IdentitiesAreUnique /\ (~MayOverlap("person") => CreationsSearch)

\* A request that creates nothing, or a stage of a creation, when profiles stay.
LEMMA RequestKeepsProfiles ==
    ASSUME LeadsTypeOK, ProfilesInv, UNCHANGED <<load, profiles>>,
           NEW d \in Desks, NEW sale, sales' = [sales EXCEPT ![d] = sale],
           sale.op \in Creating => sales[d].op \in Creating \/ MayOverlap("person") \/ ~CreatingLead,
           sale.op \in {"byEmail", "new"} => WithPassport(sale.person) = {},
           sale.op = "new" => WithEmail(sale.person) = {}
    PROVE  ProfilesInv'
<1>1. IdentitiesAreUnique'
    BY DEF ProfilesInv, IdentitiesAreUnique, MayOverlap
<1>2. SUFFICES ASSUME ~MayOverlap("person") PROVE CreationsSearch'
    BY <1>1 DEF ProfilesInv, MayOverlap
<1>3. CreationsSearch
    BY <1>2 DEF ProfilesInv
<1>4. \A e \in Desks : sales'[e] = IF e = d THEN sale ELSE sales[e]
    BY DEF LeadsTypeOK
<1>5. \A p : WithPassport(p)' = WithPassport(p) /\ WithEmail(p)' = WithEmail(p)
    BY DEF WithPassport, WithEmail
<1>6. ASSUME NEW e \in Desks, e # d, sales[e].op \in Creating, sale.op \in Creating
      PROVE  FALSE
    BY <1>2, <1>3, <1>6 DEF CreationsSearch, CreatingLead, Creating
<1>7. \A e, f \in Desks : sales'[e].op \in Creating /\ sales'[f].op \in Creating => e = f
    BY <1>3, <1>4, <1>6 DEF CreationsSearch
<1>8. ASSUME NEW e \in Desks
      PROVE  /\ sales'[e].op \in {"byEmail", "new"} => WithPassport(sales[e].person)' = {}
             /\ sales'[e].op = "new" => WithEmail(sales[e].person)' = {}
    BY <1>3, <1>4 DEF CreationsSearch, WithPassport, WithEmail
<1> QED
    BY <1>7, <1>8 DEF CreationsSearch

\* A profile is made for a person that has none.
LEMMA CreateProfileKeepsProfiles ==
    ASSUME LeadsTypeOK, CreationsInv, ProfilesInv, UNCHANGED load, NEW d \in Desks,
           CreateProfile(d)
    PROVE  ProfilesInv'
<1>1. CASE MayOverlap("person")
    BY <1>1 DEF ProfilesInv, IdentitiesAreUnique, MayOverlap
<1>2. CASE ~MayOverlap("person")
    <2>1. CreationsSearch /\ IdentitiesAreUnique
        BY <1>2 DEF ProfilesInv
    <2> DEFINE p == sales[d].person
               profile == [passport |-> IF Identity[p].passport THEN p ELSE NoPerson,
                           padded |-> sales[d].padded, email |-> Identity[p].email, of |-> p]
               n == Len(profiles)
    <2>2. p \in People /\ sales[d].op = "new"
        BY DEF CreateProfile, CreationsInv
    <2>3. profiles' = Append(profiles, profile) /\ profile \in Profile
        BY <2>2, LeadsAssumption DEF CreateProfile, Profile, LeadsTypeOK, Sale
    <2>4. n \in Nat /\ DOMAIN profiles = 1..n
        BY LenProperties DEF LeadsTypeOK
    <2>5. /\ Len(profiles') = n + 1 /\ profiles' \in Seq(Profile)
          /\ \A i \in 1..n : profiles'[i] = profiles[i]
          /\ profiles'[n + 1] = profile
        BY <2>3, AppendProperties DEF LeadsTypeOK
    <2>6. DOMAIN profiles' = 1..(n + 1)
        BY <2>5, LenProperties
    <2>7. WithPassport(p) = {} /\ WithEmail(p) = {}
        BY <2>1, <2>2 DEF CreationsSearch
    <2>8. ASSUME NEW i \in 1..n
          PROVE  /\ profiles[i].passport = profile.passport =>
                        profile.passport = NoPerson \/ profiles[i].padded
                 /\ profiles[i].email = profile.email => profile.email = NoEmail
        BY <2>4, <2>7 DEF WithPassport, WithEmail
    <2>9. sales' = [sales EXCEPT ![d].op = "found", ![d].tourist = n + 1]
        BY DEF CreateProfile
    <2>10. \A e \in Desks : sales'[e].op = IF e = d THEN "found" ELSE sales[e].op
        <3> DEFINE number == n + 1
                   sale == [sales[d] EXCEPT !.op = "found", !.tourist = number]
        <3>1. sales' = [sales EXCEPT ![d] = sale] /\ sale.op = "found"
            BY <2>9 DEF LeadsTypeOK, Sale
        <3> HIDE DEF sale
        <3> QED
            BY <3>1 DEF LeadsTypeOK
    <2> HIDE DEF p, profile, n
    <2>11. \A i \in 1..(n + 1) : i \in 1..n \/ i = n + 1
        BY <2>4
    <2>12. ASSUME NEW i \in 1..(n + 1), NEW j \in 1..(n + 1), i # j
           PROVE  /\ profiles'[i].passport = profiles'[j].passport =>
                        \/ profiles'[i].passport = NoPerson
                        \/ profiles'[i].padded \/ profiles'[j].padded
                  /\ profiles'[i].email = profiles'[j].email => profiles'[i].email = NoEmail
        <3>1. CASE i \in 1..n /\ j \in 1..n
            BY <1>2, <2>1, <2>4, <2>5, <2>12, <3>1 DEF IdentitiesAreUnique
        <3>2. CASE i = n + 1 /\ j \in 1..n
            BY <2>5, <2>8, <3>2
        <3>3. CASE i \in 1..n /\ j = n + 1
            BY <2>5, <2>8, <3>3
        <3> QED
            BY <2>11, <2>12, <3>1, <3>2, <3>3
    <2>13. IdentitiesAreUnique'
        BY <2>6, <2>12 DEF IdentitiesAreUnique
    <2>14. \A e \in Desks : sales'[e].op \in Creating => e = d
        BY <2>1, <2>2, <2>10 DEF CreationsSearch, Creating
    <2>15. \A e \in Desks : sales'[e].op \notin {"byEmail", "new"}
        BY <2>10, <2>14 DEF Creating
    <2>16. CreationsSearch'
        BY <2>14, <2>15 DEF CreationsSearch
    <2> QED
        BY <2>13, <2>16 DEF ProfilesInv
<1> QED
    BY <1>1, <1>2

LEMMA LeadStepsKeepProfiles ==
    ASSUME SalesTypeOK, CreationsInv, ProfilesInv, NEW d \in Desks, LeadStep(d), UNCHANGED load
    PROVE  ProfilesInv'
<1>0. LeadsTypeOK /\ load.people \subseteq People /\ NoSale.op = "idle" /\ "idle" \notin Creating
    BY LoadsAssumption DEF SalesTypeOK, NoSale, Creating
<1>1. ASSUME NEW sale, sale.op \notin Creating, sales' = [sales EXCEPT ![d] = sale],
             UNCHANGED profiles
      PROVE  ProfilesInv'
    BY <1>0, <1>1, RequestKeepsProfiles DEF Creating
<1>7. ASSUME MayOverlap("person") \/ ~CreatingLead, UNCHANGED profiles, NEW p, NEW padded,
             NEW op \in {"byEmail", "found"}, NEW i, Searching(d, p, padded, op, i),
             op = "byEmail" => WithPassport(p) = {}
      PROVE  ProfilesInv'
    <2> DEFINE sale == [NoSale EXCEPT !.op = op, !.person = p, !.padded = padded, !.tourist = i]
    <2>1. sale.op = op /\ sale.person = p
        BY DEF NoSale
    <2>2. sales' = [sales EXCEPT ![d] = sale]
        BY <1>7 DEF Searching
    <2> HIDE DEF sale
    <2> QED
        BY <1>0, <1>7, <2>1, <2>2, RequestKeepsProfiles DEF Creating
<1>2. ASSUME MayOverlap("person") \/ ~CreatingLead,
             \/ \E p \in People, padded \in BOOLEAN : BeginCreateLead(d, p, padded)
             \/ \E i \in DOMAIN profiles : BeginLeadOfKnown(d, i)
      PROVE  ProfilesInv'
    BY <1>2, <1>7 DEF BeginCreateLead, BeginLeadOfKnown
<1>3. ASSUME FindByEmail(d) PROVE ProfilesInv'
    <2> DEFINE op == IF WithEmail(sales[d].person) = {} THEN "new" ELSE "found"
    <2>1. PICK tourist : sales' = [sales EXCEPT ![d].op = op, ![d].tourist = tourist]
        BY <1>3 DEF FindByEmail
    <2> DEFINE sale == [sales[d] EXCEPT !.op = op, !.tourist = tourist]
    <2>2. sales' = [sales EXCEPT ![d] = sale]
        BY <2>1
    <2>3. sale.op = op /\ sale.person = sales[d].person
        BY <1>0 DEF LeadsTypeOK, Sale
    <2>4. UNCHANGED profiles /\ sales[d].op = "byEmail"
        BY <1>3 DEF FindByEmail
    <2> HIDE DEF sale
    <2>5. CASE MayOverlap("person")
        BY <1>0, <2>4, <2>5 DEF ProfilesInv, IdentitiesAreUnique, MayOverlap
    <2>6. CASE ~MayOverlap("person")
        <3>1. WithPassport(sales[d].person) = {}
            BY <2>4, <2>6 DEF ProfilesInv, CreationsSearch
        <3> QED
            BY <1>0, <2>2, <2>3, <2>4, <3>1, RequestKeepsProfiles DEF Creating
    <2> QED
        BY <2>5, <2>6
<1>4. ASSUME CreateProfile(d) PROVE ProfilesInv'
    BY <1>0, <1>4, CreateProfileKeepsProfiles
<1>5. ASSUME CommitUpdateLead(d) \/ \E l, agent : CommitCreateLead(d, l, agent) PROVE ProfilesInv'
    <2>1. sales' = [sales EXCEPT ![d] = NoSale] /\ UNCHANGED profiles
        BY <1>5 DEF CommitUpdateLead, CommitCreateLead
    <2> QED
        BY <1>0, <1>1, <2>1
<1>6. ASSUME NEW l, NEW to, BeginUpdateLead(d, l, to) PROVE ProfilesInv'
    <2> DEFINE sale == [NoSale EXCEPT !.op = "update", !.lead = l, !.to = to]
    <2>1. sale.op \notin Creating
        BY DEF NoSale, Creating
    <2>2. sales' = [sales EXCEPT ![d] = sale] /\ UNCHANGED profiles
        BY <1>6 DEF BeginUpdateLead
    <2> HIDE DEF sale
    <2> QED
        BY <1>1, <2>1, <2>2
<1> QED
    BY <1>0, <1>2, <1>3, <1>4, <1>5, <1>6 DEF LeadStep

LEMMA SaleStepsKeepProfiles ==
    ASSUME SalesTypeOK, ProfilesInv, NEW d \in Desks, SaleStep(d), UNCHANGED load
    PROVE  ProfilesInv'
<1>0. LeadsTypeOK /\ NoSale.op \notin Creating
    BY DEF SalesTypeOK, NoSale, Creating
<1>1. UNCHANGED profiles
    BY DEF SaleStep, BeginConvert, BeginBooking, ClaimForSale, TakeNumber, CommitSale, ClashSale,
           AbandonSale
<1>2. ASSUME NEW sale, sale.op \notin Creating, sales' = [sales EXCEPT ![d] = sale]
      PROVE  ProfilesInv'
    BY <1>0, <1>1, <1>2, RequestKeepsProfiles DEF Creating
<1>3. ASSUME NEW l, NEW t, NEW offer, NEW agent, BeginConvert(d, l, t, offer, agent)
      PROVE  ProfilesInv'
    <2> DEFINE buyer == IF agent = NoAgent THEN leads[l].agent ELSE agent
               sale == [NoSale EXCEPT !.op = "sale", !.lead = l, !.converts = TRUE,
                           !.tourist = leads[l].tourist, !.tour = t, !.offer = offer,
                           !.agent = buyer]
    <2>1. sale.op \notin Creating
        BY DEF NoSale, Creating
    <2>2. sales' = [sales EXCEPT ![d] = sale]
        BY <1>3 DEF BeginConvert
    <2> HIDE DEF sale
    <2> QED
        BY <1>2, <2>1, <2>2
<1>4. ASSUME NEW lead, NEW t, NEW offer, NEW agent, BeginBooking(d, lead, t, offer, agent)
      PROVE  ProfilesInv'
    <2> DEFINE sale == [NoSale EXCEPT !.op = "sale", !.lead = lead, !.tour = t,
                           !.offer = offer, !.agent = agent]
    <2>1. sale.op \notin Creating
        BY DEF NoSale, Creating
    <2>2. sales' = [sales EXCEPT ![d] = sale]
        BY <1>4 DEF BeginBooking
    <2> HIDE DEF sale
    <2> QED
        BY <1>2, <2>1, <2>2
<1>5. ASSUME ClaimForSale(d) PROVE ProfilesInv'
    <2> DEFINE sale == [sales[d] EXCEPT !.op = "claimed"]
    <2>1. sale.op \notin Creating
        BY <1>0 DEF LeadsTypeOK, Sale, Creating
    <2>2. sales' = [sales EXCEPT ![d] = sale]
        BY <1>5 DEF ClaimForSale
    <2> HIDE DEF sale
    <2> QED
        BY <1>2, <2>1, <2>2
<1>6. ASSUME TakeNumber(d) PROVE ProfilesInv'
    <2>1. PICK number : sales' = [sales EXCEPT ![d].op = "numbered", ![d].number = number]
        BY <1>6 DEF TakeNumber
    <2> DEFINE sale == [sales[d] EXCEPT !.op = "numbered", !.number = number]
    <2>2. sale.op \notin Creating
        BY <1>0 DEF LeadsTypeOK, Sale, Creating
    <2>3. sales' = [sales EXCEPT ![d] = sale]
        BY <2>1
    <2> HIDE DEF sale
    <2> QED
        BY <1>2, <2>2, <2>3
<1>7. ASSUME ClashSale(d) \/ AbandonSale(d) \/ \E b : CommitSale(d, b) PROVE ProfilesInv'
    BY <1>0, <1>2, <1>7 DEF ClashSale, AbandonSale, CommitSale
<1> QED
    BY <1>3, <1>4, <1>5, <1>6, <1>7 DEF SaleStep

LEMMA ProfilesInitInv == Init => ProfilesInv
<1> SUFFICES ASSUME Init PROVE ProfilesInv
    OBVIOUS
<1>1. profiles = <<>> /\ \A d \in Desks : sales[d].op = "idle"
    BY DEF Init, LeadsInit, NoSale
<1>2. DOMAIN profiles = {}
    BY <1>1
<1> QED
    BY <1>1, <1>2 DEF ProfilesInv, IdentitiesAreUnique, CreationsSearch, Creating

LEMMA ProfilesStepInv ==
    SalesTypeOK /\ CreationsInv /\ ProfilesInv /\ [Next]_vars => ProfilesInv'
<1> SUFFICES ASSUME SalesTypeOK, CreationsInv, ProfilesInv, [Next]_vars PROVE ProfilesInv'
    OBVIOUS
<1>1. UNCHANGED load
    BY DEF Next, vars
<1>2. ASSUME UNCHANGED leadVars PROVE ProfilesInv'
    BY <1>1, <1>2
    DEF leadVars, ProfilesInv, IdentitiesAreUnique, MayOverlap, CreationsSearch, WithPassport,
        WithEmail
<1>3. CASE UNCHANGED vars
    BY <1>2, <1>3 DEF vars
<1>4. ASSUME NEW d \in Desks, LeadStep(d) \/ SaleStep(d) PROVE ProfilesInv'
    BY <1>1, <1>4, LeadStepsKeepProfiles, SaleStepsKeepProfiles
<1> QED
    BY <1>2, <1>3, <1>4 DEF Next

\* However often a creation fails and is repeated, no two profiles get one
\* address, or one passport as the search spells it, unless two leads are created
\* at once.
THEOREM IdentitiesStayUnique == Spec => []IdentitiesAreUnique
<1>1. Init => SalesTypeOK /\ CreationsInv /\ ProfilesInv
    BY SalesInitType, ProfilesInitInv
<1>2. SalesTypeOK /\ CreationsInv /\ ProfilesInv /\ [Next]_vars
      => SalesTypeOK' /\ CreationsInv' /\ ProfilesInv'
    BY SalesStepType, ProfilesStepInv
<1>3. ProfilesInv => IdentitiesAreUnique
    BY DEF ProfilesInv
<1> QED
    BY <1>1, <1>2, <1>3, PTL DEF Spec

(***************************************************************************)
(* What a step does to bookings, requests of the booking desk and e-mails  *)
(***************************************************************************)

Quiet == UNCHANGED <<tours, bookings, desk, mailVars>>

Sold(b, row) ==
    /\ ~BookingExists(b)
    /\ row.status = "new" /\ row.commission \in {"none", "pending"}
    /\ tours' = [tours EXCEPT ![row.tour].availableSeats = @ - row.persons]
    /\ bookings' = [bookings EXCEPT ![b] = row]
    /\ UNCHANGED <<desk, mailVars>>

RequestBegun(d, request) ==
    /\ desk[d].op = "idle" /\ request.op \in {"status", "cancel"}
    /\ request.op = "cancel" =>
          Sends("cancel") /\ request.to \in {"cancelled_client", "cancelled_operator"}
    /\ request.booking \in BookingIds /\ BookingExists(request.booking)
    /\ BookingFree(request.booking)
    /\ IsValidStatusTransition(bookings[request.booking].status, request.to)
    /\ desk' = [desk EXCEPT ![d] = request]
    /\ UNCHANGED <<tours, bookings, mailVars>>

StatusWritten(d, g, b, status, todo) ==
    /\ desk[d].op = "status" /\ b = desk[d].booking /\ status = desk[d].to
    /\ triggers[g].todo = <<>>
    /\ isCancelledStatus(status) => todo = Commands("remove", CancelledJobs)
    /\ triggers' = [triggers EXCEPT ![g] = [booking |-> b, todo |-> todo]]
    /\ bookings' = [bookings EXCEPT ![b].status = status]
    /\ desk' = [desk EXCEPT ![d] = NoRequest]
    /\ UNCHANGED <<tours, jobs>>

BookingCancelled(d, b, row) ==
    /\ desk[d].op = "cancel" /\ b = desk[d].booking
    /\ row.status = desk[d].to /\ row.commission = "cancelled"
    /\ row.tour = bookings[b].tour /\ row.persons = bookings[b].persons
    /\ tours' = [tours EXCEPT ![row.tour].availableSeats = @ + row.persons]
    /\ bookings' = [bookings EXCEPT ![b] = row]
    /\ desk' = [desk EXCEPT ![d] = NoRequest]
    /\ UNCHANGED mailVars

RequestLost(d) == desk' = [desk EXCEPT ![d] = NoRequest] /\ UNCHANGED <<tours, bookings, mailVars>>

LEMMA BookingCancelledEffect ==
    ASSUME BookingsTypeOK, NEW d \in Desks, CommitCancel(d), UNCHANGED mailVars
    PROVE  \E b \in BookingIds, row \in BookingRow : BookingCancelled(d, b, row)
<1>1. PICK b \in BookingIds : b = desk[d].booking /\ desk[d].to \in Statuses
    BY DEF BookingsTypeOK, DeskRequest
<1>2. PICK old \in BookingRow : old = bookings[b]
    BY DEF BookingsTypeOK
<1> DEFINE agentCommission == IF old.agentCommission = "pending" THEN "cancelled"
                              ELSE old.agentCommission
           row == [old EXCEPT !.status = desk[d].to, !.commission = "cancelled",
                              !.agentCommission = agentCommission]
<1>3. agentCommission \in CommissionStatuses
    BY DEF BookingRow, CommissionStatuses
<1> HIDE DEF agentCommission
<1>4. row \in BookingRow
    BY <1>1, <1>3, CancelledRow
<1>5. /\ row.status = desk[d].to /\ row.commission = "cancelled"
      /\ row.tour = old.tour /\ row.persons = old.persons
    BY DEF BookingRow
<1>6. bookings' = [bookings EXCEPT ![b] = row]
    BY <1>1, <1>2 DEF CommitCancel, agentCommission
<1> HIDE DEF row
<1>7. /\ desk[d].op = "cancel" /\ desk' = [desk EXCEPT ![d] = NoRequest]
      /\ tours' = [tours EXCEPT ![row.tour].availableSeats = @ + row.persons]
    BY <1>1, <1>2, <1>5 DEF CommitCancel, Release
<1>8. BookingCancelled(d, b, row)
    BY <1>1, <1>2, <1>5, <1>6, <1>7 DEF BookingCancelled
<1> QED
    BY <1>4, <1>8

LEMMA DeskStepEffect ==
    ASSUME SalesTypeOK, NEW d \in Desks, DeskStep(d)
    PROVE  \/ \E request : RequestBegun(d, request)
           \/ \E g \in Triggers, b \in BookingIds, status \in Statuses, todo \in Seq(Command) :
                 StatusWritten(d, g, b, status, todo)
           \/ \E b \in BookingIds, row \in BookingRow : BookingCancelled(d, b, row)
           \/ RequestLost(d)
<1>0. load.bookings \subseteq BookingIds /\ BookingsTypeOK /\ MailTypeOK
    BY LoadsAssumption DEF SalesTypeOK
<1>1. ASSUME NEW b \in BookingIds, NEW to, BookingFree(b), BeginChangeStatus(d, b, to),
             UNCHANGED mailVars
      PROVE  \E request : RequestBegun(d, request)
    <2> DEFINE request == [NoRequest EXCEPT !.op = "status", !.booking = b, !.to = to]
    <2>1. request.op = "status" /\ request.booking = b /\ request.to = to
        BY DEF NoRequest
    <2>2. desk' = [desk EXCEPT ![d] = request]
        BY <1>1 DEF BeginChangeStatus
    <2> HIDE DEF request
    <2>3. RequestBegun(d, request)
        BY <1>1, <2>1, <2>2 DEF BeginChangeStatus, RequestBegun
    <2> QED
        BY <2>3
<1>2. ASSUME NEW b \in BookingIds, NEW cancelType, NEW policy, NEW days, BookingFree(b),
             Sends("cancel"), BeginCancel(d, b, cancelType, policy, days), UNCHANGED mailVars
      PROVE  \E request : RequestBegun(d, request)
    <2> DEFINE refund == RefundAmount(bookings[b], cancelType, policy, days)
               to == CancelledBy(cancelType)
               request == [NoRequest EXCEPT !.op = "cancel", !.booking = b, !.to = to,
                                            !.refund = refund]
    <2>1. request.op = "cancel" /\ request.booking = b /\ request.to = to
        BY DEF NoRequest
    <2>2. desk' = [desk EXCEPT ![d] = request]
        BY <1>2 DEF BeginCancel
    <2>3. to \in {"cancelled_client", "cancelled_operator"}
        BY DEF CancelledBy
    <2> HIDE DEF request
    <2>4. RequestBegun(d, request)
        BY <1>2, <2>1, <2>2, <2>3 DEF BeginCancel, RequestBegun
    <2> QED
        BY <2>4
<1>3. ASSUME NEW g \in Triggers, NEW x \in DaysLeft, NEW y \in DaysLeft,
             CommitStatusAndFire(d, g, x, y)
      PROVE  \E b \in BookingIds, status \in Statuses, todo \in Seq(Command) :
                StatusWritten(d, g, b, status, todo)
    <2>1. PICK b \in BookingIds, status \in Statuses, todo \in Seq(Command) :
              /\ b = desk[d].booking /\ status = desk[d].to /\ desk[d].op = "status"
              /\ todo = TriggerCommands(status, x, y)
              /\ triggers[g].todo = <<>>
              /\ triggers' = [triggers EXCEPT ![g] = [booking |-> b, todo |-> todo]]
              /\ bookings' = [bookings EXCEPT ![b].status = status]
              /\ desk' = [desk EXCEPT ![d] = NoRequest]
              /\ UNCHANGED <<tours, payments, jobs>>
        BY <1>0, <1>3, CommitStatusAndFireEffect
    <2>2. isCancelledStatus(status) => todo = Commands("remove", CancelledJobs)
        BY <2>1 DEF TriggerCommands, isCancelledStatus
    <2>3. StatusWritten(d, g, b, status, todo)
        BY <2>1, <2>2 DEF StatusWritten
    <2> QED
        BY <2>3
<1>4. ASSUME CommitCancel(d), UNCHANGED mailVars
      PROVE  \E b \in BookingIds, row \in BookingRow : BookingCancelled(d, b, row)
    BY <1>0, <1>4, BookingCancelledEffect
<1>5. ASSUME AbandonRequest(d), UNCHANGED mailVars PROVE RequestLost(d)
    BY <1>5 DEF AbandonRequest, RequestLost
<1> QED
    BY <1>0, <1>1, <1>2, <1>3, <1>4, <1>5 DEF DeskStep

LEMMA OfficeStep ==
    ASSUME SalesTypeOK, [Next]_vars
    PROVE  \/ Quiet
           \/ \E b \in BookingIds, row \in BookingRow : Sold(b, row)
           \/ \E d \in Desks : \E request : RequestBegun(d, request)
           \/ \E d \in Desks, g \in Triggers, b \in BookingIds, status \in Statuses,
                 todo \in Seq(Command) : StatusWritten(d, g, b, status, todo)
           \/ \E d \in Desks, b \in BookingIds, row \in BookingRow : BookingCancelled(d, b, row)
           \/ \E d \in Desks : RequestLost(d)
           \/ MailStep
<1>1. CASE UNCHANGED vars
    BY <1>1 DEF vars, bookingVars, tourVars, Quiet
<1>2. ASSUME NEW d \in Desks, LeadStep(d), UNCHANGED mailVars PROVE Quiet
    BY <1>2 DEF LeadStep, BeginCreateLead, BeginLeadOfKnown, FindByEmail, CreateProfile, CommitCreateLead,
                BeginUpdateLead, CommitUpdateLead, Quiet
<1>3. ASSUME NEW d \in Desks, SaleStep(d), UNCHANGED mailVars
      PROVE  Quiet \/ \E b \in BookingIds, row \in BookingRow : Sold(b, row)
    <2>1. ASSUME NEW b \in load.bookings, CommitSale(d, b)
          PROVE  \E x \in BookingIds, row \in BookingRow : Sold(x, row)
        <3>1. b \in BookingIds /\ BookingsTypeOK /\ LeadsTypeOK
            BY LoadsAssumption DEF SalesTypeOK
        <3>2. PICK sale \in Sale, row \in BookingRow : SaleCommitted(d, b, sale, row)
            BY <2>1, <3>1, CommitSaleEffect
        <3>3. Sold(b, row)
            BY <1>3, <3>2 DEF SaleCommitted, Sold
        <3> QED
            BY <3>1, <3>3
    <2>2. ASSUME UNCHANGED <<tours, bookings, desk>> PROVE Quiet
        BY <1>3, <2>2 DEF Quiet
    <2> QED
        BY <1>3, <2>1, <2>2 DEF SaleStep, BeginConvert, BeginBooking, ClaimForSale, TakeNumber,
                                ClashSale, Rollback, AbandonSale
<1>4. CASE Next
    BY <1>2, <1>3, <1>4, DeskStepEffect DEF Next
<1> QED
    BY <1>1, <1>4

(***************************************************************************)
(* Requests of the booking desk                                            *)
(***************************************************************************)

\* Where no two requests work on one booking: the booking of a request is
\* there, nothing is left to do for it, and what was checked still holds.
RequestsTakeTurns ==
    /\ \A d, e \in Desks :
          desk[d].op # "idle" /\ desk[e].op # "idle" /\ desk[d].booking = desk[e].booking => d = e
    /\ \A d \in Desks : desk[d].op # "idle" =>
          /\ BookingExists(desk[d].booking) /\ TriggersOf(desk[d].booking) = {}
          /\ IsValidStatusTransition(bookings[desk[d].booking].status, desk[d].to)

RequestsInv ==
    /\ \A d \in Desks : desk[d].op = "cancel" =>
          Sends("cancel") /\ desk[d].to \in {"cancelled_client", "cancelled_operator"}
    /\ ~MayOverlap("booking") => RequestsTakeTurns

LEMMA MailStepEffect ==
    ASSUME MailTypeOK, MailStep
    PROVE  /\ UNCHANGED <<tours, bookings, payments, desk>>
           /\ \A b : TriggersOf(b)' \subseteq TriggersOf(b)
<1>1. ASSUME NEW g \in Triggers, NEW todo, triggers[g].todo # <<>>,
             triggers' = [triggers EXCEPT ![g].todo = todo]
      PROVE  \A b : TriggersOf(b)' \subseteq TriggersOf(b)
    BY <1>1 DEF MailTypeOK, Trigger, TriggersOf
<1>2. ASSUME NEW g \in Triggers, RunTrigger(g)
      PROVE  \A b : TriggersOf(b)' \subseteq TriggersOf(b)
    <2>1. triggers[g].todo # <<>> /\ triggers' = [triggers EXCEPT ![g].todo = Tail(triggers[g].todo)]
        BY <1>2 DEF RunTrigger
    <2> QED
        BY <1>1, <2>1
<1>3. ASSUME NEW g \in Triggers, LoseTrigger(g)
      PROVE  \A b : TriggersOf(b)' \subseteq TriggersOf(b)
    BY <1>1, <1>3 DEF LoseTrigger
<1>4. UNCHANGED <<tours, bookings, payments, desk>>
    BY MailStepType
<1> QED
    BY <1>2, <1>3, <1>4 DEF MailStep

\* A booking whose triggers are started is the one of the request that ends.
LEMMA TriggersStarted ==
    ASSUME MailTypeOK, NEW d, NEW g \in Triggers, NEW b \in BookingIds, NEW status,
           NEW todo \in Seq(Command), StatusWritten(d, g, b, status, todo)
    PROVE  \A x \in BookingIds :
              TriggersOf(x)' = IF x = b /\ todo # <<>> THEN TriggersOf(x) \union {g}
                               ELSE TriggersOf(x)
<1>1. \A h \in Triggers : triggers'[h] = IF h = g THEN [booking |-> b, todo |-> todo] ELSE triggers[h]
    BY DEF MailTypeOK, StatusWritten
<1>2. triggers[g].todo = <<>>
    BY DEF StatusWritten
<1> QED
    BY <1>1, <1>2 DEF TriggersOf

LEMMA RequestsStepInv == SalesTypeOK /\ RequestsInv /\ [Next]_vars => RequestsInv'
<1> SUFFICES ASSUME SalesTypeOK, RequestsInv, [Next]_vars PROVE RequestsInv'
    OBVIOUS
<1>0. /\ UNCHANGED load /\ BookingsTypeOK /\ MailTypeOK /\ NoRequest.op = "idle"
    BY DEF Next, vars, SalesTypeOK, NoRequest
<1>1. ASSUME UNCHANGED desk,
             \A d \in Desks : LET b == desk[d].booking
                              IN  /\ BookingExists(b) => bookings'[b] = bookings[b]
                                  /\ TriggersOf(b)' \subseteq TriggersOf(b)
      PROVE  RequestsInv'
    BY <1>0, <1>1
    DEF RequestsInv, RequestsTakeTurns, Sends, MayOverlap, BookingExists
<1>2. \A d \in Desks : desk[d].booking \in BookingIds
    BY <1>0 DEF BookingsTypeOK, DeskRequest
<1>3. CASE Quiet
    BY <1>1, <1>3 DEF Quiet, mailVars, TriggersOf
<1>4. ASSUME NEW b \in BookingIds, NEW row \in BookingRow, Sold(b, row) PROVE RequestsInv'
    <2>1. \A x \in BookingIds : BookingExists(x) => bookings'[x] = bookings[x]
        BY <1>0, <1>4 DEF Sold, BookingsTypeOK
    <2> QED
        BY <1>1, <1>2, <1>4, <2>1 DEF Sold, mailVars, TriggersOf
<1>5. CASE MailStep
    BY <1>0, <1>1, <1>5, MailStepEffect
\* A request that ends.
<1>6. ASSUME NEW d \in Desks, desk' = [desk EXCEPT ![d] = NoRequest],
             \A e \in Desks, b \in BookingIds :
                /\ e # d /\ desk[e].op # "idle" /\ desk[e].booking = b /\ ~MayOverlap("booking")
                => bookings'[b] = bookings[b] /\ TriggersOf(b)' = TriggersOf(b)
      PROVE  RequestsInv'
    <2>1. \A e \in Desks : desk'[e] = IF e = d THEN NoRequest ELSE desk[e]
        BY <1>0, <1>6 DEF BookingsTypeOK
    <2>2. \A e \in Desks : desk'[e].op = "cancel" =>
              Sends("cancel")' /\ desk'[e].to \in {"cancelled_client", "cancelled_operator"}
        BY <1>0, <2>1 DEF RequestsInv, Sends
    <2>3. ASSUME ~MayOverlap("booking")' PROVE RequestsTakeTurns'
        <3>1. RequestsTakeTurns /\ ~MayOverlap("booking")
            BY <1>0, <2>3 DEF RequestsInv, MayOverlap
        <3>2. \A e, f \in Desks :
                 desk'[e].op # "idle" /\ desk'[f].op # "idle" /\ desk'[e].booking = desk'[f].booking
                 => e = f
            BY <1>0, <2>1, <3>1 DEF RequestsTakeTurns
        <3>3. ASSUME NEW e \in Desks, desk'[e].op # "idle"
              PROVE  /\ BookingExists(desk[e].booking)' /\ TriggersOf(desk[e].booking)' = {}
                     /\ IsValidStatusTransition(bookings'[desk'[e].booking].status, desk'[e].to)
            <4>1. e # d /\ desk'[e] = desk[e]
                BY <1>0, <2>1, <3>3
            <4>0. PICK b \in BookingIds : b = desk[e].booking
                BY <1>2
            <4>2. bookings'[b] = bookings[b] /\ TriggersOf(b)' = TriggersOf(b)
                BY <1>6, <3>1, <3>3, <4>0, <4>1
            <4>3. /\ BookingExists(b) /\ TriggersOf(b) = {}
                  /\ IsValidStatusTransition(bookings[b].status, desk[e].to)
                BY <3>1, <3>3, <4>0, <4>1 DEF RequestsTakeTurns
            <4>4. desk'[e].booking = b /\ desk'[e].to = desk[e].to
                BY <4>0, <4>1
            <4> QED
                BY <4>2, <4>3, <4>4 DEF BookingExists, TriggersOf
        <3> QED
            BY <3>2, <3>3 DEF RequestsTakeTurns
    <2> QED
        BY <2>2, <2>3 DEF RequestsInv
<1>7. ASSUME NEW d \in Desks, NEW g \in Triggers, NEW b \in BookingIds, NEW status \in Statuses,
             NEW todo \in Seq(Command), StatusWritten(d, g, b, status, todo)
      PROVE  RequestsInv'
    <2>1. ASSUME NEW e \in Desks, e # d, desk[e].op # "idle", ~MayOverlap("booking")
          PROVE  desk[e].booking # b
        BY <1>7, <2>1 DEF RequestsInv, RequestsTakeTurns, StatusWritten
    <2>2. \A x \in BookingIds : x # b => bookings'[x] = bookings[x] /\ TriggersOf(x)' = TriggersOf(x)
        <3>1. \A x \in BookingIds : x # b => TriggersOf(x)' = TriggersOf(x)
            BY <1>0, <1>7, TriggersStarted
        <3> QED
            BY <1>0, <1>7, <3>1 DEF StatusWritten, BookingsTypeOK
    <2> QED
        BY <1>6, <1>7, <2>1, <2>2, ZenonT(30) DEF StatusWritten
<1>8. ASSUME NEW d \in Desks, NEW b \in BookingIds, NEW row \in BookingRow,
             BookingCancelled(d, b, row)
      PROVE  RequestsInv'
    <2>1. ASSUME NEW e \in Desks, e # d, desk[e].op # "idle", ~MayOverlap("booking")
          PROVE  desk[e].booking # b
        BY <1>8, <2>1 DEF RequestsInv, RequestsTakeTurns, BookingCancelled
    <2>2. \A x \in BookingIds : x # b => bookings'[x] = bookings[x]
        BY <1>0, <1>8 DEF BookingCancelled, BookingsTypeOK
    <2>3. \A x : TriggersOf(x)' = TriggersOf(x)
        BY <1>8 DEF BookingCancelled, mailVars, TriggersOf
    <2>4. desk' = [desk EXCEPT ![d] = NoRequest]
        BY <1>8 DEF BookingCancelled
    <2> QED
        BY <1>6, <2>1, <2>2, <2>3, <2>4
<1>9. ASSUME NEW d \in Desks, RequestLost(d) PROVE RequestsInv'
    BY <1>6, <1>9 DEF RequestLost, mailVars, TriggersOf
<1>10. ASSUME NEW d \in Desks, NEW request, RequestBegun(d, request) PROVE RequestsInv'
    <2>1. \A e \in Desks : desk'[e] = IF e = d THEN request ELSE desk[e]
        BY <1>0, <1>10 DEF BookingsTypeOK, RequestBegun
    <2>2. UNCHANGED <<bookings, triggers>>
        BY <1>10 DEF RequestBegun, mailVars
    <2>3. \A e \in Desks : desk'[e].op = "cancel" =>
              Sends("cancel")' /\ desk'[e].to \in {"cancelled_client", "cancelled_operator"}
        BY <1>0, <1>10, <2>1 DEF RequestsInv, RequestBegun, Sends
    <2>4. ASSUME ~MayOverlap("booking")' PROVE RequestsTakeTurns'
        <3>1. RequestsTakeTurns /\ ~MayOverlap("booking")
            BY <1>0, <2>4 DEF RequestsInv, MayOverlap
        <3>2. ~BookingBusy(request.booking)
            BY <1>10, <3>1 DEF RequestBegun, BookingFree
        <3>3. \A e, f \in Desks :
                 desk'[e].op # "idle" /\ desk'[f].op # "idle" /\ desk'[e].booking = desk'[f].booking
                 => e = f
            BY <2>1, <3>1, <3>2 DEF RequestsTakeTurns, BookingBusy
        <3>4. ASSUME NEW e \in Desks, desk'[e].op # "idle"
              PROVE  /\ BookingExists(desk[e].booking)' /\ TriggersOf(desk[e].booking)' = {}
                     /\ IsValidStatusTransition(bookings'[desk'[e].booking].status, desk'[e].to)
            <4>1. CASE e = d
                BY <1>10, <2>1, <2>2, <3>2, <4>1
                DEF RequestBegun, BookingBusy, BookingExists, TriggersOf
            <4>2. CASE e # d
                BY <2>1, <2>2, <3>1, <3>4, <4>2 DEF RequestsTakeTurns, BookingExists, TriggersOf
            <4> QED
                BY <4>1, <4>2
        <3> QED
            BY <3>3, <3>4 DEF RequestsTakeTurns
    <2> QED
        BY <2>3, <2>4 DEF RequestsInv
<1> QED
    BY <1>3, <1>4, <1>5, <1>7, <1>8, <1>9, <1>10, OfficeStep

LEMMA RequestsInitInv == Init => RequestsInv
<1> SUFFICES ASSUME Init PROVE RequestsInv
    OBVIOUS
<1>1. \A d \in Desks : desk[d].op = "idle"
    BY DEF Init, BookingsInit, NoRequest
<1> QED
    BY <1>1 DEF RequestsInv, RequestsTakeTurns

(***************************************************************************)
(* Seats                                                                   *)
(***************************************************************************)

Persons == [b \in BookingIds |-> bookings[b].persons]
Holders(t) == {b \in BookingIds : SeatsHeld(b) /\ bookings[b].tour = t}
Used == {b \in BookingIds : BookingExists(b)}

\* The seats of every tour add up, and a commission is cancelled where the
\* booking is.
SeatsFit ==
    /\ \A t \in Tours :
          tours[t].totalSeats - tours[t].availableSeats = SumOf(Persons, Holders(t))
    /\ \A b \in BookingIds : bookings[b].commission = "cancelled" =>
          bookings[b].status \in {"cancelled_client", "cancelled_operator", "refund"}

SeatsInv == IsFiniteSet(Used) /\ (~MayOverlap("booking") => SeatsFit)

LEMMA HoldersOfUsed ==
    ASSUME BookingsTypeOK, IsFiniteSet(Used), NEW t
    PROVE  /\ IsFiniteSet(Holders(t)) /\ Holders(t) \subseteq BookingIds
           /\ SumOf(Persons, Holders(t)) \in Int
<1>1. Holders(t) \subseteq Used
    BY DEF Holders, Used, SeatsHeld
<1>2. IsFiniteSet(Holders(t))
    BY <1>1, FS_Subset
<1>3. \A b \in Holders(t) : Persons[b] \in Int
    BY DEF Holders, Persons, BookingsTypeOK, BookingRow
<1> QED
    BY <1>2, <1>3, SumOfInt DEF Holders

\* A step that changes one booking moves the seats of that booking.
LEMMA HoldersChange ==
    ASSUME BookingsTypeOK, IsFiniteSet(Used), NEW b \in BookingIds, NEW row \in BookingRow,
           bookings' = [bookings EXCEPT ![b] = row], NEW t \in Tours
    PROVE  SumOf(Persons, Holders(t))' =
               SumOf(Persons, Holders(t))
                   - (IF SeatsHeld(b) /\ bookings[b].tour = t THEN bookings[b].persons ELSE 0)
                   + (IF row.status # "none" /\ row.commission # "cancelled" /\ row.tour = t
                      THEN row.persons ELSE 0)
<1>0. /\ \A x \in BookingIds : bookings'[x] = IF x = b THEN row ELSE bookings[x]
      /\ \A x \in BookingIds : bookings[x] \in BookingRow /\ bookings'[x] \in BookingRow
    BY DEF BookingsTypeOK
<1>1. /\ \A x \in BookingIds : Persons[x] \in Int /\ Persons[x] = bookings[x].persons
      /\ \A x \in BookingIds : Persons'[x] \in Int /\ Persons'[x] = bookings'[x].persons
    BY <1>0 DEF Persons, BookingRow
<1>2. Holders(t) \ {b} = Holders(t)' \ {b}
    BY <1>0 DEF Holders, SeatsHeld, BookingExists
<1>3. /\ b \in Holders(t) <=> SeatsHeld(b) /\ bookings[b].tour = t
      /\ b \in Holders(t)' <=> row.status # "none" /\ row.commission # "cancelled" /\ row.tour = t
    BY <1>0 DEF Holders, SeatsHeld, BookingExists
<1>4. \A x \in Holders(t) \ {b} : Persons[x] = Persons'[x]
    BY <1>0, <1>1 DEF Holders
<1>5. IsFiniteSet(Holders(t))
    BY HoldersOfUsed
<1>6. Holders(t) \subseteq BookingIds /\ Holders(t)' \subseteq BookingIds
    BY DEF Holders
<1>7. SumOf(Persons', Holders(t)') =
          SumOf(Persons, Holders(t)) - (IF b \in Holders(t) THEN Persons[b] ELSE 0)
                                     + (IF b \in Holders(t)' THEN Persons'[b] ELSE 0)
    BY <1>1, <1>2, <1>4, <1>5, <1>6, SumOfChange
<1>8. SumOf(Persons, Holders(t))' = SumOf(Persons', Holders(t)')
    OBVIOUS
<1> QED
    BY <1>0, <1>1, <1>3, <1>7, <1>8

LEMMA UsedGrows ==
    ASSUME BookingsTypeOK, IsFiniteSet(Used), NEW b \in BookingIds, NEW row,
           bookings' = [bookings EXCEPT ![b] = row]
    PROVE  IsFiniteSet(Used')
<1>1. Used' \subseteq Used \union {b}
    BY DEF Used, BookingExists, BookingsTypeOK
<1>2. IsFiniteSet(Used \union {b})
    BY FS_AddElement
<1> QED
    BY <1>1, <1>2, FS_Subset

\* Where a cancelled booking may still go.
LEMMA AfterCancellation ==
    ASSUME NEW to
    PROVE  /\ IsValidStatusTransition("cancelled_client", to) => to = "refund"
           /\ IsValidStatusTransition("cancelled_operator", to) => to = "refund"
           /\ ~IsValidStatusTransition("refund", to)
<1>1. BOOKING_STATUS_TRANSITIONS["cancelled_client"] = {"refund"}
    BY DEF BOOKING_STATUS_TRANSITIONS, Statuses
<1>2. BOOKING_STATUS_TRANSITIONS["cancelled_operator"] = {"refund"}
    BY DEF BOOKING_STATUS_TRANSITIONS, Statuses
<1>3. BOOKING_STATUS_TRANSITIONS["refund"] = {}
    BY DEF BOOKING_STATUS_TRANSITIONS, Statuses
<1> QED
    BY <1>1, <1>2, <1>3 DEF IsValidStatusTransition

\* A step that leaves every row with its seats, its tour and its commission.
LEMMA SeatsKept ==
    ASSUME BookingsTypeOK, SeatsInv, UNCHANGED <<load, tours>>,
           \A b \in BookingIds :
              /\ BookingExists(b)' = BookingExists(b)
              /\ bookings'[b].persons = bookings[b].persons
              /\ bookings'[b].tour = bookings[b].tour
              /\ bookings'[b].commission = bookings[b].commission,
           ~MayOverlap("booking") => \A b \in BookingIds : bookings[b].commission = "cancelled" =>
              bookings'[b].status \in {"cancelled_client", "cancelled_operator", "refund"}
    PROVE  SeatsInv'
<1>1. Used' = Used
    BY DEF Used
<1>2. ASSUME SeatsFit, NEW t \in Tours
      PROVE  tours'[t].totalSeats - tours'[t].availableSeats = SumOf(Persons, Holders(t))'
    <2>1. Holders(t)' = Holders(t)
        BY DEF Holders, SeatsHeld
    <2>2. Persons' = Persons
        BY DEF Persons
    <2>3. SumOf(Persons, Holders(t))' = SumOf(Persons, Holders(t))
        BY <2>1, <2>2
    <2> QED
        BY <1>2, <2>3 DEF SeatsFit
<1> QED
    BY <1>1, <1>2 DEF SeatsInv, SeatsFit, MayOverlap

LEMMA SeatsStepInv == SalesTypeOK /\ RequestsInv /\ SeatsInv /\ [Next]_vars => SeatsInv'
<1> SUFFICES ASSUME SalesTypeOK, RequestsInv, SeatsInv, [Next]_vars PROVE SeatsInv'
    OBVIOUS
<1>0. /\ UNCHANGED load /\ BookingsTypeOK /\ ToursTypeOK
      /\ \A b \in BookingIds : bookings[b] \in BookingRow
    BY DEF Next, vars, SalesTypeOK, BookingsTypeOK
<1>1. ASSUME UNCHANGED <<tours, bookings>> PROVE SeatsInv'
    BY <1>0, <1>1, SeatsKept DEF SeatsInv, SeatsFit, BookingExists
<1>2. CASE Quiet \/ MailStep
    BY <1>0, <1>1, <1>2, MailStepEffect DEF Quiet, SalesTypeOK
<1>3. ASSUME NEW d \in Desks, RequestLost(d) \/ \E request : RequestBegun(d, request)
      PROVE  SeatsInv'
    BY <1>1, <1>3 DEF RequestLost, RequestBegun
<1>4. ASSUME NEW b \in BookingIds, NEW row \in BookingRow, Sold(b, row) PROVE SeatsInv'
    <2>1. bookings' = [bookings EXCEPT ![b] = row] /\ ~BookingExists(b)
        BY <1>4 DEF Sold
    <2>2. IsFiniteSet(Used')
        BY <1>0, <2>1, UsedGrows DEF SeatsInv
    <2>3. ASSUME SeatsFit, NEW t \in Tours
          PROVE  tours'[t].totalSeats - tours'[t].availableSeats = SumOf(Persons, Holders(t))'
        <3>1. SumOf(Persons, Holders(t))' =
                 SumOf(Persons, Holders(t)) - 0 + (IF row.tour = t THEN row.persons ELSE 0)
            <4>1. ~SeatsHeld(b) /\ row.status # "none" /\ row.commission # "cancelled"
                BY <1>4, <2>1 DEF Sold, SeatsHeld
            <4> QED
                BY <1>0, <2>1, <4>1, HoldersChange, ZenonT(30) DEF SeatsInv
        <3>2. SumOf(Persons, Holders(t)) \in Int
            BY <1>0, HoldersOfUsed DEF SeatsInv
        <3>3. /\ tours'[t].totalSeats = tours[t].totalSeats
              /\ tours'[t].availableSeats =
                    tours[t].availableSeats - (IF row.tour = t THEN row.persons ELSE 0)
              /\ tours[t].totalSeats \in Int /\ tours[t].availableSeats \in Int
              /\ row.persons \in Int
            BY <1>0, <1>4 DEF Sold, ToursTypeOK, Tour, BookingRow
        <3>4. tours[t].totalSeats - tours[t].availableSeats = SumOf(Persons, Holders(t))
            BY <2>3 DEF SeatsFit
        <3> QED
            BY <3>1, <3>2, <3>3, <3>4
    <2>4. ASSUME SeatsFit, NEW x \in BookingIds, bookings'[x].commission = "cancelled"
          PROVE  bookings'[x].status \in {"cancelled_client", "cancelled_operator", "refund"}
        BY <1>0, <1>4, <2>1, <2>4 DEF Sold, SeatsFit, BookingsTypeOK
    <2> QED
        BY <1>0, <2>2, <2>3, <2>4 DEF SeatsInv, SeatsFit, MayOverlap
<1>5. ASSUME NEW d \in Desks, NEW g \in Triggers, NEW b \in BookingIds, NEW status \in Statuses,
             NEW todo \in Seq(Command), StatusWritten(d, g, b, status, todo)
      PROVE  SeatsInv'
    <2>1. /\ UNCHANGED tours
          /\ \A x \in BookingIds : /\ bookings'[x].persons = bookings[x].persons
                                   /\ bookings'[x].tour = bookings[x].tour
                                   /\ bookings'[x].commission = bookings[x].commission
                                   /\ x # b => bookings'[x] = bookings[x]
          /\ bookings'[b].status = status
        BY <1>0, <1>5 DEF StatusWritten, BookingsTypeOK, BookingRow
    <2>2. CASE ~MayOverlap("booking")
        <3>1. /\ RequestsTakeTurns /\ SeatsFit
            BY <2>2 DEF RequestsInv, SeatsInv
        <3>2. BookingExists(b) /\ IsValidStatusTransition(bookings[b].status, status)
            BY <1>5, <3>1 DEF RequestsTakeTurns, StatusWritten
        <3>3. \A x \in BookingIds : BookingExists(x)' = BookingExists(x)
            <4>1. status # "none"
                BY DEF Statuses
            <4> QED
                BY <2>1, <3>2, <4>1 DEF BookingExists
        <3>4. ASSUME NEW x \in BookingIds, bookings[x].commission = "cancelled"
              PROVE  bookings'[x].status \in {"cancelled_client", "cancelled_operator", "refund"}
            <4>1. bookings[x].status \in {"cancelled_client", "cancelled_operator", "refund"}
                BY <3>1, <3>4 DEF SeatsFit
            <4>2. CASE x = b
                BY <2>1, <3>2, <4>1, <4>2, AfterCancellation
            <4>3. CASE x # b
                BY <2>1, <4>1, <4>3
            <4> QED
                BY <4>2, <4>3
        <3> QED
            BY <1>0, <2>1, <3>3, <3>4, SeatsKept
    <2>3. CASE MayOverlap("booking")
        <3>1. PICK row : bookings' = [bookings EXCEPT ![b] = row]
            BY <1>5 DEF StatusWritten
        <3>2. IsFiniteSet(Used')
            BY <1>0, <3>1, UsedGrows DEF SeatsInv
        <3> QED
            BY <1>0, <2>3, <3>2 DEF SeatsInv, MayOverlap
    <2> QED
        BY <2>2, <2>3
<1>6. ASSUME NEW d \in Desks, NEW b \in BookingIds, NEW row \in BookingRow,
             BookingCancelled(d, b, row)
      PROVE  SeatsInv'
    <2>1. bookings' = [bookings EXCEPT ![b] = row]
        BY <1>6 DEF BookingCancelled
    <2>2. IsFiniteSet(Used')
        BY <1>0, <2>1, UsedGrows DEF SeatsInv
    <2>3. ASSUME ~MayOverlap("booking") PROVE SeatsFit'
        <3>1. SeatsFit /\ RequestsTakeTurns
            BY <2>3 DEF SeatsInv, RequestsInv
        <3>2. /\ BookingExists(b) /\ IsValidStatusTransition(bookings[b].status, row.status)
              /\ row.status \in {"cancelled_client", "cancelled_operator"}
            BY <1>6, <3>1 DEF BookingCancelled, RequestsTakeTurns, RequestsInv
        <3>3. SeatsHeld(b)
            <4>1. bookings[b].status \notin {"cancelled_client", "cancelled_operator", "refund"}
                BY <3>2, AfterCancellation
            <4> QED
                BY <3>1, <3>2, <4>1 DEF SeatsFit, SeatsHeld
        <3>4. ASSUME NEW t \in Tours
              PROVE  tours'[t].totalSeats - tours'[t].availableSeats = SumOf(Persons, Holders(t))'
            <4>1. SumOf(Persons, Holders(t))' =
                     SumOf(Persons, Holders(t)) - (IF row.tour = t THEN row.persons ELSE 0) + 0
                <5>1. /\ row.commission = "cancelled" /\ row.tour = bookings[b].tour
                      /\ row.persons = bookings[b].persons
                    BY <1>6 DEF BookingCancelled
                <5>2. SumOf(Persons, Holders(t))' =
                          SumOf(Persons, Holders(t))
                            - (IF SeatsHeld(b) /\ bookings[b].tour = t THEN bookings[b].persons ELSE 0)
                            + (IF row.status # "none" /\ row.commission # "cancelled" /\ row.tour = t
                               THEN row.persons ELSE 0)
                    BY <1>0, <2>1, HoldersChange, ZenonT(30) DEF SeatsInv
                <5> QED
                    BY <3>3, <5>1, <5>2
            <4>2. SumOf(Persons, Holders(t)) \in Int
                BY <1>0, HoldersOfUsed DEF SeatsInv
            <4>3. /\ tours'[t].totalSeats = tours[t].totalSeats
                  /\ tours'[t].availableSeats =
                        tours[t].availableSeats + (IF row.tour = t THEN row.persons ELSE 0)
                  /\ tours[t].totalSeats \in Int /\ tours[t].availableSeats \in Int
                  /\ row.persons \in Int
                <5>1. tours' = [tours EXCEPT ![row.tour].availableSeats = @ + row.persons]
                    BY <1>6 DEF BookingCancelled
                <5>2. tours[t] \in Tour /\ row.persons \in Int
                    BY <1>0 DEF ToursTypeOK, BookingRow
                <5>3. DOMAIN tours = Tours
                    BY <1>0 DEF ToursTypeOK
                <5>4. tours[t].totalSeats \in Int /\ tours[t].availableSeats \in Int
                    BY <5>2 DEF Tour
                <5>5. CASE row.tour = t
                    BY <5>1, <5>2, <5>3, <5>4, <5>5 DEF Tour
                <5>6. CASE row.tour # t
                    BY <5>1, <5>2, <5>3, <5>4, <5>6
                <5> QED
                    BY <5>5, <5>6
            <4>4. tours[t].totalSeats - tours[t].availableSeats = SumOf(Persons, Holders(t))
                BY <3>1 DEF SeatsFit
            <4> QED
                BY <4>1, <4>2, <4>3, <4>4
        <3>5. ASSUME NEW x \in BookingIds, bookings'[x].commission = "cancelled"
              PROVE  bookings'[x].status \in {"cancelled_client", "cancelled_operator", "refund"}
            BY <1>0, <2>1, <3>1, <3>2, <3>5 DEF SeatsFit, BookingsTypeOK
        <3> QED
            BY <3>4, <3>5 DEF SeatsFit
    <2> QED
        BY <1>0, <2>2, <2>3 DEF SeatsInv, MayOverlap
<1> QED
    BY <1>2, <1>3, <1>4, <1>5, <1>6, OfficeStep

LEMMA SeatsInitInv == Init => SeatsInv
<1> SUFFICES ASSUME Init PROVE SeatsInv
    OBVIOUS
<1>1. \A b \in BookingIds : bookings[b].status = "none" /\ bookings[b].commission = "none"
    BY DEF Init, BookingsInit, NoBookingRow
<1>2. Used = {} /\ \A t : Holders(t) = {}
    BY <1>1 DEF Used, Holders, SeatsHeld, BookingExists
<1>3. \A t \in Tours : tours[t].totalSeats - tours[t].availableSeats = 0
    <2>1. PICK seats \in Capacities :
              tours = [t \in Tours |-> [status |-> "open", archived |-> FALSE,
                                        totalSeats |-> seats, availableSeats |-> seats]]
        BY DEF Init
    <2>2. seats \in Int /\ seats - seats = 0
        BY TourRequestAssumption
    <2>3. \A t \in Tours : tours[t].totalSeats = seats /\ tours[t].availableSeats = seats
        BY <2>1
    <2> QED
        BY <2>2, <2>3
<1>4. \A t \in Tours : SumOf(Persons, Holders(t)) = 0
    BY <1>2, SumOfNone
<1> QED
    BY <1>1, <1>2, <1>3, <1>4, FS_EmptySet DEF SeatsInv, SeatsFit

\* What a tour has sold is what its bookings hold, whatever sales fail half-way
\* and whichever clash on a number, as long as no two requests work on one
\* booking at once.
THEOREM SalesKeepSeats == Spec => []SeatsOfSales
<1>1. Init => SalesTypeOK /\ CreationsInv /\ RequestsInv /\ SeatsInv
    BY SalesInitType, RequestsInitInv, SeatsInitInv
<1>2. SalesTypeOK /\ CreationsInv /\ RequestsInv /\ SeatsInv /\ [Next]_vars
      => SalesTypeOK' /\ CreationsInv' /\ RequestsInv' /\ SeatsInv'
    BY SalesStepType, RequestsStepInv, SeatsStepInv
<1>3. SeatsInv => SeatsOfSales
    BY DEF SeatsInv, SeatsFit, SeatsOfSales, Persons, Holders
<1> QED
    BY <1>1, <1>2, <1>3, PTL DEF Spec

(***************************************************************************)
(* Reminders                                                               *)
(***************************************************************************)

\* Bookings are cancelled by the status route, in turn, and nothing crashes.
Orderly == ~MayOverlap("booking") /\ ~MayOverlap("crash") /\ ~Sends("cancel")

\* Whatever a trigger of b has still to do is a removal.
OnlyRemoves(b) ==
    \A g \in TriggersOf(b) : \A i \in 1..Len(triggers[g].todo) : triggers[g].todo[i].do = "remove"

\* A trigger of b has still to give the command for the job.
WillBeHandled(b, id) ==
    \E g \in TriggersOf(b) : \E i \in 1..Len(triggers[g].todo) : triggers[g].todo[i].id = id

\* The jobs of a cancelled booking are about to be removed.
RemindersFade(b) ==
    isCancelledStatus(bookings[b].status) =>
        /\ OnlyRemoves(b)
        /\ \A job \in jobs : job.booking = b => WillBeHandled(b, job.id)

RemindersInv == Orderly => \A b \in BookingIds : RemindersFade(b)

\* A booking of which a step says nothing.
LEMMA RemindersKept ==
    ASSUME NEW b, RemindersFade(b), bookings'[b].status = bookings[b].status,
           \A id : [booking |-> b, id |-> id] \in jobs' => [booking |-> b, id |-> id] \in jobs,
           jobs \subseteq Job, jobs' \subseteq Job,
           TriggersOf(b)' = TriggersOf(b),
           \A g \in TriggersOf(b) : triggers'[g] = triggers[g]
    PROVE  RemindersFade(b)'
<1>1. OnlyRemoves(b)' <=> OnlyRemoves(b)
    BY DEF OnlyRemoves
<1>2. \A id : WillBeHandled(b, id)' <=> WillBeHandled(b, id)
    BY DEF WillBeHandled
<1>3. ASSUME NEW job \in jobs', job.booking = b PROVE job \in jobs
    <2>1. job = [booking |-> b, id |-> job.id]
        BY <1>3 DEF Job
    <2> QED
        BY <1>3, <2>1
<1> QED
    BY <1>1, <1>2, <1>3 DEF RemindersFade

\* The triggers of a cancellation remove every job there may be.
LEMMA CancellationFires ==
    ASSUME MailTypeOK, NEW d, NEW g \in Triggers, NEW b \in BookingIds, NEW status \in Statuses,
           NEW todo \in Seq(Command), StatusWritten(d, g, b, status, todo), BookingsTypeOK,
           TriggersOf(b) = {}
    PROVE  RemindersFade(b)'
<1> SUFFICES ASSUME isCancelledStatus(status) PROVE RemindersFade(b)'
    BY DEF StatusWritten, BookingsTypeOK, BookingRow, RemindersFade
<1>1. todo = Commands("remove", CancelledJobs)
    BY DEF StatusWritten
<1>2. /\ Len(todo) = Len(CancelledJobs)
      /\ \A i \in 1..Len(CancelledJobs) : todo[i] = [do |-> "remove", id |-> CancelledJobs[i]]
    BY <1>1, CommandsType, CancelledJobsType
<1>3. \A id \in JobIds : \E i \in 1..Len(todo) : todo[i].id = id
    <2> SUFFICES ASSUME NEW id \in JobIds PROVE \E i \in 1..Len(todo) : todo[i].id = id
        OBVIOUS
    <2>1. PICK i \in 1..Len(CancelledJobs) : CancelledJobs[i] = id
        BY CancelledJobsType
    <2>2. i \in 1..Len(todo) /\ todo[i] = [do |-> "remove", id |-> id]
        BY <1>2, <2>1
    <2>3. todo[i].id = id
        BY <2>2
    <2> QED
        BY <2>2, <2>3
<1>4. todo # <<>>
    <2>1. PICK i \in 1..Len(todo) : todo[i].id = PreDeparture
        BY <1>3 DEF JobIds
    <2> QED
        BY <2>1
<1>5. TriggersOf(b)' = {g}
    BY <1>4, TriggersStarted
<1>6. triggers'[g].todo = todo
    BY DEF StatusWritten, MailTypeOK
<1>7. OnlyRemoves(b)'
    <2>1. ASSUME NEW i \in 1..Len(todo) PROVE todo[i].do = "remove"
        <3>1. todo[i] = [do |-> "remove", id |-> CancelledJobs[i]]
            BY <1>2
        <3> QED
            BY <3>1
    <2> QED
        BY <1>5, <1>6, <2>1 DEF OnlyRemoves
<1>8. \A id \in JobIds : WillBeHandled(b, id)'
    BY <1>3, <1>5, <1>6 DEF WillBeHandled
<1>9. \A job \in jobs' : job.id \in JobIds
    BY DEF StatusWritten, MailTypeOK, Job
<1> QED
    BY <1>7, <1>8, <1>9 DEF RemindersFade

LEMMA RunTriggerFades ==
    ASSUME MailTypeOK, MailTypeOK', NEW g \in Triggers, RunTrigger(g),
           NEW b \in BookingIds, RemindersFade(b)
    PROVE  RemindersFade(b)'
<1>1. PICK x \in BookingIds, todo \in Seq(Command), do \in {"add", "remove"}, id \in JobIds :
          /\ x = triggers[g].booking /\ todo = triggers[g].todo /\ todo # <<>>
          /\ Head(todo) = [do |-> do, id |-> id]
          /\ jobs' = IF do = "add" THEN jobs \union {[booking |-> x, id |-> id]}
                                   ELSE jobs \ {[booking |-> x, id |-> id]}
          /\ triggers' = [triggers EXCEPT ![g] = [booking |-> x, todo |-> Tail(todo)]]
          /\ UNCHANGED <<tours, bookings, payments, desk>>
    BY RunTriggerEffect
<1> DEFINE left == Tail(todo)
<1>2. /\ left \in Seq(Command) /\ Len(left) = Len(todo) - 1 /\ Len(todo) \in Nat
      /\ \A i \in 1..Len(left) : left[i] = todo[i + 1]
    BY <1>1, HeadTailProperties, LenProperties
<1>3. \A h \in Triggers : triggers'[h] = IF h = g THEN [booking |-> x, todo |-> left] ELSE triggers[h]
    BY <1>1 DEF MailTypeOK
<1>4. todo[1].do = do /\ todo[1].id = id /\ 1 \in 1..Len(todo)
    <2>1. Head(todo) = todo[1]
        OBVIOUS
    <2>2. Len(todo) # 0
        BY <1>1, EmptySeq
    <2> QED
        BY <1>1, <1>2, <2>1, <2>2
<1> HIDE DEF left
<1>5. CASE x # b
    <2>1. TriggersOf(b)' = TriggersOf(b) /\ g \notin TriggersOf(b)
        BY <1>1, <1>3, <1>5 DEF TriggersOf
    <2>2. \A h \in TriggersOf(b) : triggers'[h] = triggers[h]
        BY <1>3, <2>1 DEF TriggersOf
    <2>3. \A k : [booking |-> b, id |-> k] \in jobs' => [booking |-> b, id |-> k] \in jobs
        BY <1>1, <1>5
    <2>4. bookings'[b].status = bookings[b].status /\ jobs \subseteq Job /\ jobs' \subseteq Job
        BY <1>1 DEF MailTypeOK
    <2> QED
        BY <2>1, <2>2, <2>3, <2>4, RemindersKept
<1>6. CASE x = b
    <2> SUFFICES ASSUME isCancelledStatus(bookings[b].status) PROVE RemindersFade(b)'
        BY <1>1 DEF RemindersFade
    <2>1. g \in TriggersOf(b)
        BY <1>1, <1>6 DEF TriggersOf
    <2>2. /\ OnlyRemoves(b) /\ do = "remove"
          /\ \A job \in jobs : job.booking = b => WillBeHandled(b, job.id)
        BY <1>1, <1>4, <2>1 DEF RemindersFade, OnlyRemoves
    <2>3. TriggersOf(b)' \subseteq TriggersOf(b)
        BY <1>3, <2>1 DEF TriggersOf
    <2>4. OnlyRemoves(b)'
        <3> SUFFICES ASSUME NEW h \in TriggersOf(b)', NEW i \in 1..Len(triggers'[h].todo)
                     PROVE  triggers'[h].todo[i].do = "remove"
            BY DEF OnlyRemoves
        <3>1. h \in TriggersOf(b) /\ h \in Triggers
            BY <2>3 DEF TriggersOf
        <3>2. CASE h # g
            BY <1>3, <2>2, <3>1, <3>2 DEF OnlyRemoves
        <3>3. CASE h = g
            <4>1. triggers'[h].todo = left /\ i \in 1..Len(left)
                BY <1>3, <3>1, <3>3
            <4>2. left[i] = todo[i + 1] /\ i + 1 \in 1..Len(todo)
                BY <1>2, <4>1
            <4>3. todo[i + 1].do = "remove"
                BY <1>1, <2>1, <2>2, <4>2 DEF OnlyRemoves
            <4> QED
                BY <4>1, <4>2, <4>3
        <3> QED
            BY <3>2, <3>3
    <2>5. ASSUME NEW job \in jobs', job.booking = b PROVE WillBeHandled(b, job.id)'
        <3>1. job \in jobs /\ job.id # id
            <4>1. job \in jobs /\ job # [booking |-> x, id |-> id]
                BY <1>1, <2>2, <2>5
            <4>2. job = [booking |-> job.booking, id |-> job.id]
                BY <4>1 DEF MailTypeOK, Job
            <4> QED
                BY <1>6, <2>5, <4>1, <4>2
        <3>2. PICK h \in TriggersOf(b) :
                 \E k \in 1..Len(triggers[h].todo) : triggers[h].todo[k].id = job.id
            BY <2>2, <2>5, <3>1 DEF WillBeHandled
        <3>3. PICK i \in 1..Len(triggers[h].todo) : triggers[h].todo[i].id = job.id
            BY <3>2
        <3>6. h \in Triggers
            BY DEF TriggersOf
        <3>4. CASE h # g
            <4>1. triggers'[h] = triggers[h] /\ h \in TriggersOf(b)'
                BY <1>3, <3>4, <3>6 DEF TriggersOf
            <4> QED
                BY <3>3, <4>1 DEF WillBeHandled
        <3>5. CASE h = g
            <4>1. i \in 1..Len(todo) /\ todo[i].id = job.id /\ i # 1
                BY <1>1, <1>4, <3>1, <3>3, <3>5
            <4> DEFINE k == i - 1
            <4>2. k \in 1..Len(left) /\ i = k + 1
                BY <1>2, <4>1
            <4> HIDE DEF k
            <4>3. left[k].id = job.id
                BY <1>2, <4>1, <4>2
            <4>4. left # <<>>
                BY <4>2
            <4>5. triggers'[g].todo = left /\ g \in TriggersOf(b)'
                BY <1>3, <1>6, <4>4 DEF TriggersOf
            <4>6. k \in 1..Len(triggers'[g].todo) /\ triggers'[g].todo[k].id = job.id
                BY <4>2, <4>3, <4>5
            <4> QED
                BY <4>5, <4>6 DEF WillBeHandled
        <3> QED
            BY <3>4, <3>5
    <2> QED
        BY <2>4, <2>5 DEF RemindersFade
<1> QED
    BY <1>5, <1>6

LEMMA RemindersStepInv ==
    SalesTypeOK /\ SalesTypeOK' /\ RequestsInv /\ RemindersInv /\ [Next]_vars => RemindersInv'
<1> SUFFICES ASSUME SalesTypeOK, SalesTypeOK', RequestsInv, RemindersInv, [Next]_vars, Orderly',
                    NEW b \in BookingIds
             PROVE  RemindersFade(b)'
    BY DEF RemindersInv
<1>0. /\ UNCHANGED load /\ BookingsTypeOK /\ MailTypeOK /\ MailTypeOK'
      /\ jobs \subseteq Job /\ jobs' \subseteq Job
    BY DEF Next, vars, SalesTypeOK, MailTypeOK
<1>1. Orderly /\ RemindersFade(b) /\ RequestsTakeTurns
    BY <1>0 DEF Orderly, MayOverlap, Sends, RemindersInv, RequestsInv
<1>2. ASSUME bookings'[b].status = bookings[b].status, UNCHANGED mailVars PROVE RemindersFade(b)'
    BY <1>0, <1>1, <1>2, RemindersKept DEF mailVars, TriggersOf
<1>3. CASE Quiet
    BY <1>2, <1>3 DEF Quiet
<1>4. ASSUME NEW x \in BookingIds, NEW row \in BookingRow, Sold(x, row) PROVE RemindersFade(b)'
    <2>1. CASE x = b
        <3>1. bookings'[b].status = "new"
            BY <1>0, <1>4, <2>1 DEF Sold, BookingsTypeOK
        <3> QED
            BY <3>1 DEF RemindersFade, isCancelledStatus
    <2>2. CASE x # b
        BY <1>2, <1>4, <2>2 DEF Sold
    <2> QED
        BY <2>1, <2>2
<1>5. ASSUME NEW d \in Desks, RequestLost(d) \/ \E request : RequestBegun(d, request)
      PROVE  RemindersFade(b)'
    BY <1>2, <1>5 DEF RequestLost, RequestBegun
<1>6. ASSUME NEW d \in Desks, NEW x, NEW row, BookingCancelled(d, x, row) PROVE FALSE
    BY <1>1, <1>6 DEF BookingCancelled, RequestsInv, Orderly
<1>7. ASSUME NEW d \in Desks, NEW g \in Triggers, NEW x \in BookingIds, NEW status \in Statuses,
             NEW todo \in Seq(Command), StatusWritten(d, g, x, status, todo)
      PROVE  RemindersFade(b)'
    <2>1. CASE x = b
        <3>1. TriggersOf(b) = {}
            BY <1>1, <1>7, <2>1 DEF RequestsTakeTurns, StatusWritten
        <3> QED
            BY <1>0, <1>7, <2>1, <3>1, CancellationFires
    <2>2. CASE x # b
        <3>1. TriggersOf(b)' = TriggersOf(b)
            BY <1>0, <1>7, <2>2, TriggersStarted
        <3>2. /\ bookings'[b].status = bookings[b].status /\ UNCHANGED jobs
              /\ triggers' = [triggers EXCEPT ![g] = [booking |-> x, todo |-> todo]]
              /\ triggers[g].todo = <<>>
            BY <1>0, <1>7, <2>2 DEF StatusWritten, BookingsTypeOK
        <3>3. \A h \in TriggersOf(b) : triggers'[h] = triggers[h]
            BY <1>0, <3>2 DEF TriggersOf, MailTypeOK
        <3> QED
            BY <1>0, <1>1, <3>1, <3>2, <3>3, RemindersKept
    <2> QED
        BY <2>1, <2>2
<1>8. CASE MailStep
    <2>1. PICK g \in Triggers : RunTrigger(g)
        BY <1>1, <1>8 DEF MailStep, Orderly
    <2> QED
        BY <1>0, <1>1, <2>1, RunTriggerFades
<1> QED
    BY <1>3, <1>4, <1>5, <1>6, <1>7, <1>8, OfficeStep

LEMMA RemindersInitInv == Init => RemindersInv
<1> SUFFICES ASSUME Init, NEW b \in BookingIds PROVE RemindersFade(b)
    BY DEF RemindersInv
<1>1. bookings[b].status = "none"
    BY DEF Init, BookingsInit, NoBookingRow
<1> QED
    BY <1>1 DEF RemindersFade, isCancelledStatus

\* Once the triggers of a cancellation by the status route have run, the queue
\* holds no reminder of the booking, however often it was scheduled before.
THEOREM CancellationEndsReminders == Spec => []CancelledHasNoReminders
<1>1. Init => SalesTypeOK /\ CreationsInv /\ RequestsInv /\ RemindersInv
    BY SalesInitType, RequestsInitInv, RemindersInitInv
<1>2. SalesTypeOK /\ CreationsInv /\ RequestsInv /\ RemindersInv /\ [Next]_vars
      => SalesTypeOK' /\ CreationsInv' /\ RequestsInv' /\ RemindersInv'
    BY SalesStepType, RequestsStepInv, RemindersStepInv
<1>3. RemindersInv => CancelledHasNoReminders
    BY DEF RemindersInv, Orderly, RemindersFade, WillBeHandled, CancelledHasNoReminders
<1> QED
    BY <1>1, <1>2, <1>3, PTL DEF Spec

(***************************************************************************)
(* Booking numbers                                                         *)
(***************************************************************************)

\* The powers up to the n-th.
Powers(n, f) ==
    /\ f \in [0..n -> Nat] /\ f[0] = 1
    /\ \A k \in 1..n : f[k] = Base * f[k - 1]

LEMMA PowersExist == \A n \in Nat : \E f : Powers(n, f)
<1> DEFINE Wrong == {n \in Nat : ~\E f : Powers(n, f)}
<1> SUFFICES ASSUME Wrong # {} PROVE FALSE
    OBVIOUS
<1>1. PICK n \in Wrong : \A m \in Wrong : n <= m
    BY LeastNatural
<1>2. CASE n = 0
    <2> DEFINE one == [k \in 0..0 |-> 1]
    <2>1. Powers(0, one)
        BY DEF Powers
    <2> HIDE DEF one
    <2> QED
        BY <1>2, <2>1
<1>3. CASE n # 0
    <2>1. n - 1 \in Nat /\ n - 1 \notin Wrong /\ n \in Nat
        BY <1>1, <1>3
    <2>2. PICK f : Powers(n - 1, f)
        BY <2>1
    <2> DEFINE next == Base * f[n - 1]
               g == [k \in 0..n |-> IF k = n THEN next ELSE f[k]]
    <2>3. next \in Nat
        BY <2>1, <2>2, LeadsAssumption DEF Powers
    <2>4. \A k \in 0..n : k # n => k \in 0..(n - 1)
        BY <2>1
    <2>5. g \in [0..n -> Nat] /\ g[0] = 1
        BY <1>3, <2>1, <2>2, <2>3, <2>4 DEF Powers
    <2>6. ASSUME NEW k \in 1..n PROVE g[k] = Base * g[k - 1]
        <3>1. g[k - 1] = f[k - 1] /\ k \in 0..n
            BY <2>1
        <3>2. CASE k = n
            BY <3>1, <3>2
        <3>3. CASE k # n
            BY <2>1, <2>2, <3>1, <3>3 DEF Powers
        <3> QED
            BY <3>2, <3>3
    <2>7. Powers(n, g)
        BY <2>5, <2>6 DEF Powers
    <2> QED
        BY <2>7
<1> QED
    BY <1>2, <1>3

LEMMA PowersAgree ==
    ASSUME NEW n \in Nat, NEW m \in Nat, NEW f, NEW g, Powers(n, f), Powers(m, g),
           NEW k \in 0..n, k <= m
    PROVE  f[k] = g[k]
<1> DEFINE Wrong == {i \in Nat : i <= n /\ i <= m /\ f[i] # g[i]}
<1> SUFFICES ASSUME Wrong # {} PROVE FALSE
    OBVIOUS
<1>1. PICK i \in Wrong : \A j \in Wrong : i <= j
    BY LeastNatural
<1>2. i # 0
    BY DEF Powers
<1>3. i - 1 \in Nat /\ i - 1 \notin Wrong /\ i \in 1..n /\ i \in 1..m
    BY <1>1, <1>2
<1>4. f[i - 1] = g[i - 1]
    BY <1>3
<1> QED
    BY <1>3, <1>4 DEF Powers

\* What is written as a recursive function is the power.
LEMMA PowerUnfolds ==
    /\ Power[0] = 1
    /\ \A k \in Nat \ {0} : Power[k] = Base * Power[k - 1]
<1> DEFINE upTo(k) == CHOOSE f : Powers(k, f)
           power == [k \in Nat |-> upTo(k)[k]]
<1>1. \A k \in Nat : Powers(k, upTo(k))
    BY PowersExist
<1> HIDE DEF upTo
<1>2. power[0] = 1
    BY <1>1 DEF Powers
<1>3. ASSUME NEW k \in Nat \ {0} PROVE power[k] = Base * power[k - 1]
    <2>1. k - 1 \in Nat /\ k \in 1..k /\ k - 1 \in 0..k /\ k - 1 <= k - 1
        OBVIOUS
    <2>2. Powers(k, upTo(k)) /\ Powers(k - 1, upTo(k - 1))
        BY <1>1, <2>1
    <2>3. upTo(k)[k] = Base * upTo(k)[k - 1]
        BY <2>1, <2>2 DEF Powers
    <2>4. upTo(k)[k - 1] = upTo(k - 1)[k - 1]
        BY <2>1, <2>2, PowersAgree
    <2> QED
        BY <2>1, <2>3, <2>4
<1>4. power = [k \in Nat |-> IF k = 0 THEN 1 ELSE Base * power[k - 1]]
    BY <1>2, <1>3
<1> HIDE DEF power
<1>5. Power = [k \in Nat |-> IF k = 0 THEN 1 ELSE Base * Power[k - 1]]
    BY <1>4 DEF Power
<1> QED
    BY <1>5

LEMMA TimesBase == ASSUME NEW x \in Nat \ {0} PROVE Base * x \in Nat \ {0} /\ Base * x >= x + 1
<1>1. PICK more \in Nat : Base = 2 + more
    <2>1. Base - 2 \in Nat /\ Base = 2 + (Base - 2)
        BY LeadsAssumption
    <2> QED
        BY <2>1
<1>2. more * x \in Nat
    OBVIOUS
<1>3. (2 + more) * x = x + x + more * x
    OBVIOUS
<1> QED
    BY <1>1, <1>2, <1>3

LEMMA PowerType == \A k \in Nat : Power[k] \in Nat \ {0} /\ Power[k] > k
<1> DEFINE Wrong == {k \in Nat : ~(Power[k] \in Nat \ {0} /\ Power[k] > k)}
<1> SUFFICES ASSUME Wrong # {} PROVE FALSE
    OBVIOUS
<1>1. PICK k \in Wrong : \A j \in Wrong : k <= j
    BY LeastNatural
<1>2. k # 0
    BY PowerUnfolds
<1>3. k - 1 \in Nat /\ k - 1 \notin Wrong
    BY <1>1, <1>2
<1>4. Power[k - 1] \in Nat \ {0} /\ Power[k - 1] > k - 1
    BY <1>3
<1>5. Base * Power[k - 1] \in Nat \ {0} /\ Base * Power[k - 1] >= Power[k - 1] + 1
    BY <1>4, TimesBase
<1>6. Power[k] = Base * Power[k - 1]
    BY <1>2, PowerUnfolds
<1> QED
    BY <1>3, <1>4, <1>5, <1>6

LEMMA PowerGrows == ASSUME NEW j \in Nat, NEW k \in Nat, j <= k PROVE Power[j] <= Power[k]
<1> DEFINE Wrong == {m \in Nat : j <= m /\ ~(Power[j] <= Power[m])}
<1> SUFFICES ASSUME Wrong # {} PROVE FALSE
    BY PowerType
<1>1. PICK m \in Wrong : \A i \in Wrong : m <= i
    BY LeastNatural
<1>2. m # j
    BY PowerType
<1>3. m - 1 \in Nat /\ m - 1 \notin Wrong /\ j <= m - 1 /\ m \in Nat \ {0}
    BY <1>1, <1>2
<1>4. Power[j] <= Power[m - 1]
    BY <1>3
<1>5. Power[m - 1] \in Nat \ {0} /\ Power[j] \in Nat
    BY <1>3, PowerType
<1>6. Power[m] = Base * Power[m - 1] /\ Base * Power[m - 1] >= Power[m - 1] + 1
      /\ Base * Power[m - 1] \in Nat
    BY <1>3, <1>5, PowerUnfolds, TimesBase
<1> QED
    BY <1>4, <1>5, <1>6

\* A number below the power of the padding is padded to just that width.
LEMMA PaddedWidth == ASSUME NEW n \in Nat, n < Power[Pad] PROVE Width(n) = Pad
<1> DEFINE Fits(k) == n < Power[k] /\ (k > 1 => n >= Power[k - 1])
           enough == {k \in Nat : k >= 1 /\ n < Power[k]}
<1>1. n + 1 \in enough
    <2>1. Power[n + 1] \in Nat /\ Power[n + 1] > n + 1
        BY PowerType
    <2> QED
        BY <2>1
<1>2. PICK k \in enough : \A j \in enough : k <= j
    BY <1>1, LeastNatural
<1>3. k \in 1..(n + 1) /\ Fits(k)
    <2>1. k <= n + 1 /\ k \in Nat
        BY <1>1, <1>2
    <2>2. k > 1 => k - 1 \in Nat /\ k - 1 >= 1 /\ k - 1 \notin enough
        BY <1>2, <2>1
    <2>3. k > 1 => ~(n < Power[k - 1]) /\ Power[k - 1] \in Nat
        BY <2>2, PowerType
    <2> QED
        BY <2>1, <2>3
<1>4. Digits(n) \in 1..(n + 1) /\ Fits(Digits(n))
    BY <1>3 DEF Digits
<1>5. Pad \in Nat \ {0}
    BY LeadsAssumption
<1>6. ASSUME Digits(n) > Pad PROVE FALSE
    <2>1. Digits(n) - 1 \in Nat /\ Pad <= Digits(n) - 1 /\ Digits(n) > 1
        BY <1>4, <1>5, <1>6
    <2>2. Power[Pad] <= Power[Digits(n) - 1] /\ Power[Pad] \in Nat /\ Power[Digits(n) - 1] \in Nat
        BY <1>5, <2>1, PowerGrows, PowerType
    <2>3. n >= Power[Digits(n) - 1]
        BY <1>4, <2>1
    <2> QED
        BY <2>2, <2>3
<1> HIDE DEF Fits
<1> QED
    BY <1>4, <1>5, <1>6 DEF Width, Greatest

\* Of numbers that fit the padding, the one that comes before is the smaller one.
LEMMA PaddedOrder ==
    ASSUME NEW m \in Nat, NEW n \in Nat, m < Power[Pad], n < Power[Pad], NumberBefore(m, n)
    PROVE  m < n
<1>1. Width(m) = Pad /\ Width(n) = Pad /\ Pad \in Nat
    BY PaddedWidth, LeadsAssumption
<1>2. Power[Pad - Pad] = 1
    BY <1>1, PowerUnfolds
<1>3. n \div 1 = n
    OBVIOUS
<1> QED
    BY <1>1, <1>2, <1>3 DEF NumberBefore

LEMMA NumbersAreFree == SalesTypeOK => NextNumberIsFree
<1> SUFFICES ASSUME SalesTypeOK, \A n \in UsedNumbers : n < Power[Pad] - 1,
                    NEW number \in NextNumbers, number \in UsedNumbers
             PROVE  FALSE
    BY DEF NextNumberIsFree
<1>1. UsedNumbers \subseteq Nat
    <2>1. \A b \in BookingIds : papers[b].number \in Nat
        BY DEF SalesTypeOK, LeadsTypeOK, Paper
    <2> QED
        BY <2>1, LeadsAssumption DEF UsedNumbers
<1>2. PICK last \in LastNumbers : number = last + 1
    BY DEF NextNumbers
<1>3. last \in UsedNumbers /\ (number = last \/ NumberBefore(number, last))
    BY <1>2 DEF LastNumbers
<1>4. Power[Pad] \in Nat
    BY PowerType, LeadsAssumption
<1>5. last \in Nat /\ number \in Nat /\ last < Power[Pad] /\ number < Power[Pad]
    BY <1>1, <1>3, <1>4
<1>6. number # last
    BY <1>2, <1>5
<1>7. number < last
    BY <1>3, <1>5, <1>6, PaddedOrder
<1> QED
    BY <1>2, <1>5, <1>7

\* The number drawn next is free, as long as the padding holds: whoever draws it
\* after a clash has one that nobody has.
THEOREM NextNumbersAreFree == Spec => []NextNumberIsFree
BY SalesTypeCorrect, NumbersAreFree, PTL

=============================================================================
