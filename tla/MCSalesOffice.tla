---------------------------- MODULE MCSalesOffice ----------------------------
(***************************************************************************)
(* Values for SalesOffice.  Anna and Hanna have passports and share an     *)
(* address, as people booked by one agent do; Borys has given a passport   *)
(* and no address, Vira an address and no passport.                        *)
(***************************************************************************)
EXTENDS SalesOffice, TLC

CONSTANTS anna, borys, vira, hanna, e1, e2, l1, t1, b1

Identities ==
    [p \in People |->
        CASE p = anna  -> [passport |-> TRUE, email |-> e1]
          [] p = borys -> [passport |-> TRUE, email |-> NoEmail]
          [] p = vira  -> [passport |-> FALSE, email |-> e2]
          [] p = hanna -> [passport |-> TRUE, email |-> e1]]

Managers == [d \in Desks |-> "manager"]
NoAgency == [d \in Desks |-> NoAgent]
OneOffer == { [persons |-> 1, total |-> 3, deposit |-> 1] }

Busy(kinds, people, ls, ts, bs, overlap) ==
    [kinds |-> kinds, people |-> people, leads |-> ls, tours |-> ts, bookings |-> bs,
     overlap |-> overlap]

ManyLoads ==
    { Busy({"lead"}, People, LeadIds, {}, {}, {}),
      Busy({"lead"}, {anna, vira}, {l1}, {}, {}, {"person"}),
      Busy({"direct"}, {}, {}, Tours, BookingIds, {}),
      Busy({"lead", "convert"}, {anna}, LeadIds, Tours, BookingIds, {}),
      Busy({"lead", "convert", "direct"}, {borys}, {l1}, {t1}, BookingIds, {}),
      Busy({"lead", "update", "convert"}, {anna}, {l1}, {t1}, BookingIds, {"lead"}),
      Busy({"direct", "status", "cancel"}, {}, {}, {t1}, {b1}, {}),
      Busy({"direct", "status"}, {}, {}, {t1}, {b1}, {}),
      Busy({"direct", "status"}, {}, {}, {t1}, {b1}, {"booking", "crash"}) }

RequestSymmetry == Permutations(Desks) \union Permutations(Triggers)

=============================================================================
