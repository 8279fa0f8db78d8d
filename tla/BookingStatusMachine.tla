------------------------ MODULE BookingStatusMachine ------------------------
(***************************************************************************)
(* The life cycle of a booking (BR-06), booking-status-machine.ts: which   *)
(* status may follow which.  The handlers of Bookings consult it; LiqPay   *)
(* does not, it has a table of its own.                                    *)
(***************************************************************************)

Statuses ==
    { "new", "in_work", "needs_clarification", "pre_booked",
      "awaiting_payment", "partially_paid", "confirmed", "docs_collected",
      "ready_to_depart", "on_trip", "completed", "cancelled_client",
      "cancelled_operator", "no_show", "refund" }

BOOKING_STATUS_TRANSITIONS ==
    [s \in Statuses |->
        CASE s = "new"                 -> {"in_work", "cancelled_operator"}
          [] s = "in_work"             -> {"needs_clarification", "pre_booked",
                                           "awaiting_payment", "cancelled_operator"}
          [] s = "needs_clarification" -> {"in_work", "awaiting_payment",
                                           "cancelled_client", "cancelled_operator"}
          [] s = "pre_booked"          -> {"awaiting_payment",
                                           "cancelled_client", "cancelled_operator"}
          [] s = "awaiting_payment"    -> {"partially_paid", "confirmed",
                                           "cancelled_client", "cancelled_operator"}
          [] s = "partially_paid"      -> {"confirmed",
                                           "cancelled_client", "cancelled_operator"}
          [] s = "confirmed"           -> {"docs_collected",
                                           "cancelled_client", "cancelled_operator"}
          [] s = "docs_collected"      -> {"ready_to_depart"}
          [] s = "ready_to_depart"     -> {"on_trip"}
          [] s = "on_trip"             -> {"completed", "no_show"}
          [] s \in {"cancelled_client", "cancelled_operator"} -> {"refund"}
          [] s \in {"completed", "no_show", "refund"} -> {}]

IsValidStatusTransition(from, to) == to \in BOOKING_STATUS_TRANSITIONS[from]

IsTerminalStatus(s) == BOOKING_STATUS_TRANSITIONS[s] = {}

=============================================================================
