----------------------------- MODULE BookingMail -----------------------------
(***************************************************************************)
(* The delayed e-mail jobs of a booking: fireEmailTriggers of              *)
(* bookings.service.ts and email.queue.ts.  The status route starts the    *)
(* triggers and answers without waiting for them; each command to the      *)
(* queue is awaited, so that the triggers of two changes of one booking    *)
(* may interleave.  No worker takes jobs out (main.ts leaves it out).      *)
(***************************************************************************)
EXTENDS Bookings, Sequences

CONSTANTS
    Triggers,   \* the runs of fireEmailTriggers that may be under way
    DaysLeft    \* the days to a deadline, or to the departure, there may be

ASSUME MailAssumption == DaysLeft \subseteq Nat

VARIABLES
    jobs,       \* the delayed jobs, each [booking, id]: an id is there once
    triggers    \* [Triggers -> Trigger]

mailVars == <<jobs, triggers>>

\* A job id is the days before the deadline of a reminder, or PreDeparture.
ReminderDays == <<7, 3, 1>>
PreDeparture == 0
JobIds == {7, 3, 1, PreDeparture}

Job == [booking: BookingIds, id: JobIds]

Command == [do: {"add", "remove"}, id: JobIds]
Trigger == [booking: BookingIds, todo: Seq(Command)]
NoTrigger == [booking |-> CHOOSE b \in BookingIds : TRUE, todo |-> <<>>]

TriggersOf(b) == {g \in Triggers : triggers[g].todo # <<>> /\ triggers[g].booking = b}

Commands(do, ids) == [i \in DOMAIN ids |-> [do |-> do, id |-> ids[i]]]

\* schedulePaymentReminders: the reminders whose day has not come.
PaymentReminders(days) ==
    CASE days > 7          -> <<7, 3, 1>>
      [] days \in 4..7     -> <<3, 1>>
      [] days \in {2, 3}   -> <<1>>
      [] days \in {0, 1}   -> <<>>

\* Wrong on purpose: the delay of the job is taken for its id.
PreDepartureDelay(days) == IF days > 3 THEN <<days - 3>> ELSE <<>>

\* schedulePreDepartureEmail: three days before.
PreDepartureEmail(days) == IF days > 3 THEN <<PreDeparture>> ELSE <<>>

\* Wrong on purpose: the last reminder is forgotten.
CancelledJobsButLast == <<7, 3, PreDeparture>>

\* cancelBookingEmailJobs.
CancelledJobs == ReminderDays \o <<PreDeparture>>

isCancelledStatus(s) == s \in {"cancelled_client", "cancelled_operator", "no_show", "refund"}

\* fireEmailTriggers; toDeadline and toDeparture are the days left.  The job
\* that says "confirmed" at once has no id and is left out.
TriggerCommands(status, toDeadline, toDeparture) ==
    CASE status = "confirmed" ->
             Commands("add", PaymentReminders(toDeadline) \o PreDepartureEmail(toDeparture))
      [] status = "awaiting_payment" -> Commands("add", PaymentReminders(toDeadline))
      [] status = "docs_collected"   -> Commands("add", PreDepartureEmail(toDeparture))
      [] isCancelledStatus(status)   -> Commands("remove", CancelledJobs)
      [] OTHER -> <<>>

\* PATCH /bookings/:id/status to its end: the write, and the triggers started.
CommitStatusAndFire(d, g, toDeadline, toDeparture) ==
    /\ triggers[g].todo = <<>>
    /\ triggers' = [triggers EXCEPT ![g] =
           [booking |-> desk[d].booking,
            todo |-> TriggerCommands(desk[d].to, toDeadline, toDeparture)]]
    /\ CommitChangeStatus(d)
    /\ UNCHANGED jobs

\* queue.add with a job id that is there does nothing.
RunTrigger(g) ==
    LET next == Head(triggers[g].todo)
        job  == [booking |-> triggers[g].booking, id |-> next.id]
    IN  /\ triggers[g].todo # <<>>
        /\ jobs' = IF next.do = "add" THEN jobs \union {job} ELSE jobs \ {job}
        /\ triggers' = [triggers EXCEPT ![g].todo = Tail(@)]
        /\ UNCHANGED <<tours, bookings, payments, desk>>

\* Redis fails or the process ends; the error is only logged.
LoseTrigger(g) ==
    /\ triggers[g].todo # <<>>
    /\ triggers' = [triggers EXCEPT ![g].todo = <<>>]
    /\ UNCHANGED <<tours, bookings, payments, desk, jobs>>

MailInit ==
    /\ jobs = {}
    /\ triggers = [g \in Triggers |-> NoTrigger]

MailTypeOK ==
    /\ jobs \subseteq Job
    /\ triggers \in [Triggers -> Trigger]
=============================================================================
