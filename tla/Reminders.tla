---------------------------------- MODULE Reminders ----------------------------------
(***************************************************************************)
(* The daily reminders of payments, LoanPaymentReminderService, in every process of   *)
(* the API.                                                                          *)
(* A run reads the active loans once, decides which are due or overdue, and for each  *)
(* asks whether the reminder was sent today before it inserts it. Nothing moves a       *)
(* loan's next_payment_due but what is outside of this module.                         *)
(***************************************************************************)
EXTENDS Integers, Sequences

CONSTANTS
  Loan,
  MaxNotes,      \* bound on the reminders made
  Process,       \* processes of the API, each with its own cron
  LastDay        \* bound on the days that pass

VARIABLES
  today,     \* the day, in UTC
  due,       \* loans: next_payment_due of an active loan, or NotDue
  note,      \* notifications: the loan, type and day of each reminder, as they were made,
             \* and whether it was read
  job,       \* the run of each process
  doubtful   \* history: reminders whose check failed, or was made while another process
             \* stood between its own check and its insert

vars == <<today, due, note, job, doubtful>>

NotDue == -1
NoLoan == "none"
Idle   == [at |-> "idle", todo |-> {}, loan |-> NoLoan, type |-> "none"]

\* ran: the last day on which the cron of the process fired.
Init ==
  /\ today = 1
  /\ due \in [Loan -> {NotDue} \cup 1 .. LastDay + 3]
  /\ note = <<>>
  /\ job = [p \in Process |-> [run |-> Idle, ran |-> 0]]
  /\ doubtful = {}

At9(p, pc)    == job[p].run.at = pc
Runs(p, run)  == job' = [job EXCEPT ![p].run = run]
Reminder(r, d) == <<r.loan, r.type, d>>

\* The type of the reminder, by the days until the payment is due.
TypeOf(l) ==
  CASE due[l] = NotDue -> "none"
    [] due[l] - today = 3 -> "payment_reminder_3d"
    [] due[l] - today = 1 -> "payment_reminder_1d"
    [] due[l] # NotDue /\ due[l] - today < 0 -> "payment_overdue"
    [] OTHER -> "none"

Candidates == {c \in {[loan |-> l, type |-> TypeOf(l)] : l \in Loan} : c.type # "none"}

\* @Cron at nine, unless the last run has not ended; the loans may not be read.
Tick(p) ==
  /\ At9(p, "idle") /\ job[p].ran < today
  /\ \E todo \in {Candidates, {}} :
       job' = [job EXCEPT ![p] = [ran |-> today,
                 run |-> IF todo = {} THEN Idle ELSE [Idle EXCEPT !.at = "next", !.todo = todo]]]
  /\ UNCHANGED <<today, due, note, doubtful>>

\* The vendor of the next candidate is looked up first; nothing depends on it.
NextCandidate(p) ==
  LET run == job[p].run IN
  /\ At9(p, "next")
  /\ \E c \in run.todo : Runs(p, [at |-> "check", todo |-> run.todo \ {c}, loan |-> c.loan, type |-> c.type])
  /\ UNCHANGED <<today, due, note, doubtful>>

After(run) == IF run.todo = {} THEN Idle ELSE [Idle EXCEPT !.at = "next", !.todo = run.todo]

\* Mutant: only the reminders that are still unread are looked at.
UnreadToday(r, d) ==
  \E n \in DOMAIN note : note[n].loan = r.loan /\ note[n].type = r.type /\ note[n].day = d /\ ~note[n].read

SentToday(r, d) == \E n \in DOMAIN note : note[n].loan = r.loan /\ note[n].type = r.type /\ note[n].day = d

\* Other processes that are about to insert the same reminder.
AboutTo(p, r) == {q \in Process \ {p} : At9(q, "insert") /\ Reminder(job[q].run, today) = Reminder(r, today)}

\* A check that fails finds nothing.
Check(p) ==
  LET run == job[p].run IN
  /\ At9(p, "check")
  /\ \/ /\ ~SentToday(run, today)
        /\ Runs(p, [run EXCEPT !.at = "insert"])
        /\ doubtful' = IF AboutTo(p, run) = {} THEN doubtful ELSE doubtful \cup {Reminder(run, today)}
     \/ SentToday(run, today) /\ Runs(p, After(run)) /\ UNCHANGED doubtful
     \/ /\ Runs(p, [run EXCEPT !.at = "insert"])
        /\ doubtful' = doubtful \cup {Reminder(run, today)}
  /\ UNCHANGED <<today, due, note>>

\* created_at is the time of the insert, not of the check.
Insert(p) ==
  LET run == job[p].run IN
  /\ At9(p, "insert")
  /\ \/ /\ Len(note) < MaxNotes
        /\ note' = Append(note, [loan |-> run.loan, type |-> run.type, day |-> today, read |-> FALSE])
     \/ UNCHANGED note   \* counted as failed
  /\ Runs(p, After(run))
  /\ UNCHANGED <<today, due, doubtful>>

-----------------------------------------------------------------------------
\* NotificationsService, for the wallet of the loans. A row is never unread again, so
\* that the look-up and the update of markAsRead are one step.

MarkAsRead(n) ==
  /\ ~note[n].read
  /\ note' = [note EXCEPT ![n].read = TRUE]
  /\ UNCHANGED <<today, due, job, doubtful>>

MarkAllAsRead ==
  /\ \E n \in DOMAIN note : ~note[n].read
  /\ note' = [n \in DOMAIN note |-> [note[n] EXCEPT !.read = TRUE]]
  /\ UNCHANGED <<today, due, job, doubtful>>

-----------------------------------------------------------------------------
\* The world

\* A loan is activated, completed or renewed.
LoanChanges(l) ==
  /\ \E d \in {NotDue} \cup 1 .. LastDay + 3 : due' = [due EXCEPT ![l] = d]
  /\ UNCHANGED <<today, note, job, doubtful>>

\* A run is over long before midnight: it starts at nine.
DayPasses ==
  /\ today < LastDay
  /\ \A p \in Process : At9(p, "idle")
  /\ today' = today + 1
  /\ UNCHANGED <<due, note, job, doubtful>>

Stops(p) ==
  /\ Runs(p, Idle)
  /\ UNCHANGED <<today, due, note, doubtful>>

Next ==
  \/ \E p \in Process : Tick(p) \/ NextCandidate(p) \/ Check(p) \/ Insert(p) \/ Stops(p)
  \/ \E n \in DOMAIN note : MarkAsRead(n)
  \/ MarkAllAsRead
  \/ \E l \in Loan : LoanChanges(l)
  \/ DayPasses

Spec == Init /\ [][Next]_vars

-----------------------------------------------------------------------------
\* Properties

\* A reminder is sent once a day, however many processes run the job: unless the check
\* failed, or two processes made it before either had inserted.
ReminderOnceADay ==
  \A m, n \in DOMAIN note :
    m # n /\ Reminder(note[m], note[m].day) = Reminder(note[n], note[n].day) => Reminder(note[m], note[m].day) \in doubtful
=============================================================================
