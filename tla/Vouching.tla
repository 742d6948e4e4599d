---------------------------------- MODULE Vouching ----------------------------------
(***************************************************************************)
(* Vouches of mentors for learners, VouchingService: a learner requests one, the    *)
(* mentor approves or revokes it. Each operation reads first and writes by the id    *)
(* or without a condition; no index and no lock stands between two of them.          *)
(* expires_at is written and read by nothing else: a vouch does not expire.          *)
(***************************************************************************)
EXTENDS Naturals, FiniteSets

CONSTANTS
  Pair,    \* a mentor and a learner
  Vouch,   \* ids of rows: bounds how many are ever made
  Actor    \* slots for concurrent calls

VARIABLES
  vouch,       \* vouches: pair and status, or NoVouch
  turn,        \* calls in progress
  overtaken,   \* history: vouches revoked while an approval of them was under way
  crossed      \* history: pairs two of whose requests overlapped

vars == <<vouch, turn, overtaken, crossed>>

NoPair  == "nobody"
NoVouch == [pair |-> NoPair, status |-> "none"]
NoTurn  == [at |-> "done", op |-> "request", pair |-> NoPair, id |-> NoPair]

Init ==
  /\ vouch = [v \in Vouch |-> NoVouch]
  /\ turn = [a \in Actor |-> NoTurn]
  /\ overtaken = {} /\ crossed = {}

Of(p, statuses) == {v \in Vouch : vouch[v].pair = p /\ vouch[v].status \in statuses}

\* Mutant: a vouch that is approved already does not stand in the way.
PendingStatuses == {"pending"}

ACTIVE_STATUSES == {"pending", "approved"}

Takes(a, op, pc) == turn[a].op = op /\ turn[a].at = pc
Ends(a) == turn' = [turn EXCEPT ![a] = NoTurn]   \* with whatever answer
Requesting(p) == {a \in Actor : turn[a].op = "request" /\ turn[a].at # "done" /\ turn[a].pair = p}

Begins(a) ==
  /\ turn[a].at = "done"
  /\ \/ \E p \in Pair, op \in {"request", "approve"} :
          /\ turn' = [turn EXCEPT ![a] = [NoTurn EXCEPT !.at = "find", !.op = op, !.pair = p]]
          /\ crossed' = IF op = "request" /\ Requesting(p) # {} THEN crossed \cup {p} ELSE crossed
     \/ \E p \in Pair, v \in Vouch :
          /\ turn' = [turn EXCEPT ![a] = [at |-> "find", op |-> "revoke", pair |-> p, id |-> v]]
          /\ UNCHANGED crossed
  /\ UNCHANGED <<vouch, overtaken>>

\* Any read may fail, and an active vouch is a conflict.
FindActive(a) ==
  /\ Takes(a, "request", "find")
  /\ \/ Of(turn[a].pair, ACTIVE_STATUSES) = {} /\ turn' = [turn EXCEPT ![a].at = "write"]
     \/ Ends(a)
  /\ UNCHANGED <<vouch, overtaken, crossed>>

InsertVouch(a) ==
  /\ Takes(a, "request", "write")
  /\ \/ \E v \in Vouch : vouch[v] = NoVouch
                         /\ vouch' = [vouch EXCEPT ![v] = [pair |-> turn[a].pair, status |-> "pending"]]
     \/ UNCHANGED vouch
  /\ Ends(a)
  /\ UNCHANGED <<overtaken, crossed>>

\* Mutant: the status is not asked for.
AnyOf(p) == {v \in Vouch : vouch[v].pair = p}

PendingOf(p) == Of(p, {"pending"})

\* maybeSingle: two rows are an error.
FindPending(a) ==
  LET pending == PendingOf(turn[a].pair) IN
  /\ Takes(a, "approve", "find")
  /\ \/ /\ Cardinality(pending) = 1
        /\ \E v \in pending : turn' = [turn EXCEPT ![a].at = "write", ![a].id = v]
     \/ Ends(a)
  /\ UNCHANGED <<vouch, overtaken, crossed>>

\* The update is by the id: it writes whatever the status is by now.
ApproveVouch(a) ==
  /\ Takes(a, "approve", "write")
  /\ vouch' \in {vouch, [vouch EXCEPT ![turn[a].id].status = "approved"]}
  /\ Ends(a)
  /\ UNCHANGED <<overtaken, crossed>>

\* The mentor who revokes must be the vouch's own; the status does not matter.
FindVouch(a) ==
  /\ Takes(a, "revoke", "find")
  /\ \/ vouch[turn[a].id].pair = turn[a].pair /\ turn' = [turn EXCEPT ![a].at = "write"]
     \/ Ends(a)
  /\ UNCHANGED <<vouch, overtaken, crossed>>

Approving(v) == {a \in Actor : Takes(a, "approve", "write") /\ turn[a].id = v}

RevokeVouch(a) ==
  LET v == turn[a].id IN
  /\ Takes(a, "revoke", "write")
  /\ \/ /\ vouch' = [vouch EXCEPT ![v].status = "revoked"]
        /\ overtaken' = IF Approving(v) # {} THEN overtaken \cup {v} ELSE overtaken
     \/ UNCHANGED <<vouch, overtaken>>
  /\ Ends(a)
  /\ UNCHANGED crossed

Next ==
  \E a \in Actor :
    \/ Begins(a) \/ FindActive(a) \/ InsertVouch(a) \/ FindPending(a)
    \/ ApproveVouch(a) \/ FindVouch(a) \/ RevokeVouch(a)

Spec == Init /\ [][Next]_vars

-----------------------------------------------------------------------------
\* Properties

\* Between a mentor and a learner there is at most one active vouch, as requestVouch
\* means to see to -- unless two requests overlapped, or one of their vouches was
\* revoked while its approval was under way and came back.
OneActiveVouch ==
  \A p \in Pair \ crossed :
    {v \in overtaken : vouch[v].pair = p} = {} =>
      Cardinality(Of(p, {"pending", "approved"})) <= 1

\* A vouch that its mentor has revoked stays revoked, unless an approval of it was
\* under way when it was.
RevokedStaysRevoked ==
  [][\A v \in Vouch \ overtaken : vouch[v].status = "revoked" => vouch'[v].status = "revoked"]_vars
=============================================================================
