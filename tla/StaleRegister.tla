------------------------------ MODULE StaleRegister ------------------------------
(***************************************************************************)
(* What the documentation of UserStatusService promises, without its caches:  *)
(* a register that is written in one place and seen in others, where what a     *)
(* reader sees is a value that the register has had in the last Bound seconds.   *)
(* "Fails open" adds one value, Default, that may be seen at any time.          *)
(***************************************************************************)
EXTENDS Naturals

CONSTANTS Value, Default, Reader, Bound

VARIABLES
  value,   \* what the register holds
  past,    \* past[k]: the values it has held k seconds ago
  view     \* view[r]: what reader r takes it to hold

vars == <<value, past, view>>

\* The values that may be seen.
Recent == {Default} \cup UNION {past[k] : k \in 0 .. Bound}

Init ==
  /\ value \in Value
  /\ past = [k \in 0 .. Bound |-> {value}]
  /\ view = [r \in Reader |-> Default]

Write ==
  /\ value' \in Value
  /\ past' = [past EXCEPT ![0] = @ \cup {value'}]
  /\ UNCHANGED view

Look ==
  /\ view' \in [Reader -> Recent]
  /\ UNCHANGED <<value, past>>

\* A second passes: what has become too old is seen no more.
Tick ==
  /\ past' = [k \in 0 .. Bound |-> IF k = 0 THEN {value} ELSE past[k - 1]]
  /\ \A r \in Reader :
       \/ view'[r] = Default
       \/ \E k \in 0 .. Bound : view'[r] \in past'[k]
  /\ view' \in [Reader -> Value]
  /\ UNCHANGED value

Next == Write \/ Look \/ Tick

Spec == Init /\ [][Next]_vars

=============================================================================
