------------------------------ MODULE SessionsProofs ------------------------------
(* Theorems about Sessions, for every value of its constants.                *)
EXTENDS Sessions, FiniteSetTheorems, TLAPS

\* What a request holds at each of its steps.
LocalsOK ==
  \A s \in Slot :
    /\ req[s].pc \in {"delete", "revoke", "insert"} => req[s].fam \in Fam
    /\ req[s].pc = "claim" => req[s].nonce \in Nonce
    /\ req[s].pc \in {"idle", "claim"} => req[s].fam = None

TypeInv == TypeOK /\ LocalsOK

LEMMA IdleType == Idle \in Request
  BY ConstantsAssumption DEF Idle, Request, Second

LEMMA TypeInit == Init => TypeInv
  <1> SUFFICES ASSUME Init PROVE TypeInv
    OBVIOUS
  <1>1. req \in [Slot -> Request]
    BY IdleType DEF Init
  <1>2. LocalsOK
    BY DEF Init, LocalsOK, Idle
  <1>3. now \in Second /\ deadline \in Second
    BY ConstantsAssumption DEF Init, Second
  <1> QED
    BY <1>1, <1>2, <1>3 DEF Init, TypeInv, TypeOK, NonceState

LEMMA TypeVerify ==
  ASSUME TypeInv, NEW s \in Slot, VerifyNext(s)
  PROVE  TypeInv'
  <1> USE IdleType DEF TypeInv, TypeOK, NonceState, tables, clock, client, family
  <1>1. ASSUME NEW n \in Nonce, VerifySelect(s, n) PROVE TypeInv'
    <2>1. req' \in [Slot -> Request]
      <3>1. req \in [Slot -> Request] /\ [req[s] EXCEPT !.pc = "claim", !.nonce = n] \in Request
        BY DEF Request
      <3> HIDE DEF TypeInv, TypeOK
      <3> QED
        BY <1>1, <3>1 DEF VerifySelect
    <2>2. LocalsOK'
      BY <1>1 DEF VerifySelect, LocalsOK, Request
    <2> QED
      BY <1>1, <2>1, <2>2 DEF VerifySelect
  <1>2. CASE VerifyClaim(s)
    <2>1. req' \in [Slot -> Request]
      BY <1>2 DEF VerifyClaim, Done, Request
    <2>2. LocalsOK'
      BY <1>2 DEF VerifyClaim, Done, LocalsOK, Request, Idle
    <2>3. nonces' \in [Nonce -> NonceState] /\ verified' \in [Nonce -> Nat]
      BY <1>2 DEF VerifyClaim
    <2> QED
      BY <1>2, <2>1, <2>2, <2>3 DEF VerifyClaim
  <1>3. CASE VerifyClaimFails(s)
    <2>1. LocalsOK'
      BY <1>3 DEF VerifyClaimFails, Done, LocalsOK, Request, Idle
    <2>2. nonces' \in [Nonce -> NonceState]
      BY <1>3 DEF VerifyClaimFails
    <2> QED
      BY <1>3, <2>1, <2>2 DEF VerifyClaimFails, Done, Fault
  <1> QED
    BY <1>1, <1>2, <1>3 DEF VerifyNext

LEMMA TypeRefresh ==
  ASSUME TypeInv, NEW s \in Slot, RefreshNext(s)
  PROVE  TypeInv'
  <1> USE IdleType DEF TypeInv, TypeOK, tables, clock, client, family
  <1>1. ASSUME NEW t \in Token, RefreshSelect(s, t) PROVE TypeInv'
    <2>1. t.fam \in Fam /\ \A r \in RowsOf(t) : r.id \in Nat
      BY DEF Token, RowsOf, Session
    <2>2. req' \in [Slot -> Request] /\ LocalsOK'
      BY <1>1, <2>1 DEF RefreshSelect, LocalsOK, Request
    <2>3. unspent' \in [Token -> Nat] /\ replayed' \in SUBSET Fam /\ asks' \in Nat
          /\ held' = held
      BY <1>1, <2>1 DEF RefreshSelect, Present
    <2> QED
      BY <1>1, <2>2, <2>3 DEF RefreshSelect
  <1>2. ASSUME NEW t \in Token, RefreshSelectFails(s, t) PROVE TypeInv'
    <2>1. t.fam \in Fam
      BY DEF Token
    <2>2. req' \in [Slot -> Request] /\ LocalsOK'
      BY <1>2, <2>1 DEF RefreshSelectFails, LocalsOK, Request
    <2>3. unspent' \in [Token -> Nat] /\ replayed' \in SUBSET Fam /\ asks' \in Nat
          /\ held' = held
      BY <1>2, <2>1 DEF RefreshSelectFails, Present
    <2> QED
      BY <1>2, <2>1, <2>2, <2>3 DEF RefreshSelectFails, Fault
  <1>3. CASE RefreshDelete(s) \/ RefreshDeleteFails(s)
    <2>1. req' \in [Slot -> Request] /\ LocalsOK' /\ req[s].fam \in Fam
      BY <1>3 DEF RefreshDelete, RefreshDeleteFails, LocalsOK, Request
    <2> QED
      BY <1>3, <2>1 DEF RefreshDelete, RefreshDeleteFails, Fault
  <1>4. CASE Revoke(s) \/ RevokeFails(s)
    <2>1. req' \in [Slot -> Request] /\ LocalsOK' /\ req[s].fam \in Fam
      BY <1>4 DEF Revoke, RevokeFails, Done, LocalsOK, Request, Idle
    <2> QED
      BY <1>4, <2>1 DEF Revoke, RevokeFails, Fault
  <1> QED
    BY <1>1, <1>2, <1>3, <1>4 DEF RefreshNext

LEMMA TypeToken ==
  ASSUME TypeInv, NEW s \in Slot, TokenNext(s)
  PROVE  TypeInv'
  <1> USE IdleType DEF TypeInv, TypeOK, tables, clock, client, family, Lost
  <1>0. req[s].fam \in Fam \cup {None} /\ req[s].sec \in Second
    BY DEF Request
  <1>1. CASE TokenUser(s) \/ TokenUserFails(s)
    <2>1. req' \in [Slot -> Request] /\ LocalsOK'
      BY <1>1 DEF TokenUser, TokenUserFails, Done, LocalsOK, Request, Idle
    <2> QED
      BY <1>1, <2>1, <1>0 DEF TokenUser, TokenUserFails, Fault
  <1>2. CASE TokenSign(s)
    <2>1. PICK f \in Fam :
            /\ req' = [req EXCEPT ![s].pc = "insert", ![s].fam = f, ![s].sec = now]
            /\ opened' \in SUBSET Fam
      <3>1. CASE req[s].fam = None
        BY <1>2, <3>1 DEF TokenSign
      <3>2. CASE req[s].fam # None
        <4>1. req' = [req EXCEPT ![s].pc = "insert", ![s].sec = now] /\ opened' = opened
          BY <1>2, <3>2 DEF TokenSign
        <4>2. req' = [req EXCEPT ![s].pc = "insert", ![s].fam = req[s].fam, ![s].sec = now]
          BY <4>1 DEF Request
        <4> QED
          BY <4>1, <4>2, <3>2, <1>0
      <3> QED
        BY <3>1, <3>2
    <2>2. req' \in [Slot -> Request]
      <3>1. req \in [Slot -> Request] /\ now \in Second
        OBVIOUS
      <3> HIDE DEF TypeInv, TypeOK, tables, clock, client, family, Lost
      <3>2. ASSUME NEW g \in Fam, NEW r \in Request
            PROVE  [r EXCEPT !.pc = "insert", !.fam = g, !.sec = now] \in Request
        BY <3>1 DEF Request
      <3> QED
        BY <2>1, <3>1, <3>2
    <2>3. LocalsOK'
      <3>1. req'[s].pc = "insert" /\ req'[s].fam \in Fam
        BY <2>1 DEF Request
      <3>2. \A q \in Slot \ {s} : req'[q] = req[q]
        BY <2>1
      <3> QED
        BY <3>1, <3>2 DEF LocalsOK
    <2> QED
      BY <1>2, <2>1, <2>2, <2>3 DEF TokenSign
  <1>3. CASE TokenInsert(s) \/ TokenInsertUnanswered(s)
    <2>1. req[s].fam \in Fam
      BY <1>3 DEF TokenInsert, TokenInsertUnanswered, LocalsOK
    <2>2. /\ [fam |-> req[s].fam, sec |-> req[s].sec] \in Token
          /\ [id |-> nextId, fam |-> req[s].fam, sec |-> req[s].sec] \in Session
      BY <2>1, <1>0 DEF Token, Session
    <2>3. req' \in [Slot -> Request] /\ LocalsOK'
      BY <1>3 DEF TokenInsert, TokenInsertUnanswered, Store, Done, LocalsOK, Request, Idle
    <2>4. sessions' \in SUBSET Session /\ nextId' \in Nat
      BY <1>3, <2>2 DEF TokenInsert, TokenInsertUnanswered, Store
    <2>5. held' \in SUBSET Token /\ unspent' \in [Token -> Nat]
      BY <1>3, <2>2 DEF TokenInsert, TokenInsertUnanswered
    <2> QED
      BY <1>3, <2>1, <2>3, <2>4, <2>5 DEF TokenInsert, TokenInsertUnanswered, Fault
  <1>4. CASE TokenInsertFails(s)
    <2>1. req' \in [Slot -> Request] /\ LocalsOK'
      BY <1>4 DEF TokenInsertFails, Done, LocalsOK, Request, Idle
    <2> QED
      BY <1>4, <2>1, <1>0 DEF TokenInsertFails, Fault
  <1> QED
    BY <1>1, <1>2, <1>3, <1>4 DEF TokenNext

LEMMA TypeEnv == TypeInv /\ EnvNext => TypeInv'
  <1> SUFFICES ASSUME TypeInv, EnvNext PROVE TypeInv'
    OBVIOUS
  <1> USE IdleType DEF TypeInv, TypeOK, tables, clock, client, family
  <1>1. ASSUME NEW n \in Nonce, IssueNonce(n) \/ NonceExpires(n) PROVE TypeInv'
    BY <1>1 DEF IssueNonce, NonceExpires, LocalsOK, NonceState
  <1>2. CASE NonceCleanup \/ SessionCleanup
    BY <1>2 DEF NonceCleanup, SessionCleanup, LocalsOK, NonceState
  <1>3. CASE Block
    BY <1>3 DEF Block, LocalsOK
  <1>4. CASE Tick \/ SevenDays
    <2>1. now' \in Second /\ deadline' \in Second
      BY <1>4, ConstantsAssumption DEF Tick, SevenDays, Second
    <2> QED
      BY <1>4, <2>1 DEF Tick, SevenDays, LocalsOK
  <1>5. CASE Crash
    <2>1. \A s \in Slot : req[s].fam \in Fam \cup {None}
      BY DEF Request
    <2> QED
      BY <1>5, <2>1 DEF Crash, Fault, LocalsOK, Idle
  <1> QED
    BY <1>1, <1>2, <1>3, <1>4, <1>5 DEF EnvNext

LEMMA TypeStep == TypeInv /\ [Next]_vars => TypeInv'
  <1> SUFFICES ASSUME TypeInv, [Next]_vars PROVE TypeInv'
    OBVIOUS
  <1>1. CASE UNCHANGED vars
    BY <1>1 DEF TypeInv, TypeOK, LocalsOK, vars, clock, client, family
  <1> QED
    BY <1>1, TypeVerify, TypeRefresh, TypeToken, TypeEnv DEF Next

\* Every variable keeps its type; what is stored as a session always belongs to a
\* family.
THEOREM TypeCorrect == Spec => []TypeOK
  <1>1. Spec => []TypeInv
    BY TypeInit, TypeStep, PTL DEF Spec
  <1>2. TypeInv => TypeOK
    BY DEF TypeInv
  <1> QED
    BY <1>1, <1>2, PTL

-----------------------------------------------------------------------------
(* The inductive invariant.                                                  *)

\* A nonce that no request has claimed was not verified.
NonceInv == \A n \in Nonce : verified[n] \in {0, 1}
                             /\ (nonces[n] \in {"none", "unused"} => verified[n] = 0)

\* Whatever mentions a family mentions one that a login has drawn.
OpenedInv ==
  /\ \A s \in Slot : req[s].fam # None => req[s].fam \in opened
  /\ \A t \in held : t.fam \in opened
  /\ \A r \in sessions : r.fam \in opened
  /\ revoked \subseteq opened /\ contained \subseteq opened

\* A family that was revoked in peace has neither a session nor an exchange that
\* would store one.
ContainedInv == \A f \in contained : SessionsOf(f) = {} /\ ~Exchanging(f)

\* The id by which a refresh deletes belongs to a row of its own family.
IdInv ==
  /\ \A r \in sessions : r.id < nextId
  /\ \A r1, r2 \in sessions : r1.id = r2.id => r1 = r2
  /\ \A s \in Slot : req[s].pc = "delete" =>
       /\ req[s].id < nextId
       /\ \A r \in sessions : r.id = req[s].id => r.fam = req[s].fam

Holds(f, t) == t.fam = f /\ unspent[t] > 0

\* A family of a client that presents each token once, without a fault: either one
\* request exchanges its token, and the client has none, or the client has one
\* token, and its row is the only one.
Honest(f) ==
  /\ f \notin revoked
  /\ \A s \in Slot : req[s].fam = f => req[s].pc # "revoke"
  /\ \A s, z \in Slot : req[s].fam = f /\ req[z].fam = f => s = z
  /\ \A s \in Slot, t \in Token : req[s].fam = f => ~Holds(f, t)
  /\ \A s \in Slot : req[s].fam = f =>
       \A r \in SessionsOf(f) : req[s].pc = "delete" /\ r.id = req[s].id
  /\ \A t, u \in Token : Holds(f, t) /\ Holds(f, u) => t = u
  /\ \A t \in Token : Holds(f, t) =>
       /\ unspent[t] = 1
       /\ \A r1, r2 \in SessionsOf(f) : r1 = r2
       /\ t.sec >= deadline => \E r \in SessionsOf(f) : r.sec = t.sec

\* The client has no token that it did not receive.
HeldInv == \A t \in Token : unspent[t] > 0 => t \in held

HonestInv == HeldInv /\ \A f \in Fam \ (replayed \cup disturbed) : Honest(f)

ClockInv == deadline <= now

SafeInv == TypeInv /\ ClockInv /\ NonceInv /\ OpenedInv /\ ContainedInv /\ IdInv /\ HonestInv

LEMMA SafeInit == Init => SafeInv
  <1> SUFFICES ASSUME Init PROVE SafeInv
    OBVIOUS
  <1>1. NonceInv /\ OpenedInv /\ ContainedInv /\ IdInv /\ ClockInv
    BY DEF Init, Idle, NonceInv, OpenedInv, ContainedInv, IdInv, ClockInv, SessionsOf, Exchanging
  <1>2. HonestInv
    BY ConstantsAssumption DEF Init, Idle, HonestInv, HeldInv, Honest, Holds, SessionsOf
  <1> QED
    BY <1>1, <1>2, TypeInit DEF SafeInv

-----------------------------------------------------------------------------
(* Nonces.                                                                   *)

\* The other actions touch neither the nonces nor the count of verifications.
LEMMA NonceFrame ==
  ASSUME NEW s \in Slot, RefreshNext(s) \/ TokenNext(s)
  PROVE  UNCHANGED <<nonces, verified>>
  BY DEF RefreshNext, TokenNext, RefreshSelect, RefreshSelectFails, RefreshDelete,
         RefreshDeleteFails, Revoke, RevokeFails, TokenUser, TokenUserFails, TokenSign,
         TokenInsert, TokenInsertUnanswered, TokenInsertFails, tables

LEMMA NonceStep == TypeInv /\ NonceInv /\ [Next]_vars => NonceInv'
  <1> SUFFICES ASSUME TypeInv, NonceInv, [Next]_vars PROVE NonceInv'
    OBVIOUS
  <1> USE DEF NonceInv
  <1>1. CASE UNCHANGED <<nonces, verified>>
    BY <1>1
  <1>2. ASSUME NEW s \in Slot, VerifyNext(s) PROVE NonceInv'
    <2>1. CASE \E n \in Nonce : VerifySelect(s, n)
      BY <2>1 DEF VerifySelect, tables
    <2>2. CASE VerifyClaim(s)
      <3>1. req[s].nonce \in Nonce /\ nonces \in [Nonce -> NonceState]
            /\ verified \in [Nonce -> Nat]
        BY <2>2 DEF VerifyClaim, TypeInv, LocalsOK, TypeOK
      <3> QED
        BY <2>2, <3>1 DEF VerifyClaim
    <2>3. CASE VerifyClaimFails(s)
      <3>1. nonces \in [Nonce -> NonceState]
        BY DEF TypeInv, TypeOK
      <3> QED
        BY <2>3, <3>1 DEF VerifyClaimFails
    <2> QED
      BY <1>2, <2>1, <2>2, <2>3 DEF VerifyNext
  <1>3. ASSUME EnvNext PROVE NonceInv'
    <2>1. nonces \in [Nonce -> NonceState] /\ expired \in SUBSET Nonce
      BY DEF TypeInv, TypeOK
    <2> QED
      BY <1>3, <2>1 DEF EnvNext, IssueNonce, NonceExpires, NonceCleanup, SessionCleanup,
                        Block, Tick, SevenDays, Crash, tables
  <1> QED
    BY <1>1, <1>2, <1>3, NonceFrame DEF Next, vars

-----------------------------------------------------------------------------
(* Families and rows.                                                        *)

LEMMA ClockStep == TypeInv /\ ClockInv /\ [Next]_vars => ClockInv'
  <1> SUFFICES ASSUME TypeInv, ClockInv, [Next]_vars PROVE ClockInv'
    OBVIOUS
  <1>1. now \in Nat /\ deadline \in Nat
    BY ConstantsAssumption DEF TypeInv, TypeOK, Second
  <1>2. CASE UNCHANGED <<now, deadline>>
    BY <1>2 DEF ClockInv
  <1>3. CASE Tick \/ SevenDays
    BY <1>1, <1>3 DEF ClockInv, Tick, SevenDays
  <1>4. ASSUME NEW s \in Slot, VerifyNext(s) \/ RefreshNext(s) \/ TokenNext(s)
        PROVE  UNCHANGED <<now, deadline>>
    BY <1>4 DEF VerifyNext, VerifySelect, VerifyClaim, VerifyClaimFails, RefreshNext,
                TokenNext, RefreshSelect, RefreshSelectFails, RefreshDelete,
                RefreshDeleteFails, Revoke, RevokeFails, TokenUser, TokenUserFails,
                TokenSign, TokenInsert, TokenInsertUnanswered, TokenInsertFails, clock
  <1> QED
    BY <1>2, <1>3, <1>4 DEF Next, EnvNext, IssueNonce, NonceExpires, NonceCleanup,
                            SessionCleanup, Block, Crash, vars, clock

\* A family enters a request from a token that the client holds or by being drawn.
LEMMA OpenedStep == TypeInv /\ OpenedInv /\ [Next]_vars => OpenedInv'
  <1> SUFFICES ASSUME TypeInv, OpenedInv, [Next]_vars PROVE OpenedInv'
    OBVIOUS
  <1>0. req \in [Slot -> Request]
    BY DEF TypeInv, TypeOK
  <1> USE <1>0 DEF OpenedInv, tables, clock, client, family, Done, Idle
  <1>1. CASE UNCHANGED vars
    BY <1>1 DEF vars
  <1>2. ASSUME NEW s \in Slot, VerifyNext(s) PROVE OpenedInv'
    BY <1>2 DEF VerifyNext, VerifySelect, VerifyClaim, VerifyClaimFails, Request
  <1>3. ASSUME NEW s \in Slot, RefreshNext(s) PROVE OpenedInv'
    <2>1. ASSUME NEW t \in Token, RefreshSelect(s, t) \/ RefreshSelectFails(s, t)
          PROVE  OpenedInv'
      <3>1. t.fam \in opened
        BY <2>1 DEF RefreshSelect, RefreshSelectFails, Present
      <3> QED
        BY <2>1, <3>1 DEF RefreshSelect, RefreshSelectFails, Present, Request
    <2>2. CASE RefreshDelete(s) \/ RefreshDeleteFails(s)
      BY <2>2 DEF RefreshDelete, RefreshDeleteFails, Request
    <2>3. CASE Revoke(s)
      <3>1. req[s].fam \in opened
        BY <2>3, ConstantsAssumption DEF Revoke, TypeInv, LocalsOK
      <3> QED
        BY <2>3, <3>1 DEF Revoke, Request
    <2>4. CASE RevokeFails(s)
      BY <2>4 DEF RevokeFails
    <2> QED
      BY <1>3, <2>1, <2>2, <2>3, <2>4 DEF RefreshNext
  <1>4. ASSUME NEW s \in Slot, TokenNext(s) PROVE OpenedInv'
    <2>1. CASE TokenUser(s) \/ TokenUserFails(s) \/ TokenInsertFails(s)
      BY <2>1 DEF TokenUser, TokenUserFails, TokenInsertFails, Request
    <2>2. CASE TokenSign(s)
      <3>1. CASE req[s].fam = None
        <4>1. PICK f \in Fam : /\ opened' = opened \cup {f}
                               /\ req' = [req EXCEPT ![s].pc = "insert", ![s].fam = f, ![s].sec = now]
          BY <2>2, <3>1 DEF TokenSign
        <4>2. req'[s].fam = f /\ \A q \in Slot \ {s} : req'[q] = req[q]
          BY <4>1 DEF Request
        <4>3. UNCHANGED <<held, sessions, revoked, contained>>
          BY <2>2 DEF TokenSign
        <4> QED
          BY <4>1, <4>2, <4>3
      <3>2. CASE req[s].fam # None
        BY <2>2, <3>2 DEF TokenSign, Request
      <3> QED
        BY <3>1, <3>2
    <2>3. CASE TokenInsert(s) \/ TokenInsertUnanswered(s)
      <3>1. req[s].fam \in opened
        BY <2>3, ConstantsAssumption DEF TokenInsert, TokenInsertUnanswered, TypeInv, LocalsOK
      <3> QED
        BY <2>3, <3>1 DEF TokenInsert, TokenInsertUnanswered, Store
    <2> QED
      BY <1>4, <2>1, <2>2, <2>3 DEF TokenNext
  <1>5. ASSUME EnvNext PROVE OpenedInv'
    BY <1>5 DEF EnvNext, IssueNonce, NonceExpires, NonceCleanup, SessionCleanup, Block, Tick,
                SevenDays, Crash
  <1> QED
    BY <1>1, <1>2, <1>3, <1>4, <1>5 DEF Next

\* A request on a family without rows can only revoke it, and a login never draws a
\* family that was drawn before.
LEMMA ContainedStep == TypeInv /\ OpenedInv /\ ContainedInv /\ [Next]_vars => ContainedInv'
  <1> SUFFICES ASSUME TypeInv, OpenedInv, ContainedInv, [Next]_vars, NEW f \in contained'
               PROVE  (SessionsOf(f) = {} /\ ~Exchanging(f))'
    BY DEF ContainedInv
  <1>0. req \in [Slot -> Request] /\ contained \subseteq opened /\ contained \subseteq Fam
    BY DEF TypeInv, TypeOK, OpenedInv
  <1>1. ASSUME NEW s \in Slot, Revoke(s), f \notin contained
        PROVE  (SessionsOf(f) = {} /\ ~Exchanging(f))'
    <2>1. f = req[s].fam /\ ~Exchanging(f)
      BY <1>1 DEF Revoke
    <2> QED
      BY <1>0, <1>1, <2>1 DEF Revoke, Done, Idle, SessionsOf, Exchanging
  <1>2. CASE f \in contained
    <2>0. f # None /\ f \in opened
      BY <1>0, <1>2, ConstantsAssumption
    <2>1. SessionsOf(f) = {} /\ ~Exchanging(f)
      BY <1>2 DEF ContainedInv
    <2> USE <1>0, <2>0, <2>1 DEF SessionsOf, Exchanging, tables, clock, client, family, Done, Idle
    <2>2. CASE UNCHANGED vars
      BY <2>2 DEF vars
    <2>3. ASSUME NEW s \in Slot, VerifyNext(s)
          PROVE  (SessionsOf(f) = {} /\ ~Exchanging(f))'
      <3>1. req[s].pc \in {"idle", "claim"} /\ req[s].fam = None
        BY <2>3 DEF VerifyNext, VerifySelect, VerifyClaim, VerifyClaimFails, TypeInv, LocalsOK
      <3> QED
        BY <2>3, <3>1 DEF VerifyNext, VerifySelect, VerifyClaim, VerifyClaimFails, Request
    <2>4. ASSUME NEW s \in Slot, RefreshNext(s)
          PROVE  (SessionsOf(f) = {} /\ ~Exchanging(f))'
      <3>1. ASSUME NEW t \in Token, RefreshSelect(s, t)
            PROVE  (SessionsOf(f) = {} /\ ~Exchanging(f))'
        BY <3>1 DEF RefreshSelect, RowsOf, Request
      <3>2. ASSUME NEW t \in Token, RefreshSelectFails(s, t)
            PROVE  (SessionsOf(f) = {} /\ ~Exchanging(f))'
        BY <3>2 DEF RefreshSelectFails
      <3>3. CASE RefreshDelete(s) \/ RefreshDeleteFails(s)
        BY <3>3 DEF RefreshDelete, RefreshDeleteFails, Request
      <3>4. CASE Revoke(s) \/ RevokeFails(s)
        BY <3>4 DEF Revoke, RevokeFails
      <3> QED
        BY <2>4, <3>1, <3>2, <3>3, <3>4 DEF RefreshNext
    <2>5. ASSUME NEW s \in Slot, TokenNext(s)
          PROVE  (SessionsOf(f) = {} /\ ~Exchanging(f))'
      <3>1. CASE TokenUser(s) \/ TokenUserFails(s) \/ TokenInsertFails(s)
        BY <3>1 DEF TokenUser, TokenUserFails, TokenInsertFails, Request
      <3>2. CASE TokenSign(s)
        <4>1. CASE req[s].fam = None
          <5>1. PICK g \in Fam \ opened :
                  req' = [req EXCEPT ![s].pc = "insert", ![s].fam = g, ![s].sec = now]
            BY <3>2, <4>1 DEF TokenSign
          <5>2. sessions' = sessions /\ g # f
            BY <3>2 DEF TokenSign
          <5> QED
            BY <5>1, <5>2 DEF Request
        <4>2. CASE req[s].fam # None
          BY <3>2, <4>2 DEF TokenSign, Request
        <4> QED
          BY <4>1, <4>2
      <3>3. CASE TokenInsert(s) \/ TokenInsertUnanswered(s)
        BY <3>3 DEF TokenInsert, TokenInsertUnanswered, Store
      <3> QED
        BY <2>5, <3>1, <3>2, <3>3 DEF TokenNext
    <2>6. ASSUME EnvNext PROVE (SessionsOf(f) = {} /\ ~Exchanging(f))'
      BY <2>6 DEF EnvNext, IssueNonce, NonceExpires, NonceCleanup, SessionCleanup, Block,
                  Tick, SevenDays, Crash
    <2> QED
      BY <2>2, <2>3, <2>4, <2>5, <2>6 DEF Next
  <1>3. ASSUME f \notin contained PROVE \E s \in Slot : Revoke(s)
    <2> USE DEF family
    <2>1. ASSUME NEW s \in Slot, VerifyNext(s) PROVE contained' = contained
      BY <2>1 DEF VerifyNext, VerifySelect, VerifyClaim, VerifyClaimFails
    <2>2. ASSUME NEW s \in Slot, RefreshNext(s), ~Revoke(s) PROVE contained' = contained
      BY <2>2 DEF RefreshNext, RefreshSelect, RefreshSelectFails, RefreshDelete,
                  RefreshDeleteFails, RevokeFails
    <2>3. ASSUME NEW s \in Slot, TokenNext(s) PROVE contained' = contained
      BY <2>3 DEF TokenNext, TokenUser, TokenUserFails, TokenSign, TokenInsert,
                  TokenInsertUnanswered, TokenInsertFails
    <2>4. CASE EnvNext
      BY <2>4, <1>3 DEF EnvNext, IssueNonce, NonceExpires, NonceCleanup, SessionCleanup,
                        Block, Tick, SevenDays, Crash
    <2>5. CASE UNCHANGED vars
      BY <2>5, <1>3 DEF vars
    <2> QED
      BY <1>3, <2>1, <2>2, <2>3, <2>4, <2>5 DEF Next
  <1> QED
    BY <1>1, <1>2, <1>3

\* Ids are drawn in sequence, and a row keeps its id and its family for life.
LEMMA IdStep == TypeInv /\ IdInv /\ [Next]_vars => IdInv'
  <1> SUFFICES ASSUME TypeInv, IdInv, [Next]_vars PROVE IdInv'
    OBVIOUS
  <1>0. req \in [Slot -> Request] /\ nextId \in Nat /\ sessions \in SUBSET Session
    BY DEF TypeInv, TypeOK
  <1>1. \A r \in sessions : r.id \in Nat
    BY <1>0 DEF Session
  <1> USE <1>0, <1>1 DEF IdInv, tables, clock, client, family, Done, Idle
  <1>2. CASE UNCHANGED vars
    BY <1>2 DEF vars
  <1>3. ASSUME NEW s \in Slot, VerifyNext(s) PROVE IdInv'
    BY <1>3 DEF VerifyNext, VerifySelect, VerifyClaim, VerifyClaimFails, Request
  <1>4. ASSUME NEW s \in Slot, RefreshNext(s) PROVE IdInv'
    <2>1. ASSUME NEW t \in Token, RefreshSelect(s, t) PROVE IdInv'
      <3>1. UNCHANGED <<sessions, nextId>>
        BY <2>1 DEF RefreshSelect
      <3>2. CASE \E r \in RowsOf(t) :
                   req' = [req EXCEPT ![s].pc = "delete", ![s].fam = t.fam, ![s].id = r.id]
        BY <3>1, <3>2 DEF RowsOf, Request
      <3>3. CASE req' = [req EXCEPT ![s].pc = "revoke", ![s].fam = t.fam]
        BY <3>1, <3>3 DEF Request
      <3> QED
        BY <2>1, <3>2, <3>3 DEF RefreshSelect
    <2>2. ASSUME NEW t \in Token, RefreshSelectFails(s, t) PROVE IdInv'
      BY <2>2 DEF RefreshSelectFails
    <2>3. CASE RefreshDelete(s) \/ RefreshDeleteFails(s)
      BY <2>3 DEF RefreshDelete, RefreshDeleteFails, Request
    <2>4. CASE Revoke(s) \/ RevokeFails(s)
      BY <2>4 DEF Revoke, RevokeFails
    <2> QED
      BY <1>4, <2>1, <2>2, <2>3, <2>4 DEF RefreshNext
  <1>5. ASSUME NEW s \in Slot, TokenNext(s) PROVE IdInv'
    <2>1. CASE TokenUser(s) \/ TokenUserFails(s) \/ TokenInsertFails(s)
      BY <2>1 DEF TokenUser, TokenUserFails, TokenInsertFails, Request
    <2>2. CASE TokenSign(s)
      <3>1. CASE req[s].fam = None
        <4>1. PICK g \in Fam \ opened :
                req' = [req EXCEPT ![s].pc = "insert", ![s].fam = g, ![s].sec = now]
          BY <2>2, <3>1 DEF TokenSign
        <4>2. UNCHANGED <<sessions, nextId>>
          BY <2>2 DEF TokenSign
        <4> QED
          BY <4>1, <4>2 DEF Request
      <3>2. CASE req[s].fam # None
        BY <2>2, <3>2 DEF TokenSign, Request
      <3> QED
        BY <3>1, <3>2
    <2>3. CASE TokenInsert(s) \/ TokenInsertUnanswered(s)
      <3> DEFINE new == [id |-> nextId, fam |-> req[s].fam, sec |-> req[s].sec]
      <3>1. /\ sessions' = sessions \cup {new} /\ nextId' = nextId + 1
            /\ req' = [req EXCEPT ![s] = Idle]
        BY <2>3 DEF TokenInsert, TokenInsertUnanswered, Store
      <3>2. new.id = nextId /\ \A r \in sessions : r.id # nextId
        BY DEF IdInv
      <3> HIDE DEF new
      <3>3. \A z \in Slot : req[z].id \in Nat
        BY DEF Request
      <3> QED
        BY <3>1, <3>2, <3>3
    <2> QED
      BY <1>5, <2>1, <2>2, <2>3 DEF TokenNext
  <1>6. ASSUME EnvNext PROVE IdInv'
    BY <1>6 DEF EnvNext, IssueNonce, NonceExpires, NonceCleanup, SessionCleanup, Block, Tick,
                SevenDays, Crash
  <1> QED
    BY <1>2, <1>3, <1>4, <1>5, <1>6 DEF Next

-----------------------------------------------------------------------------
(* Honest clients.                                                           *)

\* What keeps a family honest: nothing new in its requests and its tokens, no row
\* beside the one that is being exchanged, a row for the token that the client has.
LEMMA HonestFrame ==
  ASSUME NEW f \in Fam, Honest(f), f \notin revoked',
         SessionsOf(f)' \subseteq SessionsOf(f),
         \A t \in Token : Holds(f, t)' => Holds(f, t) /\ unspent'[t] = unspent[t],
         \A s \in Slot : req'[s].fam = f =>
           /\ req[s].fam = f /\ req'[s].pc # "revoke"
           /\ \A r \in SessionsOf(f)' : req'[s].pc = "delete" /\ r.id = req'[s].id,
         \A t \in Token : Holds(f, t)' /\ t.sec >= deadline' =>
           \E r \in SessionsOf(f)' : r.sec = t.sec
  PROVE  Honest(f)'
  BY DEF Honest

\* The steps that leave the rows and the tokens of a family alone.
LEMMA HonestQuiet ==
  ASSUME NEW f \in Fam, Honest(f), f \notin revoked', SessionsOf(f)' = SessionsOf(f),
         deadline \in Int, deadline' \in Int, deadline' >= deadline,
         \A t \in Token : t.sec \in Int,
         \A t \in Token : t.fam = f => unspent'[t] = unspent[t],
         \A s \in Slot : req'[s].fam = f =>
           /\ req[s].fam = f /\ req'[s].pc # "revoke"
           /\ req[s].pc = "delete" => req'[s].pc = "delete" /\ req'[s].id = req[s].id
  PROVE  Honest(f)'
  <1>1. \A t \in Token : Holds(f, t)' => Holds(f, t) /\ unspent'[t] = unspent[t]
    BY DEF Holds
  <1>2. ASSUME NEW s \in Slot, req'[s].fam = f
        PROVE  \A r \in SessionsOf(f)' : req'[s].pc = "delete" /\ r.id = req'[s].id
    BY <1>2 DEF Honest
  <1>3. ASSUME NEW t \in Token, Holds(f, t)', t.sec >= deadline'
        PROVE  \E r \in SessionsOf(f)' : r.sec = t.sec
    <2>1. t.sec >= deadline
      BY <1>3
    <2> QED
      BY <1>1, <1>3, <2>1 DEF Honest
  <1> QED
    BY <1>1, <1>2, <1>3, HonestFrame

LEMMA HeldStep == TypeInv /\ HeldInv /\ [Next]_vars => HeldInv'
  <1> SUFFICES ASSUME TypeInv, HeldInv, [Next]_vars PROVE HeldInv'
    OBVIOUS
  <1>0. unspent \in [Token -> Nat]
    BY DEF TypeInv, TypeOK
  <1> USE <1>0 DEF HeldInv, client
  <1>1. CASE UNCHANGED <<held, unspent>>
    BY <1>1
  <1>2. ASSUME NEW s \in Slot, NEW t \in Token, RefreshSelect(s, t) \/ RefreshSelectFails(s, t)
        PROVE  HeldInv'
    BY <1>2 DEF RefreshSelect, RefreshSelectFails, Present
  <1>3. ASSUME NEW s \in Slot, TokenInsert(s) PROVE HeldInv'
    BY <1>3 DEF TokenInsert
  <1> QED
    BY <1>1, <1>2, <1>3
       DEF Next, vars, tables, VerifyNext, RefreshNext, TokenNext, EnvNext, VerifySelect,
           VerifyClaim, VerifyClaimFails, RefreshDelete, RefreshDeleteFails, Revoke,
           RevokeFails, TokenUser, TokenUserFails, TokenSign, TokenInsertUnanswered,
           TokenInsertFails, IssueNonce, NonceExpires, NonceCleanup, SessionCleanup, Block,
           Tick, SevenDays, Crash

LEMMA HonestRefresh ==
  ASSUME SafeInv, NEW f \in Fam, Honest(f), f \notin replayed' \cup disturbed',
         NEW s \in Slot, RefreshNext(s)
  PROVE  Honest(f)'
  <1>0. /\ req \in [Slot -> Request] /\ deadline \in Int /\ f # None
        /\ \A t \in Token : t.sec \in Int
        /\ unspent \in [Token -> Nat]
        /\ req[s].pc = "idle" => req[s].fam = None
    BY ConstantsAssumption DEF SafeInv, TypeInv, TypeOK, LocalsOK, Second, Token
  <1>1. f \notin revoked
    BY DEF Honest
  <1> USE <1>0, <1>1 DEF tables, clock, client, family, Done, Idle
  <1>2. ASSUME NEW t \in Token, RefreshSelect(s, t), t.fam # f PROVE Honest(f)'
    <2>1. /\ SessionsOf(f)' = SessionsOf(f) /\ deadline' = deadline /\ f \notin revoked'
          /\ \A u \in Token : u.fam = f => unspent'[u] = unspent[u]
      BY <1>2 DEF RefreshSelect, Present, SessionsOf
    <2>2. \A z \in Slot : req'[z].fam = f => req'[z] = req[z] /\ req[z].pc # "revoke"
      BY <1>2 DEF RefreshSelect, Request, Honest
    <2> QED
      BY <2>1, <2>2, HonestQuiet
  <1>3. ASSUME NEW t \in Token, RefreshSelect(s, t), t.fam = f PROVE Honest(f)'
    <2>1. Holds(f, t) /\ t.sec >= deadline /\ unspent' = [unspent EXCEPT ![t] = @ - 1]
      BY <1>3 DEF RefreshSelect, Present, Holds
    <2>2. unspent[t] = 1 /\ \A u \in Token : ~Holds(f, u)'
      BY <2>1 DEF Honest, Holds
    <2>3. PICK r \in SessionsOf(f) : r.sec = t.sec /\ SessionsOf(f) = {r}
      BY <2>1 DEF Honest
    <2>4. RowsOf(t) = {r}
      BY <2>3, <1>3 DEF RowsOf, SessionsOf
    <2>5. Cardinality(RowsOf(t)) = 1
      BY <2>4, FS_Singleton
    <2>6. req' = [req EXCEPT ![s].pc = "delete", ![s].fam = f, ![s].id = r.id]
      BY <1>3, <2>4, <2>5 DEF RefreshSelect
    <2>7. \A z \in Slot : req[z].fam # f
      BY <2>1 DEF Honest
    <2>8. SessionsOf(f)' = SessionsOf(f) /\ f \notin revoked'
      BY <1>3 DEF RefreshSelect, SessionsOf
    <2>9. \A z \in Slot : req'[z].fam = f => z = s /\ req'[z].pc = "delete" /\ req'[z].id = r.id
      BY <2>6, <2>7 DEF Request
    <2> QED
      BY <2>2, <2>3, <2>8, <2>9 DEF Honest
  <1>4. ASSUME NEW t \in Token, RefreshSelectFails(s, t) PROVE Honest(f)'
    <2>1. /\ t.fam # f /\ SessionsOf(f)' = SessionsOf(f) /\ deadline' = deadline
          /\ f \notin revoked'
      BY <1>4 DEF RefreshSelectFails, SessionsOf
    <2>2. \A u \in Token : u.fam = f => unspent'[u] = unspent[u]
      BY <1>4, <2>1 DEF RefreshSelectFails, Present
    <2>3. \A z \in Slot : req'[z].fam = f => req'[z] = req[z] /\ req[z].pc # "revoke"
      BY <1>4, <2>1 DEF RefreshSelectFails, Request, Honest
    <2> QED
      BY <2>1, <2>2, <2>3, HonestQuiet
  <1>5. CASE RefreshDelete(s)
    <2>1. /\ f \notin revoked' /\ deadline' = deadline /\ unspent' = unspent
          /\ sessions' = {r \in sessions : r.id # req[s].id}
          /\ req' = [req EXCEPT ![s].pc = "user"] /\ req[s].pc = "delete"
      BY <1>5 DEF RefreshDelete
    <2>2. CASE req[s].fam = f
      <3>1. SessionsOf(f)' = {}
        BY <2>1, <2>2 DEF SessionsOf, Honest
      <3>2. \A z \in Slot : req'[z].fam = f => req[z].fam = f /\ req'[z].pc # "revoke"
        BY <2>1 DEF Request, Honest
      <3>3. \A u \in Token : ~Holds(f, u)'
        BY <2>1, <2>2 DEF Honest, Holds
      <3> QED
        BY <2>1, <3>1, <3>2, <3>3, HonestFrame
    <2>3. CASE req[s].fam # f
      <3>1. SessionsOf(f)' = SessionsOf(f)
        <4>1. \A r \in sessions : r.id = req[s].id => r.fam = req[s].fam
          BY <2>1 DEF SafeInv, IdInv
        <4> QED
          BY <2>1, <2>3, <4>1 DEF SessionsOf
      <3>2. \A z \in Slot : req'[z].fam = f => req'[z] = req[z] /\ req[z].pc # "revoke"
        BY <2>1, <2>3 DEF Request, Honest
      <3>3. f \notin revoked' /\ deadline' = deadline /\ unspent' = unspent
        BY <2>1
      <3> QED
        BY <3>1, <3>2, <3>3, HonestQuiet
    <2> QED
      BY <2>2, <2>3
  <1>6. CASE RefreshDeleteFails(s)
    <2>1. SessionsOf(f)' = SessionsOf(f) /\ f \notin revoked' /\ deadline' = deadline
          /\ unspent' = unspent /\ req[s].fam # f
      BY <1>6 DEF RefreshDeleteFails, SessionsOf
    <2>2. \A z \in Slot : req'[z].fam = f => req'[z] = req[z] /\ req[z].pc # "revoke"
      BY <1>6, <2>1 DEF RefreshDeleteFails, Request, Honest
    <2> QED
      BY <2>1, <2>2, HonestQuiet
  <1>7. CASE Revoke(s) \/ RevokeFails(s)
    <2>1. req[s].fam # f /\ req' = [req EXCEPT ![s] = Idle] /\ deadline' = deadline
          /\ unspent' = unspent
      BY <1>7 DEF Revoke, RevokeFails, Honest
    <2>2. SessionsOf(f)' = SessionsOf(f) /\ f \notin revoked'
      BY <1>7, <2>1 DEF Revoke, RevokeFails, SessionsOf
    <2>3. \A z \in Slot : req'[z].fam = f => req'[z] = req[z] /\ req[z].pc # "revoke"
      BY <2>1 DEF Honest
    <2> QED
      BY <2>1, <2>2, <2>3, HonestQuiet
  <1> QED
    BY <1>2, <1>3, <1>4, <1>5, <1>6, <1>7 DEF RefreshNext

LEMMA HonestToken ==
  ASSUME SafeInv, NEW f \in Fam, Honest(f), f \notin replayed' \cup disturbed',
         NEW s \in Slot, TokenNext(s)
  PROVE  Honest(f)'
  <1>0. /\ req \in [Slot -> Request] /\ deadline \in Int /\ f # None
        /\ \A t \in Token : t.sec \in Int
        /\ unspent \in [Token -> Nat]
        /\ req[s].pc = "insert" => req[s].fam \in Fam
    BY ConstantsAssumption DEF SafeInv, TypeInv, TypeOK, LocalsOK, Second, Token
  <1>1. f \notin revoked
    BY DEF Honest
  <1> USE <1>0, <1>1 DEF tables, clock, client, family, Done, Idle
  <1>2. CASE TokenUser(s) \/ TokenUserFails(s) \/ TokenInsertFails(s)
    <2>1. SessionsOf(f)' = SessionsOf(f) /\ f \notin revoked' /\ deadline' = deadline
          /\ unspent' = unspent
      BY <1>2 DEF TokenUser, TokenUserFails, TokenInsertFails, SessionsOf
    <2>2. ASSUME NEW z \in Slot, req'[z].fam = f
          PROVE  /\ req[z].fam = f /\ req'[z].pc # "revoke"
                 /\ req[z].pc = "delete" => req'[z].pc = "delete" /\ req'[z].id = req[z].id
      BY <1>2, <2>2 DEF TokenUser, TokenUserFails, TokenInsertFails, Request, Honest
    <2> QED
      BY <2>1, <2>2, HonestQuiet
  <1>3. CASE TokenSign(s)
    <2>1. SessionsOf(f)' = SessionsOf(f) /\ f \notin revoked' /\ UNCHANGED <<deadline, unspent>>
      BY <1>3 DEF TokenSign, SessionsOf
    <2>2. ASSUME req[s].fam = None, opened' = opened \cup {f}, f \notin opened,
                 req' = [req EXCEPT ![s].pc = "insert", ![s].fam = f, ![s].sec = now]
          PROVE  Honest(f)'
      <3>1. \A z \in Slot : req'[z].fam = f => z = s /\ req'[z].pc = "insert"
        BY <2>2 DEF Request, SafeInv, OpenedInv
      <3>2. SessionsOf(f)' = {}
        BY <2>1, <2>2 DEF SessionsOf, SafeInv, OpenedInv
      <3>3. \A t \in Token : ~Holds(f, t)'
        BY <2>1, <2>2 DEF Holds, SafeInv, OpenedInv, HonestInv, HeldInv
      <3> QED
        BY <2>1, <3>1, <3>2, <3>3 DEF Honest
    <2>3. ASSUME NEW g \in Fam, g # f, req[s].fam = None,
                 req' = [req EXCEPT ![s].pc = "insert", ![s].fam = g, ![s].sec = now]
          PROVE  Honest(f)'
      <3>1. \A z \in Slot : req'[z].fam = f => req'[z] = req[z] /\ req[z].pc # "revoke"
        BY <2>3 DEF Request, Honest
      <3> QED
        BY <2>1, <3>1, HonestQuiet
    <2>4. CASE req[s].fam # None
      <3>1. req' = [req EXCEPT ![s].pc = "insert", ![s].sec = now] /\ req[s].pc = "sign"
        BY <1>3, <2>4 DEF TokenSign
      <3>2. ASSUME NEW z \in Slot, req'[z].fam = f
            PROVE  /\ req[z].fam = f /\ req'[z].pc # "revoke"
                   /\ req[z].pc = "delete" => req'[z].pc = "delete" /\ req'[z].id = req[z].id
        BY <3>1, <3>2 DEF Request, Honest
      <3> QED
        BY <2>1, <3>2, HonestQuiet
    <2>5. CASE req[s].fam = None
      <3>1. PICK g \in Fam \ opened :
              /\ opened' = opened \cup {g}
              /\ req' = [req EXCEPT ![s].pc = "insert", ![s].fam = g, ![s].sec = now]
        BY <1>3, <2>5 DEF TokenSign
      <3> QED
        BY <2>2, <2>3, <2>5, <3>1
    <2> QED
      BY <2>4, <2>5
  <1>4. CASE TokenInsert(s) \/ TokenInsertUnanswered(s)
    <2> DEFINE new == [id |-> nextId, fam |-> req[s].fam, sec |-> req[s].sec]
    <2>1. /\ sessions' = sessions \cup {new} /\ req' = [req EXCEPT ![s] = Idle]
          /\ f \notin revoked' /\ deadline' = deadline /\ req[s].pc = "insert"
      BY <1>4 DEF TokenInsert, TokenInsertUnanswered, Store
    <2>2. CASE req[s].fam # f
      <3>1. SessionsOf(f)' = SessionsOf(f)
        BY <2>1, <2>2 DEF SessionsOf
      <3>2. \A t \in Token : t.fam = f => unspent'[t] = unspent[t]
        BY <1>4, <2>2 DEF TokenInsert, TokenInsertUnanswered
      <3>3. \A z \in Slot : req'[z].fam = f => req'[z] = req[z] /\ req[z].pc # "revoke"
        BY <2>1 DEF Honest
      <3> QED
        BY <2>1, <3>1, <3>2, <3>3, HonestQuiet
    <2>3. CASE req[s].fam = f
      <3> DEFINE t == [fam |-> f, sec |-> req[s].sec]
      <3>1. TokenInsert(s)
        BY <1>4, <2>3 DEF TokenInsertUnanswered, Lost
      <3>2. t \in Token /\ unspent' = [unspent EXCEPT ![t] = @ + 1]
        BY <2>3, <3>1 DEF TokenInsert, Token, Request
      <3>3. SessionsOf(f) = {} /\ \A u \in Token : u.fam = f => unspent[u] = 0
        BY <2>1, <2>3 DEF Honest, Holds
      <3>4. SessionsOf(f)' = {new} /\ new.sec = t.sec
        BY <2>1, <2>3, <3>3 DEF SessionsOf
      <3>5. \A z \in Slot : req'[z].fam # f
        BY <2>1, <2>3 DEF Honest
      <3> HIDE DEF new
      <3>6. /\ \A u \in Token : Holds(f, u)' => u = t
            /\ unspent'[t] = 1
        BY <3>2, <3>3 DEF Holds
      <3> HIDE DEF t
      <3> QED
        BY <2>1, <3>4, <3>5, <3>6 DEF Honest
    <2> QED
      BY <2>2, <2>3
  <1> QED
    BY <1>2, <1>3, <1>4 DEF TokenNext

LEMMA HonestStep == SafeInv /\ [Next]_vars => HonestInv'
  <1> SUFFICES ASSUME SafeInv, [Next]_vars PROVE HonestInv'
    OBVIOUS
  <1>0. HeldInv'
    BY HeldStep DEF SafeInv, HonestInv
  <1>1. SUFFICES ASSUME NEW f \in Fam, f \notin replayed' \cup disturbed' PROVE Honest(f)'
    BY <1>0 DEF HonestInv
  <1>2. replayed \subseteq replayed' /\ disturbed \subseteq disturbed'
    <2> USE DEF tables, clock, client, family
    <2>1. ASSUME NEW s \in Slot, VerifyNext(s) PROVE UNCHANGED <<replayed, disturbed>>
      BY <2>1 DEF VerifyNext, VerifySelect, VerifyClaim, VerifyClaimFails
    <2>2. ASSUME NEW s \in Slot, RefreshNext(s)
          PROVE  replayed \subseteq replayed' /\ disturbed \subseteq disturbed'
      BY <2>2 DEF RefreshNext, Present, RefreshSelect, RefreshSelectFails, RefreshDelete,
                  RefreshDeleteFails, Revoke, RevokeFails
    <2>3. ASSUME NEW s \in Slot, TokenNext(s)
          PROVE  replayed \subseteq replayed' /\ disturbed \subseteq disturbed'
      BY <2>3 DEF TokenNext, TokenUser, TokenUserFails, TokenSign, TokenInsert,
                  TokenInsertUnanswered, TokenInsertFails, Lost
    <2>4. ASSUME EnvNext PROVE replayed \subseteq replayed' /\ disturbed \subseteq disturbed'
      BY <2>4 DEF EnvNext, IssueNonce, NonceExpires, NonceCleanup, SessionCleanup, Block, Tick,
                  SevenDays, Crash
    <2> QED
      BY <2>1, <2>2, <2>3, <2>4 DEF Next, vars
  <1>3. Honest(f)
    BY <1>1, <1>2 DEF SafeInv, HonestInv
  <1>11. f \notin revoked
    BY <1>3 DEF Honest
  <1>4. /\ req \in [Slot -> Request] /\ deadline \in Int /\ now \in Int /\ f # None
        /\ \A t \in Token : t.sec \in Int
        /\ deadline <= now
    BY ConstantsAssumption DEF SafeInv, TypeInv, TypeOK, Second, Token, ClockInv
  <1> USE <1>3, <1>11, <1>4 DEF tables, clock, client, family, Done, Idle
  <1>5. ASSUME NEW s \in Slot, VerifyNext(s) PROVE Honest(f)'
    <2>1. SessionsOf(f)' = SessionsOf(f) /\ UNCHANGED <<revoked, deadline, unspent>>
      BY <1>5 DEF VerifyNext, VerifySelect, VerifyClaim, VerifyClaimFails, SessionsOf
    <2>2. \A z \in Slot : req'[z].fam = f => req'[z] = req[z] /\ req[z].pc # "revoke"
      <3>1. req[s].pc \in {"idle", "claim"} /\ req[s].fam = None
        BY <1>5 DEF VerifyNext, VerifySelect, VerifyClaim, VerifyClaimFails, SafeInv, TypeInv,
                    LocalsOK
      <3> QED
        BY <1>5, <3>1 DEF VerifyNext, VerifySelect, VerifyClaim, VerifyClaimFails, Request, Honest
    <2> QED
      BY <2>1, <2>2, HonestQuiet
  <1>6. CASE EnvNext /\ UNCHANGED <<req, sessions>>
    <2>1. SessionsOf(f)' = SessionsOf(f) /\ UNCHANGED <<revoked, unspent>>
      BY <1>6 DEF EnvNext, IssueNonce, NonceExpires, NonceCleanup, SessionCleanup, Block, Tick,
                  SevenDays, Crash, SessionsOf
    <2>2. deadline' \in Int /\ deadline' >= deadline
      BY <1>6 DEF EnvNext, IssueNonce, NonceExpires, NonceCleanup, SessionCleanup, Block, Tick,
                  SevenDays, Crash
    <2>3. \A z \in Slot : req'[z].fam = f => req'[z] = req[z] /\ req[z].pc # "revoke"
      BY <1>6 DEF Honest
    <2> QED
      BY <2>1, <2>2, <2>3, HonestQuiet
  <1>7. CASE SessionCleanup
    <2>1. /\ UNCHANGED <<revoked, unspent, deadline, req>>
          /\ SessionsOf(f)' = {r \in SessionsOf(f) : r.sec >= deadline}
      BY <1>7 DEF SessionCleanup, SessionsOf
    <2>2. \A t \in Token : Holds(f, t)' => Holds(f, t) /\ unspent'[t] = unspent[t]
      BY <2>1 DEF Holds
    <2>3. \A t \in Token : Holds(f, t)' /\ t.sec >= deadline' =>
            \E r \in SessionsOf(f)' : r.sec = t.sec
      BY <2>1, <2>2 DEF Honest
    <2>4. \A s \in Slot : req'[s].fam = f =>
           /\ req[s].fam = f /\ req'[s].pc # "revoke"
           /\ \A r \in SessionsOf(f)' : req'[s].pc = "delete" /\ r.id = req'[s].id
      BY <2>1 DEF Honest
    <2> QED
      BY <2>1, <2>2, <2>3, <2>4, HonestFrame
  <1>8. CASE Crash
    <2>1. SessionsOf(f)' = SessionsOf(f) /\ UNCHANGED <<revoked, deadline, unspent>>
          /\ \A z \in Slot : req'[z].fam # f
      BY <1>8 DEF Crash, SessionsOf
    <2> QED
      BY <2>1, HonestQuiet
  <1>9. CASE UNCHANGED vars
    <2>1. SessionsOf(f)' = SessionsOf(f) /\ UNCHANGED <<revoked, deadline, unspent, req>>
      BY <1>9 DEF vars, SessionsOf
    <2>2. \A z \in Slot : req'[z].fam = f => req'[z] = req[z] /\ req[z].pc # "revoke"
      BY <2>1 DEF Honest
    <2> QED
      BY <2>1, <2>2, HonestQuiet
  <1>10. EnvNext => SessionCleanup \/ Crash \/ UNCHANGED <<req, sessions>>
    BY DEF EnvNext, IssueNonce, NonceExpires, NonceCleanup, Block, Tick, SevenDays
  <1> QED
    BY <1>1, <1>5, <1>6, <1>7, <1>8, <1>9, <1>10, HonestRefresh, HonestToken DEF Next

-----------------------------------------------------------------------------
(* The theorems.                                                             *)

LEMMA SafeStep == SafeInv /\ [Next]_vars => SafeInv'
  <1> SUFFICES ASSUME SafeInv, [Next]_vars PROVE SafeInv'
    OBVIOUS
  <1> QED
    BY TypeStep, ClockStep, NonceStep, OpenedStep, ContainedStep, IdStep, HonestStep DEF SafeInv

LEMMA Safe == Spec => []SafeInv
  BY SafeInit, SafeStep, PTL DEF Spec

\* A nonce verifies at most once, with any number of requests, for ever.
THEOREM NonceOnce == Spec => []NonceSucceedsOnce
  <1>1. SafeInv => NonceSucceedsOnce
    BY DEF SafeInv, NonceInv, NonceSucceedsOnce
  <1> QED
    BY <1>1, Safe, PTL

\* No token opens a session of a family that was revoked in peace.
THEOREM RevokedEmpty == Spec => []RevokedFamilyStaysEmpty
  <1>1. SafeInv => RevokedFamilyStaysEmpty
    BY DEF SafeInv, ContainedInv, RevokedFamilyStaysEmpty
  <1> QED
    BY <1>1, Safe, PTL

\* A client that presents each token once, and meets no fault, is never signed out
\* by a replay, whatever happens to the other families of the wallet.
THEOREM HonestKeeps == Spec => []HonestClientKeepsSession
  <1>1. SafeInv => HonestClientKeepsSession
    <2> SUFFICES ASSUME SafeInv, NEW f \in Fam \ (replayed \cup disturbed)
                 PROVE  /\ f \notin revoked
                        /\ \A t \in Token :
                             (t.fam = f /\ t.sec >= deadline /\ unspent[t] > 0) =>
                               Cardinality(RowsOf(t)) = 1
      BY DEF HonestClientKeepsSession
    <2>1. Honest(f)
      BY DEF SafeInv, HonestInv
    <2>2. ASSUME NEW t \in Token, t.fam = f, t.sec >= deadline, unspent[t] > 0
          PROVE  Cardinality(RowsOf(t)) = 1
      <3>1. PICK r \in SessionsOf(f) : r.sec = t.sec /\ SessionsOf(f) = {r}
        BY <2>1, <2>2 DEF Honest, Holds
      <3>2. RowsOf(t) = {r}
        BY <2>2, <3>1 DEF RowsOf, SessionsOf
      <3> QED
        BY <3>2, FS_Singleton
    <2> QED
      BY <2>1, <2>2 DEF Honest
  <1> QED
    BY <1>1, Safe, PTL
=============================================================================
