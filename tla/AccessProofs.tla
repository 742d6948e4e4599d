------------------------------ MODULE AccessProofs ------------------------------
(* Theorems about Access, for every value of its constants.                   *)
EXTENDS Access, TLAPS

LEMMA Types ==
  /\ Bound \in Nat /\ TTL \in Nat \ {0} /\ Latency \in Nat
  /\ Forgotten = Bound + 1
  /\ Bound = TTL + Latency
  /\ Window = 0 .. Bound
  /\ FailOpen \in State
  /\ Idle \in Request
  /\ NoEntry \in Entry
  /\ Idle.pc = "idle" /\ NoEntry.left = 0
  BY ConstantsAssumption
  DEF Bound, Forgotten, Window, FailOpen, State, Idle, Request, NoEntry, Entry, Kind

\* The decisions of the guards keep a request a request that looks nothing up.
LEMMA DecidedType ==
  ASSUME NEW rq \in Request, NEW st \in State
  PROVE  /\ Decided(rq, st) \in Request
         /\ Decided(rq, st).pc \in {"idle", "call", "handler"}
  <1>1. CASE rq.stage = "jwt" /\ JwtRefuses(st)
    BY <1>1, Types DEF Decided
  <1>2. CASE rq.stage = "jwt" /\ ~JwtRefuses(st) /\ rq.kind \in Gated
    <2>1. Decided(rq, st) = [Idle EXCEPT !.kind = rq.kind, !.stage = "guard", !.pc = "call"]
      BY <1>2 DEF Decided
    <2> QED
      BY <2>1, Types DEF Idle, Request
  <1>3. CASE rq.stage = "guard" /\ GuardRefuses(rq.kind, st)
    BY <1>3, Types DEF Decided
  <1>4. CASE /\ ~(rq.stage = "jwt" /\ JwtRefuses(st))
             /\ ~(rq.stage = "jwt" /\ ~JwtRefuses(st) /\ rq.kind \in Gated)
             /\ ~(rq.stage = "guard" /\ GuardRefuses(rq.kind, st))
    <2>1. Decided(rq, st) = [Idle EXCEPT !.kind = rq.kind, !.stage = rq.stage,
                                         !.role = rq.role, !.pc = "handler"]
      BY <1>4 DEF Decided
    <2> QED
      BY <2>1, Types DEF Idle, Request
  <1> QED
    BY <1>1, <1>2, <1>3, <1>4

LEMMA SvcOfType == ASSUME NEW rq PROVE SvcOf(rq) \in Svc
  BY DEF SvcOf, Svc

LEMMA AskedType ==
  ASSUME TypeOK, NEW rq \in Request
  PROVE  /\ Asked(rq) \in Request
         /\ Asked(rq).pc \in {"idle", "call", "handler", "query"}
  <1>1. cache[SvcOf(rq)].state \in State
    BY SvcOfType DEF TypeOK, Entry
  <1>2. [rq EXCEPT !.pc = "query"] \in Request /\ [rq EXCEPT !.pc = "query"].pc = "query"
    BY DEF Request
  <1> QED
    BY <1>1, <1>2, DecidedType DEF Asked

\* st was in the row at most n seconds ago.
Known(st, n) == \E k \in Window : k <= n /\ st \in past[k]

\* What a look-up carries is as old as it says.
SeenInv == \A r \in Req : req[r].pc = "answer" =>
             req[r].age <= Latency /\ req[r].seen \in past[req[r].age]

\* An entry that is served was in the row when it was read, at most Latency
\* seconds before it was stored, or stands for a look-up that failed then.
CacheInv == \A s \in Svc : cache[s].left > 0 =>
              \/ Known(cache[s].state, Bound - cache[s].left)
              \/ cache[s].state = FailOpen /\ failed <= TTL - cache[s].left

\* A request for PATCH /users/me/role names a role.
Chosen(rq) == rq.kind = "choose" /\ rq # Idle => rq.role \in Role
ChoiceInv == \A r \in Req : Chosen(req[r])

LEMMA ChosenKept ==
  ASSUME NEW rq \in Request, NEW st \in State, Chosen(rq), rq # Idle
  PROVE  Chosen(Decided(rq, st))
  <1>1. CASE rq.stage = "jwt" /\ JwtRefuses(st)
    BY <1>1 DEF Decided, Chosen
  <1>2. CASE rq.stage = "jwt" /\ ~JwtRefuses(st) /\ rq.kind \in Gated
    <2>1. Decided(rq, st).kind = rq.kind /\ rq.kind # "choose"
      BY <1>2, ConstantsAssumption DEF Decided, Idle, Gated, Admin
    <2> QED
      BY <2>1 DEF Chosen
  <1>3. CASE rq.stage = "guard" /\ GuardRefuses(rq.kind, st)
    BY <1>3 DEF Decided, Chosen
  <1>4. CASE /\ ~(rq.stage = "jwt" /\ JwtRefuses(st))
             /\ ~(rq.stage = "jwt" /\ ~JwtRefuses(st) /\ rq.kind \in Gated)
             /\ ~(rq.stage = "guard" /\ GuardRefuses(rq.kind, st))
    <2>1. Decided(rq, st).kind = rq.kind /\ Decided(rq, st).role = rq.role
      BY <1>4 DEF Decided, Idle
    <2> QED
      BY <2>1 DEF Chosen
  <1> QED
    BY <1>1, <1>2, <1>3, <1>4

LEMMA AskedChosen ==
  ASSUME TypeOK, NEW rq \in Request, Chosen(rq), rq # Idle
  PROVE  Chosen(Asked(rq))
  <1>1. cache[SvcOf(rq)].state \in State
    BY SvcOfType DEF TypeOK, Entry
  <1>2. CASE rq # Idle
    <2>1. Chosen([rq EXCEPT !.pc = "query"])
      BY <1>2 DEF Chosen, Request
    <2> QED
      BY <1>1, <1>2, <2>1, ChosenKept DEF Asked
  <1> QED
    BY <1>2

RoleInv == chosen <= resets + (IF user.role = NoRole THEN 0 ELSE 1)

SafeInv ==
  /\ TypeOK
  /\ user \in past[0]
  /\ SeenInv
  /\ CacheInv
  /\ InvalidationTakesEffect
  /\ ChoiceInv
  /\ RoleInv

LEMMA SafeInit == Init => SafeInv
  <1> SUFFICES ASSUME Init PROVE SafeInv
    OBVIOUS
  <1> USE Types DEF Init
  <1>1. TypeOK
    BY DEF TypeOK, Svc
  <1>2. user \in past[0] /\ SeenInv /\ CacheInv /\ InvalidationTakesEffect
    BY DEF SeenInv, CacheInv, InvalidationTakesEffect
  <1>3. RoleInv /\ ChoiceInv
    BY DEF RoleInv, FailOpen, ChoiceInv, Chosen
  <1> QED
    BY <1>1, <1>2, <1>3 DEF SafeInv

-----------------------------------------------------------------------------
(* The steps, by what they touch: a request and nothing else, ...            *)

\* A request moves on, and if it reads the row it reads it now.
Moves(r, rq) ==
  /\ rq \in Request /\ Chosen(rq)
  /\ rq.pc = "answer" => rq.seen = user /\ rq.age = 0
  /\ req' = [req EXCEPT ![r] = rq]

LEMMA RequestStep ==
  ASSUME SafeInv, NEW r \in Req, NEW rq, Moves(r, rq),
         UNCHANGED <<user, cache, resetPc, hist, bound>>
  PROVE  SafeInv'
  <1> USE DEF SafeInv, hist, bound, Moves
  <1>1. req' \in [Req -> Request] /\ \A q \in Req : req'[q] = IF q = r THEN rq ELSE req[q]
    BY DEF TypeOK
  <1>2. TypeOK'
    BY <1>1 DEF TypeOK
  <1>3. SeenInv'
    BY <1>1, Types DEF SeenInv
  <1>4. CacheInv'
    BY DEF CacheInv, Known
  <1>5. InvalidationTakesEffect'
    BY <1>1 DEF InvalidationTakesEffect, Fresh
  <1>6. RoleInv' /\ ChoiceInv'
    BY <1>1 DEF RoleInv, ChoiceInv, Chosen
  <1> QED
    BY <1>2, <1>3, <1>4, <1>5, <1>6

\* ... the row, ...
LEMMA ChangeStep ==
  ASSUME SafeInv, NEW u \in State, Change(u), UNCHANGED <<cache, failed>>,
         req' \in [Req -> Request],
         \A q \in Req : Chosen(req'[q]) /\ (req'[q].pc = "answer" => req'[q] = req[q]),
         resetPc' \in {"idle", "invalidate"},
         chosen' \in Nat, resets' \in Nat, faults' \in Nat, RoleInv'
  PROVE  SafeInv'
  <1> USE DEF SafeInv, Change
  <1>2. past' \in [Window -> SUBSET State] /\ \A k \in Window : past[k] \subseteq past'[k]
    BY Types DEF TypeOK
  <1>3. TypeOK'
    BY <1>2 DEF TypeOK, Svc
  <1>4. user' \in past'[0]
    BY Types DEF TypeOK
  <1>5. SeenInv'
    <2> SUFFICES ASSUME NEW q \in Req, req'[q].pc = "answer"
                 PROVE  req'[q].age <= Latency /\ req'[q].seen \in past'[req'[q].age]
      BY DEF SeenInv
    <2>1. req'[q] = req[q] /\ req[q].age \in Nat
      BY DEF TypeOK, Request
    <2>2. req[q].age <= Latency /\ req[q].seen \in past[req[q].age]
      BY <2>1 DEF SeenInv
    <2>3. req[q].age \in Window
      BY <2>1, <2>2, Types
    <2> QED
      BY <1>2, <2>1, <2>2, <2>3
  <1>6. CacheInv'
    BY <1>2 DEF CacheInv, Known
  <1>7. InvalidationTakesEffect' /\ ChoiceInv'
    BY DEF InvalidationTakesEffect, ChoiceInv, Chosen
  <1> QED
    BY <1>3, <1>4, <1>5, <1>6, <1>7

\* ... an entry and the request that stored it, ...
LEMMA StoreStep ==
  ASSUME SafeInv, NEW r \in Req, NEW st \in State,
         cache' = [cache EXCEPT ![SvcOf(req[r])] = [state |-> st, left |-> Expiry]],
         req' = [req EXCEPT ![r] = Decided(@, st)],
         failed' \in 0 .. Forgotten, failed' <= failed, faults' \in Nat,
         Known(st, Bound - TTL) \/ (st = FailOpen /\ failed' = 0),
         SvcOf(req[r]) \in fresh => st \in {user, FailOpen}, req[r] # Idle,
         UNCHANGED <<user, resetPc, past, fresh, chosen, resets, writes>>
  PROVE  SafeInv'
  <1> USE DEF SafeInv
  <1> DEFINE s == SvcOf(req[r])
  <1>1. s \in Svc
    BY SvcOfType
  <1>2. /\ req' \in [Req -> Request]
        /\ \A q \in Req : Chosen(req'[q]) /\ (req'[q].pc = "answer" => req'[q] = req[q])
    BY DecidedType, ChosenKept DEF TypeOK, ChoiceInv
  <1>3. /\ cache' \in [Svc -> Entry]
        /\ cache'[s].state = st /\ cache'[s].left = TTL
        /\ \A z \in Svc \ {s} : cache'[z] = cache[z]
    BY <1>1, Types DEF TypeOK, Entry, Expiry
  <1>4. TypeOK'
    BY <1>2, <1>3, Types DEF TypeOK
  <1>5. SeenInv'
    BY <1>2 DEF SeenInv
  <1>6. CacheInv'
    <2> SUFFICES ASSUME NEW z \in Svc, cache'[z].left > 0
                 PROVE  \/ \E k \in Window :
                             k <= Bound - cache'[z].left /\ cache'[z].state \in past'[k]
                        \/ cache'[z].state = FailOpen /\ failed' <= TTL - cache'[z].left
      BY DEF CacheInv, Known
    <2>1. CASE z = s
      BY <1>3, <2>1, Types DEF Known
    <2>2. CASE z # s
      <3>1. cache'[z] = cache[z] /\ cache[z].left \in Nat
        BY <1>3, <2>2 DEF TypeOK, Entry
      <3> QED
        BY <3>1, Types DEF CacheInv, Known, TypeOK
    <2> QED
      BY <2>1, <2>2
  <1>7. InvalidationTakesEffect'
    BY <1>1, <1>2, <1>3 DEF InvalidationTakesEffect, Fresh
  <1> QED
    BY <1>2, <1>4, <1>5, <1>6, <1>7 DEF RoleInv, ChoiceInv, Chosen

\* ... an entry that is dropped, ...
LEMMA DropStep ==
  ASSUME SafeInv, NEW s \in Svc, Invalidate(s),
         req' \in [Req -> Request],
         \A q \in Req : Chosen(req'[q]) /\ (req'[q].pc = "answer" => req'[q] = req[q]),
         resetPc' \in {"idle", "invalidate"},
         UNCHANGED <<user, past, failed, chosen, resets, bound>>
  PROVE  SafeInv'
  <1> USE DEF SafeInv, Invalidate, bound
  <1>1. /\ cache' \in [Svc -> Entry] /\ cache'[s].left = 0
        /\ \A z \in Svc \ {s} : cache'[z] = cache[z]
    BY Types DEF TypeOK
  <1>2. TypeOK'
    BY <1>1, Types DEF TypeOK
  <1>3. SeenInv'
    BY DEF SeenInv
  <1>4. CacheInv'
    BY <1>1 DEF CacheInv, Known
  <1>5. InvalidationTakesEffect'
    BY <1>1 DEF InvalidationTakesEffect, Fresh
  <1> QED
    BY <1>2, <1>3, <1>4, <1>5 DEF RoleInv, ChoiceInv, Chosen

\* ... or the time.
LEMMA TickStep == SafeInv /\ Tick => SafeInv'
  <1> SUFFICES ASSUME SafeInv, Tick PROVE SafeInv'
    OBVIOUS
  <1> USE DEF SafeInv, Tick, bound
  <1>1. /\ past' \in [Window -> SUBSET State]
        /\ past'[0] = {user}
        /\ \A k \in Window : k + 1 \in Window => past'[k + 1] = past[k]
    <2>1. \A k \in Window \ {0} : k - 1 \in Window
      BY Types
    <2>2. {user} \in SUBSET State /\ \A k \in Window : past[k] \in SUBSET State
      BY DEF TypeOK
    <2>3. past' \in [Window -> SUBSET State]
      BY <2>1, <2>2
    <2>4. ASSUME NEW k \in Window, k + 1 \in Window PROVE past'[k + 1] = past[k]
      BY <2>4, Types
    <2> QED
      BY <2>3, <2>4, Types
  <1>2. /\ req' \in [Req -> Request]
        /\ \A q \in Req : req'[q].pc = "answer" =>
             /\ req[q].pc = "answer" /\ req'[q].seen = req[q].seen
             /\ req'[q].age = req[q].age + 1 /\ req[q].age < Latency
    <2>0. \A q \in Req : req[q] \in Request /\ req[q].age + 1 \in Nat
      BY DEF TypeOK, Request
    <2>1. \A q \in Req : req[q] \in Request /\ [req[q] EXCEPT !.age = @ + 1] \in Request
      BY <2>0 DEF Request
    <2>2. \A q \in Req : req'[q] = IF req[q].pc = "answer" THEN [req[q] EXCEPT !.age = @ + 1]
                                   ELSE req[q]
      OBVIOUS
    <2>3. req' \in [Req -> Request]
      BY <2>1, <2>2
    <2>4. ASSUME NEW q \in Req, req'[q].pc = "answer"
          PROVE  /\ req[q].pc = "answer" /\ req'[q].seen = req[q].seen
                 /\ req'[q].age = req[q].age + 1 /\ req[q].age < Latency
      BY <2>1, <2>2, <2>4 DEF Request
    <2> QED
      BY <2>3, <2>4
  <1>3. /\ cache' \in [Svc -> Entry]
        /\ \A s \in Svc : cache'[s].left > 0 =>
             cache'[s].state = cache[s].state /\ cache'[s].left = cache[s].left - 1
        /\ \A s \in Svc : cache'[s].left <= TTL
    <2>1. \A s \in Svc : cache[s].state \in State /\ cache[s].left \in Nat /\ cache[s].left <= TTL
      BY DEF TypeOK, Entry
    <2>2. ASSUME NEW s \in Svc, cache[s].left > 1
          PROVE  /\ cache'[s] \in Entry /\ cache'[s].state = cache[s].state
                 /\ cache'[s].left = cache[s].left - 1
      <3>1. cache'[s] = [cache[s] EXCEPT !.left = @ - 1] /\ cache[s] \in Entry
        BY <2>2 DEF TypeOK
      <3> QED
        BY <2>1, <2>2, <3>1 DEF Entry
    <2>3. ASSUME NEW s \in Svc, ~(cache[s].left > 1) PROVE cache'[s] = NoEntry
      BY <2>3
    <2>4. cache' = [s \in Svc |-> cache'[s]]
      OBVIOUS
    <2>5. \A s \in Svc : cache'[s] \in Entry /\ cache'[s].left <= TTL
      BY <2>1, <2>2, <2>3, Types
    <2>6. cache' \in [Svc -> Entry]
      BY <2>4, <2>5
    <2>7. \A s \in Svc : cache'[s].left > 0 => cache[s].left > 1
      BY <2>3, Types
    <2> QED
      BY <2>2, <2>5, <2>6, <2>7
  <1>4. TypeOK'
    BY <1>1, <1>2, <1>3, Types DEF TypeOK
  <1>5. SeenInv'
    <2> SUFFICES ASSUME NEW q \in Req, req'[q].pc = "answer"
                 PROVE  req'[q].age <= Latency /\ req'[q].seen \in past'[req'[q].age]
      BY DEF SeenInv
    <2>1. req[q].age \in Nat /\ req[q].age < Latency
      BY <1>2 DEF TypeOK, Request
    <2>2. req[q].age \in Window /\ req[q].age + 1 \in Window
      BY <2>1, Types
    <2> QED
      BY <1>1, <1>2, <2>1, <2>2, Types DEF SeenInv
  <1>6. CacheInv'
    <2> SUFFICES ASSUME NEW s \in Svc, cache'[s].left > 0
                 PROVE  \/ \E k \in Window :
                             k <= Bound - cache'[s].left /\ cache'[s].state \in past'[k]
                        \/ cache'[s].state = FailOpen /\ failed' <= TTL - cache'[s].left
      BY DEF CacheInv, Known
    <2>1. cache[s].left \in Nat /\ cache[s].left > 1 /\ cache[s].left <= TTL
      BY <1>3, Types DEF TypeOK, Entry
    <2>2. CASE Known(cache[s].state, Bound - cache[s].left)
      <3>1. PICK k \in Window : k <= Bound - cache[s].left /\ cache[s].state \in past[k]
        BY <2>2 DEF Known
      <3>2. k + 1 \in Window /\ k + 1 <= Bound - (cache[s].left - 1)
        BY <2>1, <3>1, Types
      <3> QED
        BY <1>1, <1>3, <3>1, <3>2 DEF Known
    <2>3. CASE cache[s].state = FailOpen /\ failed <= TTL - cache[s].left
      <3>1. failed \in Nat /\ failed' \in {failed, failed + 1}
        BY Types DEF TypeOK
      <3>2. cache'[s].left = cache[s].left - 1 /\ cache'[s].state = FailOpen
        BY <1>3, <2>3
      <3> HIDE DEF SafeInv, Tick, bound
      <3> QED
        BY <2>1, <2>3, <3>1, <3>2, Types
    <2> QED
      BY <2>1, <2>2, <2>3 DEF CacheInv
  <1>7. InvalidationTakesEffect'
    <2>1. \A q \in Req : req'[q].pc = "answer" => SvcOf(req'[q]) = SvcOf(req[q])
      BY DEF TypeOK, Request, SvcOf
    <2> QED
      BY <1>2, <1>3, <2>1 DEF InvalidationTakesEffect, Fresh, TypeOK, Entry
  <1>8. user' \in past'[0] /\ RoleInv' /\ ChoiceInv'
    <2>1. \A q \in Req : /\ req'[q].kind = req[q].kind /\ req'[q].role = req[q].role
                          /\ req'[q] # Idle => req[q] # Idle
      BY Types DEF TypeOK, Request
    <2> QED
      BY <1>1, <2>1 DEF RoleInv, ChoiceInv, Chosen
  <1> QED
    BY <1>4, <1>5, <1>6, <1>7, <1>8

-----------------------------------------------------------------------------
(* The actions.                                                              *)

LEMMA RequestNextStep == SafeInv /\ RequestNext => SafeInv'
  <1> SUFFICES ASSUME SafeInv, NEW r \in Req,
                      \/ \E kind \in Kind, role \in Role \cup {NoRole} : Arrive(r, kind, role)
                      \/ Guard(r) \/ Query(r) \/ Fill(r) \/ QueryFails(r) \/ HandlerDone(r)
                      \/ SetRole(r) \/ SetRoleUnanswered(r) \/ SetRoleRefused(r)
                      \/ SetRoleDone(r)
               PROVE  SafeInv'
    BY DEF RequestNext
  <1>1. /\ TypeOK /\ req[r] \in Request /\ user \in State /\ SvcOf(req[r]) \in Svc
        /\ req[r].seen \in State /\ req[r].age \in Nat
        /\ req[r].role \in Role \cup {NoRole}
    BY SvcOfType DEF SafeInv, TypeOK, Request
  <1>2. ASSUME NEW kind \in Kind, NEW role \in Role \cup {NoRole}, Arrive(r, kind, role)
        PROVE  SafeInv'
    <2> DEFINE rq == Asked([Idle EXCEPT !.kind = kind, !.role = role])
    <2>1. [Idle EXCEPT !.kind = kind, !.role = role] \in Request
      BY Types DEF Request
    <2>2. rq \in Request /\ rq.pc # "answer" /\ Chosen(rq)
      <3>1. (role # NoRole) <=> (kind = "choose")
        BY <1>2 DEF Arrive
      <3>2. Chosen([Idle EXCEPT !.kind = kind, !.role = role])
        BY <3>1 DEF Chosen, Idle
      <3>3. [Idle EXCEPT !.kind = kind, !.role = role] # Idle
        BY <3>1 DEF Idle
      <3> QED
        BY <1>1, <2>1, <3>2, <3>3, AskedType, AskedChosen
    <2>3. req' = [req EXCEPT ![r] = rq]
      BY <1>2 DEF Arrive
    <2> HIDE DEF rq
    <2>4. Moves(r, rq)
      BY <2>2, <2>3 DEF Moves
    <2> QED
      BY <1>2, <2>4, RequestStep DEF Arrive
  <1>3. CASE Guard(r)
    <2> DEFINE rq == Asked(req[r])
    <2>1. rq \in Request /\ rq.pc # "answer" /\ Chosen(rq)
      BY <1>1, <1>3, AskedType, AskedChosen DEF Guard, Idle, SafeInv, ChoiceInv
    <2>2. req' = [req EXCEPT ![r] = rq]
      BY <1>3 DEF Guard
    <2> HIDE DEF rq
    <2>3. Moves(r, rq)
      BY <2>1, <2>2 DEF Moves
    <2> QED
      BY <1>3, <2>3, RequestStep DEF Guard
  <1>4. CASE Query(r)
    <2> DEFINE rq == [req[r] EXCEPT !.pc = "answer", !.seen = user, !.age = 0]
    <2>1. rq \in Request /\ rq.seen = user /\ rq.age = 0 /\ Chosen(rq)
      <3>1. req[r] # Idle /\ Chosen(req[r])
        BY <1>4 DEF Query, SafeInv, ChoiceInv, Idle
      <3>2. rq \in Request /\ rq.seen = user /\ rq.age = 0
        BY <1>1 DEF Request
      <3>3. rq.kind = req[r].kind /\ rq.role = req[r].role
        BY <1>1 DEF Request
      <3> QED
        BY <3>1, <3>2, <3>3 DEF Chosen
    <2>2. req' = [req EXCEPT ![r] = rq]
      BY <1>4 DEF Query
    <2>3. Moves(r, rq)
      BY <2>1, <2>2 DEF Moves
    <2> QED
      BY <1>4, <2>3, RequestStep DEF Query
  <1>5. CASE Fill(r)
    <2>1. req[r].age <= Latency /\ req[r].seen \in past[req[r].age]
      BY <1>5 DEF Fill, SafeInv, SeenInv
    <2>2. req[r].age \in Window /\ req[r].age <= Bound - TTL
      BY <1>1, <2>1, Types
    <2>3. Known(req[r].seen, Bound - TTL)
      BY <2>1, <2>2 DEF Known
    <2>4. SvcOf(req[r]) \in fresh => req[r].seen = user
      BY <1>5 DEF Fill, SafeInv, InvalidationTakesEffect
    <2>5. failed \in 0 .. Forgotten /\ failed <= failed /\ faults' \in Nat
      BY <1>1, <1>5, Types DEF Fill, bound, TypeOK
    <2> QED
      BY <1>1, <1>5, <2>3, <2>4, <2>5, Types, StoreStep DEF Fill, bound
  <1>6. CASE QueryFails(r)
    <2>1. failed' \in 0 .. Forgotten /\ failed' <= failed /\ faults' \in Nat /\ failed' = 0
      BY <1>1, <1>6, Types DEF QueryFails, Fault, TypeOK
    <2> QED
      BY <1>6, <2>1, Types, StoreStep DEF QueryFails, Fault
  <1>7. CASE HandlerDone(r) \/ SetRoleRefused(r)
    <2>1. Moves(r, Idle)
      BY <1>7, Types DEF Moves, HandlerDone, SetRoleRefused, Chosen
    <2> QED
      BY <1>7, <2>1, RequestStep DEF HandlerDone, SetRoleRefused
  <1>8. CASE SetRole(r) \/ SetRoleUnanswered(r)
    <2> DEFINE u == [user EXCEPT !.role = req[r].role]
    <2>1. u \in State
      BY <1>1 DEF State
    <2>2. req[r].role \in Role /\ req[r] # Idle
      BY <1>1, <1>8 DEF SetRole, SetRoleUnanswered, SafeInv, ChoiceInv, Chosen, Idle
    <2>3. /\ req' \in [Req -> Request]
          /\ \A q \in Req : Chosen(req'[q]) /\ (req'[q].pc = "answer" => req'[q] = req[q])
      <3> DEFINE rq == [req[r] EXCEPT !.pc = "invalidate"]
      <3>1. rq \in Request /\ rq.pc = "invalidate" /\ Chosen(rq)
        BY <1>1, <2>2 DEF Request, Chosen
      <3>2. req' = [req EXCEPT ![r] = rq] \/ req' = [req EXCEPT ![r] = Idle]
        BY <1>8 DEF SetRole, SetRoleUnanswered
      <3>3. Chosen(Idle)
        BY DEF Chosen
      <3> QED
        BY <1>1, <3>1, <3>2, <3>3, Types DEF TypeOK, SafeInv, ChoiceInv
    <2>4. Change(u) /\ UNCHANGED <<cache, failed, resetPc, resets>> /\ chosen' = chosen + 1
          /\ faults' \in Nat /\ user.role = NoRole
      BY <1>1, <1>8 DEF SetRole, SetRoleUnanswered, RoleUnset, Fault, TypeOK
    <2>5. RoleInv' /\ chosen' \in Nat /\ resets' \in Nat /\ resetPc' \in {"idle", "invalidate"}
      <3>1. u.role = req[r].role /\ req[r].role # NoRole
        BY <1>1, <2>2, ConstantsAssumption DEF State
      <3> QED
        BY <1>1, <2>4, <3>1 DEF RoleInv, SafeInv, TypeOK, Change
    <2> QED
      BY <2>1, <2>3, <2>4, <2>5, ChangeStep
  <1>9. CASE SetRoleDone(r)
    <2>1. /\ req' \in [Req -> Request]
          /\ \A q \in Req : Chosen(req'[q]) /\ (req'[q].pc = "answer" => req'[q] = req[q])
      BY <1>1, <1>9, Types DEF SetRoleDone, TypeOK, Chosen, SafeInv, ChoiceInv
    <2> QED
      BY <1>1, <1>9, <2>1, DropStep DEF SetRoleDone, Svc, TypeOK
  <1> QED
    BY <1>2, <1>3, <1>4, <1>5, <1>6, <1>7, <1>8, <1>9

LEMMA WriterStep == SafeInv /\ (WriterNext \/ Restart) => SafeInv'
  <1> SUFFICES ASSUME SafeInv,
                      \/ \E role \in Role \cup {NoRole} : ResetRole(role)
                      \/ ResetRoleDone \/ ResetRoleUnanswered
                      \/ \E u \in State : SetByHand(u)
                      \/ Restart
               PROVE  SafeInv'
    BY DEF WriterNext
  <1>1. /\ TypeOK /\ user \in State /\ req \in [Req -> Request]
        /\ \A q \in Req : Chosen(req[q])
    BY DEF SafeInv, TypeOK, ChoiceInv
  <1>2. ASSUME NEW role \in Role \cup {NoRole}, ResetRole(role) PROVE SafeInv'
    <2>1. [user EXCEPT !.role = role] \in State
      BY <1>1 DEF State
    <2>2. RoleInv' /\ resets' \in Nat
      BY <1>1, <1>2 DEF ResetRole, RoleInv, SafeInv, TypeOK
    <2> QED
      BY <1>1, <1>2, <2>1, <2>2, ChangeStep DEF ResetRole, TypeOK
  <1>3. CASE ResetRoleDone
    BY <1>1, <1>3, DropStep DEF ResetRoleDone, Svc
  <1>4. CASE ResetRoleUnanswered
    BY <1>4 DEF ResetRoleUnanswered, Fault, hist, SafeInv, TypeOK, SeenInv, CacheInv,
                Known, InvalidationTakesEffect, Fresh, ChoiceInv, RoleInv
  <1>5. ASSUME NEW u \in State, SetByHand(u) PROVE SafeInv'
    <2>1. u.role = user.role \/ u.role = Admin
      BY <1>5 DEF SetByHand
    <2>2. Admin # NoRole
      BY DEF Admin, NoRole
    <2>3. RoleInv'
      BY <1>1, <1>5, <2>1, <2>2 DEF SetByHand, Change, RoleInv, SafeInv, TypeOK
    <2> QED
      BY <1>1, <1>5, <2>3, ChangeStep DEF SetByHand, TypeOK
  <1>6. CASE Restart
    <2>1. TypeOK'
      BY <1>1, <1>6, Types DEF Restart, Fault, TypeOK
    <2>2. SeenInv' /\ CacheInv' /\ InvalidationTakesEffect' /\ ChoiceInv'
      BY <1>6, Types DEF Restart, SeenInv, CacheInv, InvalidationTakesEffect, Fresh, ChoiceInv, Chosen
    <2> QED
      BY <1>6, <2>1, <2>2 DEF Restart, SafeInv, RoleInv
  <1> QED
    BY <1>2, <1>3, <1>4, <1>5, <1>6

LEMMA SafeStep == SafeInv /\ [Next]_vars => SafeInv'
  <1>1. SafeInv /\ UNCHANGED vars => SafeInv'
    BY DEF vars, hist, bound, SafeInv, TypeOK, SeenInv, CacheInv, Known,
           InvalidationTakesEffect, Fresh, ChoiceInv, RoleInv
  <1> QED
    BY <1>1, RequestNextStep, WriterStep, TickStep DEF Next

LEMMA Safe == Spec => []SafeInv
  BY SafeInit, SafeStep, PTL DEF Spec

-----------------------------------------------------------------------------
(* The theorems.                                                             *)

\* Every variable keeps its type, and no entry outlives its TTL.
THEOREM TypeCorrect == Spec => []TypeOK
  <1>1. SafeInv => TypeOK
    BY DEF SafeInv
  <1> QED
    BY <1>1, Safe, PTL

\* Of any number of concurrent requests to choose a role one succeeds per reset.
THEOREM ChosenOnce == Spec => []RoleChosenOnce
  <1>1. SafeInv => RoleChosenOnce
    BY DEF SafeInv, RoleInv, RoleChosenOnce, TypeOK
  <1> QED
    BY <1>1, Safe, PTL

\* An invalidation that meets no look-up under way takes effect at once.
THEOREM InvalidationWorks == Spec => []InvalidationTakesEffect
  <1>1. SafeInv => InvalidationTakesEffect
    BY DEF SafeInv
  <1> QED
    BY <1>1, Safe, PTL

\* What a decision rests on is in the window of the staleness bound.
LEMMA Recently ==
  ASSUME SafeInv, NEW s \in Svc, Fresh(s)
  PROVE  (\E k \in Window : cache[s].state \in past[k])
         \/ (cache[s].state = FailOpen /\ failed \in Window)
  <1>1. failed <= TTL - cache[s].left => failed \in Window
    BY Types DEF SafeInv, TypeOK, Entry, Fresh
  <1> QED
    BY <1>1 DEF SafeInv, CacheInv, Fresh, Known

\* Whom the guards let through, given the state they decide by.
LEMMA Decisions ==
  ASSUME NEW rq \in Request, NEW st \in State
  PROVE  /\ rq.stage = "jwt" /\ (Decided(rq, st).stage = "guard" \/ Decided(rq, st).pc = "handler")
              => st.status = "active"
         /\ Decided(rq, st).pc = "handler" /\ Decided(rq, st).kind \in Gated
              => st.role = Decided(rq, st).kind
  <1>0. st.status \in {"active", "blocked"} /\ rq.stage \in {"jwt", "guard"}
    BY DEF State, Request
  <1>1. CASE rq.stage = "jwt" /\ JwtRefuses(st)
    BY <1>1 DEF Decided, Idle
  <1>2. CASE rq.stage = "jwt" /\ ~JwtRefuses(st) /\ rq.kind \in Gated
    <2>1. Decided(rq, st).pc = "call"
      BY <1>2 DEF Decided, Idle
    <2> QED
      BY <1>0, <1>2, <2>1 DEF JwtRefuses
  <1>3. CASE rq.stage = "guard" /\ GuardRefuses(rq.kind, st)
    BY <1>3 DEF Decided, Idle
  <1>4. CASE /\ ~(rq.stage = "jwt" /\ JwtRefuses(st))
             /\ ~(rq.stage = "jwt" /\ ~JwtRefuses(st) /\ rq.kind \in Gated)
             /\ ~(rq.stage = "guard" /\ GuardRefuses(rq.kind, st))
    <2>1. Decided(rq, st).kind = rq.kind
      BY <1>4 DEF Decided, Idle
    <2> QED
      BY <1>0, <1>4, <2>1 DEF JwtRefuses, GuardRefuses
  <1> QED
    BY <1>1, <1>2, <1>3, <1>4

\* Request r is admitted with a right to it.
Rightly(r) ==
  /\ PassesJwt(r) => failed' \in Window
                     \/ \E k \in Window : \E u \in past[k] : u.status = "active"
  /\ Enters(r) /\ req'[r].kind \in Gated =>
       \E k \in Window : \E u \in past[k] : u.role = req'[r].kind

\* st was in the row recently, or stands for a recent failure.
Founded(st) == (\E k \in Window : st \in past[k]) \/ (st = FailOpen /\ failed' \in Window)

LEMMA DecidedRightly ==
  ASSUME SafeInv, NEW r \in Req, NEW rq \in Request, NEW st \in State, Founded(st),
         rq.stage = req[r].stage, req'[r] = Decided(rq, st)
  PROVE  Rightly(r)
  <1>1. PassesJwt(r) => st.status = "active"
    BY Decisions DEF PassesJwt
  <1>2. Enters(r) /\ req'[r].kind \in Gated => st.role = req'[r].kind /\ st # FailOpen
    <2>1. FailOpen.role \notin Gated
      BY ConstantsAssumption DEF FailOpen, Gated, Admin, NoRole
    <2> QED
      BY <2>1, Decisions DEF Enters
  <1> QED
    BY <1>1, <1>2 DEF Rightly, Founded

LEMMA AskedRightly ==
  ASSUME SafeInv, NEW r \in Req, NEW rq \in Request, UNCHANGED failed,
         rq.stage = req[r].stage, req'[r] = Asked(rq)
  PROVE  Rightly(r)
  <1>1. SvcOf(rq) \in Svc /\ cache[SvcOf(rq)].state \in State
    BY SvcOfType DEF SafeInv, TypeOK, Entry
  <1>2. CASE Fresh(SvcOf(rq))
    <2>1. Founded(cache[SvcOf(rq)].state)
      BY <1>1, <1>2, Recently DEF Founded
    <2> QED
      BY <1>1, <1>2, <2>1, DecidedRightly DEF Asked
  <1>3. CASE ~Fresh(SvcOf(rq))
    <2>1. req'[r].pc = "query" /\ req'[r].stage = rq.stage
      BY <1>3 DEF Asked, Request
    <2> QED
      BY <2>1 DEF Rightly, PassesJwt, Enters
  <1> QED
    BY <1>2, <1>3

\* Any other change of a request lets nobody through.
LEMMA QuietRightly ==
  ASSUME NEW r \in Req, req'[r].stage = req[r].stage \/ req'[r] = Idle,
         req'[r].pc = "handler" => req[r].pc = "handler"
  PROVE  Rightly(r)
  BY DEF Rightly, PassesJwt, Enters, Idle

LEMMA AdmitStep == SafeInv /\ [Next]_vars => \A r \in Req : Rightly(r)
  <1> SUFFICES ASSUME SafeInv, [Next]_vars, NEW r \in Req PROVE Rightly(r)
    OBVIOUS
  <1>0. TypeOK /\ req \in [Req -> Request] /\ \A q \in Req : req[q].seen \in State
    BY DEF SafeInv, TypeOK, Request
  <1>1. CASE UNCHANGED req
    BY <1>1, QuietRightly
  <1>2. ASSUME NEW q \in Req, NEW kind \in Kind, NEW role \in Role \cup {NoRole},
               Arrive(q, kind, role)
        PROVE  Rightly(r)
    <2>1. CASE q = r
      <3> DEFINE rq == [Idle EXCEPT !.kind = kind, !.role = role]
      <3>1. rq \in Request /\ rq.stage = "jwt"
        BY Types DEF Request, Idle
      <3>2. req'[r] = Asked(rq)
        BY <1>0, <1>2, <2>1 DEF Arrive
      <3>3. UNCHANGED failed
        BY <1>2 DEF Arrive, hist
      <3>4. CASE req[r].stage = "jwt"
        BY <3>1, <3>2, <3>3, <3>4, AskedRightly
      <3>5. CASE req[r].stage # "jwt"
        <4>1. Asked(rq).pc = "handler" => Asked(rq).kind \notin Gated
          BY <3>1 DEF Asked, Decided, Idle
        <4> QED
          BY <3>2, <3>5, <4>1 DEF Rightly, PassesJwt, Enters
      <3> QED
        BY <3>4, <3>5
    <2>2. CASE q # r
      BY <1>0, <1>2, <2>2, QuietRightly DEF Arrive
    <2> QED
      BY <2>1, <2>2
  <1>3. ASSUME NEW q \in Req, Guard(q) PROVE Rightly(r)
    <2>1. CASE q = r
      BY <1>0, <1>3, <2>1, AskedRightly DEF Guard, hist
    <2>2. CASE q # r
      BY <1>0, <1>3, <2>2, QuietRightly DEF Guard
    <2> QED
      BY <2>1, <2>2
  <1>4. ASSUME NEW q \in Req, Fill(q) PROVE Rightly(r)
    <2>1. CASE q = r
      <3>1. req[r].age \in Window /\ req[r].seen \in past[req[r].age]
        BY <1>0, <1>4, <2>1, Types DEF Fill, SafeInv, SeenInv, Request
      <3>2. Founded(req[r].seen)
        BY <3>1 DEF Founded
      <3> QED
        BY <1>0, <1>4, <2>1, <3>2, DecidedRightly DEF Fill
    <2>2. CASE q # r
      BY <1>0, <1>4, <2>2, QuietRightly DEF Fill
    <2> QED
      BY <2>1, <2>2
  <1>5. ASSUME NEW q \in Req, QueryFails(q) PROVE Rightly(r)
    <2>1. CASE q = r
      <3>1. Founded(FailOpen)
        BY <1>5, Types DEF Founded, QueryFails
      <3> QED
        BY <1>0, <1>5, <2>1, <3>1, Types, DecidedRightly DEF QueryFails
    <2>2. CASE q # r
      BY <1>0, <1>5, <2>2, QuietRightly DEF QueryFails
    <2> QED
      BY <2>1, <2>2
  <1>6. ASSUME NEW q \in Req,
               Query(q) \/ HandlerDone(q) \/ SetRole(q) \/ SetRoleUnanswered(q)
               \/ SetRoleRefused(q) \/ SetRoleDone(q)
        PROVE  Rightly(r)
    <2>1. \/ req'[r] = Idle
          \/ req'[r].stage = req[r].stage /\ req'[r].pc \in {req[r].pc, "answer", "invalidate"}
      BY <1>0, <1>6 DEF Query, HandlerDone, SetRole, SetRoleUnanswered, SetRoleRefused,
                        SetRoleDone, Request
    <2> QED
      BY <2>1, QuietRightly DEF Idle
  <1>7. CASE Tick \/ Restart
    <2>1. req'[r] = Idle \/ (req'[r].stage = req[r].stage /\ req'[r].pc = req[r].pc)
      BY <1>0, <1>7 DEF Tick, Restart, Request
    <2> QED
      BY <2>1, QuietRightly DEF Idle
  <1>8. WriterNext => UNCHANGED req
    BY DEF WriterNext, ResetRole, ResetRoleDone, ResetRoleUnanswered, SetByHand
  <1> QED
    BY <1>1, <1>2, <1>3, <1>4, <1>5, <1>6, <1>7, <1>8 DEF Next, RequestNext, vars

\* The guards admit nobody who has not had the right to it within the bound.
THEOREM Admission == Spec => AdmittedRightly
  <1>1. SafeInv /\ [Next]_vars =>
          [\A r \in Req :
             /\ PassesJwt(r) => failed' \in Window
                                \/ \E k \in Window : \E u \in past[k] : u.status = "active"
             /\ Enters(r) /\ req'[r].kind \in Gated =>
                  \E k \in Window : \E u \in past[k] : u.role = req'[r].kind]_vars
    BY AdmitStep DEF Rightly
  <1> QED
    BY <1>1, Safe, PTL DEF Spec, AdmittedRightly

-----------------------------------------------------------------------------
(* The refinement of StaleRegister.                                           *)

View == [s \in Svc |-> IF Fresh(s) THEN cache[s].state ELSE FailOpen]

ViewInv == View \in [Svc -> Register!Recent]

LEMMA ViewRecent == SafeInv => ViewInv
  <1> SUFFICES ASSUME SafeInv, NEW s \in Svc
               PROVE  (IF Fresh(s) THEN cache[s].state ELSE FailOpen) \in Register!Recent
    BY DEF View, ViewInv
  <1>1. Register!Recent = {FailOpen} \cup UNION {past[k] : k \in Window}
    BY DEF Register!Recent, Window
  <1> QED
    BY <1>1, Recently

\* A step either writes the row and leaves the entries alone, or lets time pass, or
\* leaves the row alone and shows what it has held.
LEMMA ThreeKinds ==
  ASSUME SafeInv, [Next]_vars
  PROVE  \/ user' \in State /\ past' = [past EXCEPT ![0] = @ \cup {user'}] /\ UNCHANGED cache
         \/ Tick
         \/ UNCHANGED <<user, past>>
  <1>1. user \in State /\ \A r \in Req : req[r].role \in Role \cup {NoRole}
    BY DEF SafeInv, TypeOK, Request
  <1>2. \A role \in Role \cup {NoRole} : [user EXCEPT !.role = role] \in State
    BY <1>1 DEF State
  <1>3. CASE UNCHANGED vars
    BY <1>3 DEF vars, hist
  <1>4. ASSUME NEW r \in Req,
               \/ \E kind \in Kind, role \in Role \cup {NoRole} : Arrive(r, kind, role)
               \/ Guard(r) \/ Query(r) \/ Fill(r) \/ QueryFails(r) \/ HandlerDone(r)
               \/ SetRoleRefused(r) \/ SetRoleDone(r)
        PROVE  UNCHANGED <<user, past>>
    BY <1>4 DEF Arrive, Guard, Query, Fill, QueryFails, HandlerDone, SetRoleRefused,
                SetRoleDone, hist
  <1>5. ASSUME NEW r \in Req, SetRole(r) \/ SetRoleUnanswered(r)
        PROVE  /\ user' \in State /\ past' = [past EXCEPT ![0] = @ \cup {user'}]
               /\ UNCHANGED cache
    BY <1>1, <1>2, <1>5 DEF SetRole, SetRoleUnanswered, Change
  <1>6. ASSUME WriterNext
        PROVE  \/ /\ user' \in State /\ past' = [past EXCEPT ![0] = @ \cup {user'}]
                  /\ UNCHANGED cache
               \/ UNCHANGED <<user, past>>
    BY <1>2, <1>6 DEF WriterNext, ResetRole, ResetRoleDone, ResetRoleUnanswered, SetByHand,
                      Change, hist
  <1>7. CASE Restart
    BY <1>7 DEF Restart
  <1> QED
    BY <1>3, <1>4, <1>5, <1>6, <1>7 DEF Next, RequestNext

LEMMA RegisterStep ==
  SafeInv /\ SafeInv' /\ ViewInv' /\ [Next]_vars => [Register!Next]_(Register!vars)
  <1> SUFFICES ASSUME SafeInv, SafeInv', ViewInv', [Next]_vars PROVE Register!Next
    OBVIOUS
  <1>1. CASE UNCHANGED <<user, past>>
    <2>1. Register!Recent' = Register!Recent
      BY <1>1 DEF Register!Recent
    <2>2. View' \in [Svc -> Register!Recent]
      BY <2>1 DEF ViewInv
    <2> QED
      BY <1>1, <2>2 DEF Register!Next, Register!Look, View
  <1>2. CASE /\ user' \in State /\ past' = [past EXCEPT ![0] = @ \cup {user'}]
             /\ UNCHANGED cache
    BY <1>2 DEF Register!Next, Register!Write, Fresh
  <1>3. CASE Tick
    <2>1. \A s \in Svc : \/ View'[s] = FailOpen
                         \/ \E k \in 0 .. Bound : View'[s] \in past'[k]
      <3>1. \A s \in Svc : View'[s] \in Register!Recent'
        BY DEF ViewInv
      <3> QED
        BY <3>1 DEF Register!Recent
    <2>2. View' \in [Svc -> State]
      BY Types DEF View, SafeInv, TypeOK, Entry
    <2>3. past' = [k \in 0 .. Bound |-> IF k = 0 THEN {user} ELSE past[k - 1]]
      BY <1>3 DEF Tick, Window
    <2> QED
      BY <1>3, <2>1, <2>2, <2>3 DEF Register!Next, Register!Tick, View, Tick
  <1> QED
    BY <1>1, <1>2, <1>3, ThreeKinds

\* The caches, with the guards, the writers, failing and slow look-ups and restarts
\* around them, implement the register with bounded staleness.
THEOREM Staleness == Spec => StalenessBounded
  <1>1. Init => Register!Init
    BY Types DEF Init, Register!Init, Window, Fresh, Svc
  <1> QED
    BY <1>1, Safe, ViewRecent, RegisterStep, PTL DEF Spec, StalenessBounded, Register!Spec
=============================================================================
