---------------------------------- MODULE Access ----------------------------------
(***************************************************************************)
(* Who may call what: the cached account state that JwtStrategy, RolesGuard    *)
(* and AdminGuard consult on every request, and everything that changes it --  *)
(*   - PATCH /users/me/role               (UsersService.setRole)               *)
(*   - POST /admin/users/:wallet/role/reset  (AdminRolesController)            *)
(*   - the operator who blocks an account in the table                         *)
(* for one wallet, with requests interleaved at every await, slow and failing   *)
(* look-ups, and restarts. AuthModule and AdminModule both list                *)
(* UserStatusService among their providers, so there are two instances, each    *)
(* with a Map of its own.                                                      *)
(***************************************************************************)
EXTENDS Integers, FiniteSets

CONSTANTS
  Role,      \* the roles a user may choose
  Req,       \* slots for concurrent requests
  TTL,       \* USER_STATUS_CACHE_TTL_MS, in seconds
  Latency,   \* longest time the answer to a look-up takes
  MaxWrite,  \* bound on changes of the row
  MaxFault   \* bound on failing calls and restarts

Admin  == "admin"
NoRole == "none"

ASSUME ConstantsAssumption ==
  /\ {Admin, NoRole, "choose"} \cap Role = {}
  /\ TTL \in Nat \ {0}
  /\ Latency \in Nat
  /\ MaxWrite \in Nat
  /\ MaxFault \in Nat

\* The instances of UserStatusService: the one that AuthModule exports to
\* JwtStrategy, RolesGuard and UsersService, and the one of AdminModule.
Svc == {"auth", "admin"}

State == [status : {"active", "blocked"}, role : Role \cup {Admin, NoRole}]

\* What a failed look-up, and a wallet without a row, counts as.
FailOpen == [status |-> "active", role |-> NoRole]

VARIABLES
  user,     \* users table: status and role of the wallet
  cache,    \* UserStatusService.cache of each instance
  req,      \* requests in progress
  resetPc,  \* the admin's reset request in progress
  past,     \* history: past[k] holds the states the row had k seconds ago
  fresh,    \* history: instances whose entry was dropped after the last write
  failed,   \* history: how long ago a look-up failed last, if it matters yet
  chosen, resets,   \* history: successful setRole and reset requests
  writes, faults    \* bounded by MaxWrite, MaxFault

hist  == <<past, fresh, failed, chosen, resets>>
bound == <<writes, faults>>
vars  == <<user, cache, req, resetPc, hist, bound>>

\* The documented staleness bound, with the time of a look-up added.
Bound == TTL + Latency
Window == 0 .. Bound
Forgotten == Bound + 1

\* An entry has left seconds to live; one that has none is never served again and
\* is as good as no entry.
Entry == [state : State, left : Nat]
NoEntry == [state |-> FailOpen, left |-> 0]

\* kind: a role for a route behind RolesGuard, Admin for one behind AdminGuard,
\* "choose" for PATCH /users/me/role, which needs a valid token only.
\* stage: whose look-up the request is at; seen, age: the row as it was read, and how long ago.
Kind    == {"choose", Admin} \cup Role
Request == [pc : {"idle", "call", "query", "answer", "handler", "invalidate"},
            kind : Kind, stage : {"jwt", "guard"}, role : Role \cup {NoRole},
            seen : State, age : Nat]
Idle == [pc |-> "idle", kind |-> "choose", stage |-> "jwt", role |-> NoRole,
         seen |-> FailOpen, age |-> 0]

Init ==
  /\ user = FailOpen
  /\ cache = [s \in Svc |-> NoEntry]
  /\ req = [r \in Req |-> Idle]
  /\ past = [k \in Window |-> {user}]
  /\ resetPc = "idle"
  /\ fresh = {}
  /\ failed = Forgotten
  /\ chosen = 0
  /\ resets = 0
  /\ writes = 0
  /\ faults = 0

Fault == faults < MaxFault /\ faults' = faults + 1

\* The row changes: no instance has dropped its entry since.
Change(u) ==
  /\ writes < MaxWrite
  /\ writes' = writes + 1
  /\ user' = u
  /\ past' = [past EXCEPT ![0] = @ \cup {u}]
  /\ fresh' = {}

-----------------------------------------------------------------------------
(* UserStatusService.                                                        *)

\* The instance that a request asks.
SvcOf(rq) == IF rq.stage = "guard" /\ rq.kind = Admin THEN "admin" ELSE "auth"

Fresh(s) == cache[s].left > 0

\* Date.now() + USER_STATUS_CACHE_TTL_MS, counted from now.
Expiry == TTL

\* The routes with a guard besides JwtAuthGuard.
Gated == Role \cup {Admin}

\* Mutant: JwtStrategy checks the signature of the token and nothing else.
JwtRefusesNobody(st) == FALSE

\* ensureNotBlocked.
JwtRefuses(st) == st.status = "blocked"

\* RolesGuard refuses a role other than the route's; AdminGuard refuses blocked
\* accounts and roles other than admin.
GuardRefuses(kind, st) ==
  \/ st.role # kind
  \/ kind = Admin /\ st.status = "blocked"

\* A request goes on with the state st that getUserState returned: it is refused,
\* passes on to the second guard of its route, or reaches the handler.
Decided(rq, st) ==
  CASE rq.stage = "jwt" /\ JwtRefuses(st) -> Idle
    [] rq.stage = "jwt" /\ ~JwtRefuses(st) /\ rq.kind \in Gated ->
         [Idle EXCEPT !.kind = rq.kind, !.stage = "guard", !.pc = "call"]
    [] rq.stage = "guard" /\ GuardRefuses(rq.kind, st) -> Idle
    [] OTHER -> [Idle EXCEPT !.kind = rq.kind, !.stage = rq.stage, !.role = rq.role,
                             !.pc = "handler"]

\* getUserState: an entry that has not expired is the answer.
Asked(rq) ==
  IF Fresh(SvcOf(rq)) THEN Decided(rq, cache[SvcOf(rq)].state)
  ELSE [rq EXCEPT !.pc = "query"]

\* A request with a valid access token reaches JwtStrategy.
Arrive(r, kind, role) ==
  /\ req[r].pc = "idle"
  /\ (role # NoRole) <=> (kind = "choose")
  /\ req' = [req EXCEPT ![r] = Asked([Idle EXCEPT !.kind = kind, !.role = role])]
  /\ UNCHANGED <<user, cache, resetPc, hist, bound>>

\* RolesGuard, or AdminGuard, asks in turn.
Guard(r) ==
  /\ req[r].pc = "call"
  /\ req' = [req EXCEPT ![r] = Asked(req[r])]
  /\ UNCHANGED <<user, cache, resetPc, hist, bound>>

\* The database reads the row; the answer is on its way.
Query(r) ==
  /\ req[r].pc = "query"
  /\ req' = [req EXCEPT ![r].pc = "answer", ![r].seen = user, ![r].age = 0]
  /\ UNCHANGED <<user, cache, resetPc, hist, bound>>

\* The answer is cached for a full TTL from its arrival, whatever was written or
\* invalidated in the meantime.
Fill(r) ==
  /\ req[r].pc = "answer"
  /\ cache' = [cache EXCEPT ![SvcOf(req[r])] = [state |-> req[r].seen, left |-> Expiry]]
  /\ req' = [req EXCEPT ![r] = Decided(@, req[r].seen)]
  /\ UNCHANGED <<user, resetPc, past, fresh, failed, chosen, resets, bound>>

\* A failing look-up is logged; "active" without a role is cached and served.
QueryFails(r) ==
  /\ req[r].pc \in {"query", "answer"}
  /\ Fault
  /\ failed' = 0
  /\ cache' = [cache EXCEPT ![SvcOf(req[r])] = [state |-> FailOpen, left |-> Expiry]]
  /\ req' = [req EXCEPT ![r] = Decided(@, FailOpen)]
  /\ UNCHANGED <<user, resetPc, past, fresh, chosen, resets, writes>>

\* The handler of any other route is done.
HandlerDone(r) ==
  /\ req[r].pc = "handler" /\ req[r].kind # "choose"
  /\ req' = [req EXCEPT ![r] = Idle]
  /\ UNCHANGED <<user, cache, resetPc, hist, bound>>

\* invalidate(). From here on instance s knows nothing older than the last write,
\* unless a look-up that read the row before it is still under way.
Invalidate(s) ==
  /\ cache' = [cache EXCEPT ![s] = NoEntry]
  /\ fresh' = IF \E r \in Req : SvcOf(req[r]) = s /\ req[r].pc = "answer" /\ req[r].seen # user
              THEN fresh ELSE fresh \cup {s}

-----------------------------------------------------------------------------
(* The writers of the row.                                                   *)

\* Mutant: the UPDATE of setRoleIfUnset has no "role IS NULL".
RoleUnsetAnyway == TRUE

\* setRoleIfUnset: UPDATE users SET role ... WHERE role IS NULL.
RoleUnset == user.role = NoRole

SetRole(r) ==
  /\ req[r].pc = "handler" /\ req[r].kind = "choose"
  /\ RoleUnset
  /\ Change([user EXCEPT !.role = req[r].role])
  /\ chosen' = chosen + 1
  /\ req' = [req EXCEPT ![r].pc = "invalidate"]
  /\ UNCHANGED <<cache, resetPc, failed, resets, faults>>

\* The row was updated but the call ended with an error: nothing is invalidated.
SetRoleUnanswered(r) ==
  /\ req[r].pc = "handler" /\ req[r].kind = "choose"
  /\ RoleUnset
  /\ Fault
  /\ Change([user EXCEPT !.role = req[r].role])
  /\ chosen' = chosen + 1
  /\ req' = [req EXCEPT ![r] = Idle]
  /\ UNCHANGED <<cache, resetPc, failed, resets>>

\* No row was updated (a second read tells 409 from 404), or the UPDATE failed.
SetRoleRefused(r) ==
  /\ req[r].pc = "handler" /\ req[r].kind = "choose"
  /\ req' = [req EXCEPT ![r] = Idle]
  /\ UNCHANGED <<user, cache, resetPc, hist, bound>>

\* Mutant: the entry of the other instance is dropped.
SetRoleDoneElsewhere(r) ==
  /\ req[r].pc = "invalidate"
  /\ cache' = [cache EXCEPT !["admin"] = NoEntry]
  /\ fresh' = fresh \cup {"auth"}
  /\ req' = [req EXCEPT ![r] = Idle]
  /\ UNCHANGED <<user, resetPc, past, failed, chosen, resets, bound>>

\* The UPDATE was answered: setRole invalidates the instance of AuthModule.
SetRoleDone(r) ==
  /\ req[r].pc = "invalidate"
  /\ Invalidate("auth")
  /\ req' = [req EXCEPT ![r] = Idle]
  /\ UNCHANGED <<user, resetPc, past, failed, chosen, resets, bound>>

\* resetUserRole by another wallet, an admin: forceSetRole, without a condition.
ResetRole(role) ==
  /\ resetPc = "idle"
  /\ Change([user EXCEPT !.role = role])
  /\ resets' = resets + 1
  /\ resetPc' = "invalidate"
  /\ UNCHANGED <<cache, req, failed, chosen, faults>>

\* The controller, one of AdminModule, invalidates the instance injected there.
ResetRoleDone ==
  /\ resetPc = "invalidate"
  /\ Invalidate("admin")
  /\ resetPc' = "idle"
  /\ UNCHANGED <<user, req, past, failed, chosen, resets, bound>>

\* The UPDATE was applied but ended with an error.
ResetRoleUnanswered ==
  /\ resetPc = "invalidate"
  /\ Fault
  /\ resetPc' = "idle"
  /\ UNCHANGED <<user, cache, req, hist, writes>>

\* An operator blocks, unblocks or promotes the account in the table; no handler
\* of the code does.
SetByHand(u) ==
  /\ \/ u.role = user.role /\ u.status # user.status
     \/ u.role = Admin /\ user.role # Admin /\ u.status = user.status
  /\ Change(u)
  /\ UNCHANGED <<cache, req, resetPc, failed, chosen, resets, faults>>

-----------------------------------------------------------------------------
\* Mutant: entries do not expire.
TickWithoutExpiry ==
  /\ \A r \in Req : req[r].pc = "answer" => req[r].age < Latency
  /\ req' = [r \in Req |-> IF req[r].pc = "answer" THEN [req[r] EXCEPT !.age = @ + 1]
                           ELSE req[r]]
  /\ past' = [k \in Window |-> IF k = 0 THEN {user} ELSE past[k - 1]]
  /\ failed' = IF failed < Forgotten THEN failed + 1 ELSE failed
  /\ UNCHANGED <<user, cache, resetPc, fresh, chosen, resets, bound>>

\* A second passes. A look-up is answered, or fails, within Latency seconds.
Tick ==
  /\ \A r \in Req : req[r].pc = "answer" => req[r].age < Latency
  /\ req' = [r \in Req |-> IF req[r].pc = "answer" THEN [req[r] EXCEPT !.age = @ + 1]
                           ELSE req[r]]
  /\ cache' = [s \in Svc |-> IF cache[s].left > 1 THEN [cache[s] EXCEPT !.left = @ - 1]
                             ELSE NoEntry]
  /\ past' = [k \in Window |-> IF k = 0 THEN {user} ELSE past[k - 1]]
  /\ failed' = IF failed < Forgotten THEN failed + 1 ELSE failed
  /\ UNCHANGED <<user, resetPc, fresh, chosen, resets, bound>>

\* The process restarts: the Maps are empty again.
Restart ==
  /\ Fault
  /\ cache' = [s \in Svc |-> NoEntry]
  /\ req' = [r \in Req |-> Idle]
  /\ resetPc' = "idle"
  /\ fresh' = Svc
  /\ UNCHANGED <<user, past, failed, chosen, resets, writes>>

RequestNext ==
  \E r \in Req :
    \/ \E kind \in Kind, role \in Role \cup {NoRole} : Arrive(r, kind, role)
    \/ Guard(r) \/ Query(r) \/ Fill(r) \/ QueryFails(r) \/ HandlerDone(r)
    \/ SetRole(r) \/ SetRoleUnanswered(r) \/ SetRoleRefused(r) \/ SetRoleDone(r)

WriterNext ==
  \/ \E role \in Role \cup {NoRole} : ResetRole(role)
  \/ ResetRoleDone \/ ResetRoleUnanswered
  \/ \E u \in State : SetByHand(u)

Next == RequestNext \/ WriterNext \/ Tick \/ Restart

Spec == Init /\ [][Next]_vars

-----------------------------------------------------------------------------
(* Properties.                                                               *)

\* Every variable stays within its type; no entry outlives its TTL.
TypeOK ==
  /\ user \in State
  /\ cache \in [Svc -> Entry]
  /\ \A s \in Svc : cache[s].left <= TTL
  /\ req \in [Req -> Request]
  /\ past \in [Window -> SUBSET State]
  /\ fresh \in SUBSET Svc
  /\ resetPc \in {"idle", "invalidate"}
  /\ failed \in 0 .. Forgotten
  /\ chosen \in Nat /\ resets \in Nat /\ writes \in Nat /\ faults \in Nat

\* Request r gets past JwtStrategy, and into the handler of its route.
PassesJwt(r) == req[r].stage = "jwt" /\ req[r].pc \in {"idle", "query", "answer"}
                /\ (req'[r].stage = "guard" \/ req'[r].pc = "handler")
Enters(r) == req[r].pc # "handler" /\ req'[r].pc = "handler"

\* Whoever is let through had the right to it a staleness bound ago at most:
\* RolesGuard and AdminGuard admit a wallet only if it really had the role (neither
\* the claim in the token nor a failing look-up opens a gate), JwtStrategy admits
\* a blocked account only within the bound of the block or of a failing look-up.
AdmittedRightly ==
  [][\A r \in Req :
       /\ PassesJwt(r) => failed' \in Window
                          \/ \E k \in Window : \E u \in past[k] : u.status = "active"
       /\ Enters(r) /\ req'[r].kind \in Gated =>
            \E k \in Window : \E u \in past[k] : u.role = req'[r].kind]_vars

\* Once setRole has dropped the entry while no look-up with an older answer was
\* under way, RolesGuard decides by the new role at once (or by the fail-open
\* state), until the row is written again. The same for AdminGuard after a reset.
InvalidationTakesEffect ==
  \A s \in fresh :
    /\ Fresh(s) => cache[s].state \in {user, FailOpen}
    /\ \A r \in Req : SvcOf(req[r]) = s /\ req[r].pc = "answer" => req[r].seen = user

\* A wallet chooses its role once: of any number of concurrent requests one
\* succeeds, and another one only after an admin has reset the role.
RoleChosenOnce == chosen <= resets + 1

\* The caches implement the register with bounded staleness that the
\* documentation describes, with the time of a look-up added to the bound.
Register == INSTANCE StaleRegister WITH
  Value <- State, Default <- FailOpen, Reader <- Svc, Bound <- Bound,
  value <- user, view <- [s \in Svc |-> IF Fresh(s) THEN cache[s].state ELSE FailOpen]
StalenessBounded == Register!Spec

=============================================================================
