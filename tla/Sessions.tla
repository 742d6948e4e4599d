--------------------------------- MODULE Sessions ---------------------------------
(***************************************************************************)
(* Sign-in and session rotation for one wallet: the nonces and sessions       *)
(* tables and everything that writes them --                                  *)
(*   - POST /auth/nonce, /auth/verify and /auth/refresh  (AuthService)         *)
(*   - the nonce and session clean-up crons                                   *)
(* with requests interleaved at every await, failing database calls, lost      *)
(* responses and crashes. A refresh token is a JWT over wallet, family and     *)
(* the second of issue, with nothing else in it that changes: two tokens of    *)
(* one family signed in the same second are the same token, and sessions has   *)
(* no unique index on the token's hash.                                       *)
(***************************************************************************)
EXTENDS Integers, FiniteSets

CONSTANTS
  Nonce,     \* challenge nonces
  Fam,       \* session family ids (UUIDs)
  Slot,      \* slots for concurrent requests
  None,      \* no nonce, no family
  MaxTime,   \* bound on the clock
  MaxAsk,    \* bound on refresh requests in a behaviour
  MaxFault   \* bound on crashes, failing calls and lost responses

ASSUME ConstantsAssumption ==
  /\ None \notin Nonce \cup Fam
  /\ MaxTime \in Nat
  /\ MaxAsk \in Nat
  /\ MaxFault \in Nat

VARIABLES
  nonces,    \* nonces table, used_at: "unused" or "used" while there is a row
  expired,   \* nonces past their expires_at
  blocked,   \* users.status = 'blocked'
  sessions,  \* sessions table
  nextId,    \* sessions.id of the next row
  now,       \* the clock, in seconds
  deadline,  \* tokens issued before this second have expired
  req,       \* requests in progress
  opened,    \* families given to a login so far
  verified,  \* history: successful verifications of a nonce
  held,      \* history: tokens that reached the client
  unspent,   \* history: copies of a token received and not presented yet
  replayed,  \* history: families a token of which was presented once too often
  disturbed, \* history: families that met a failing call, crash or lost response
  revoked,   \* history: families revoked by handleRefreshReplay
  contained, \* history: families revoked while no exchange of theirs was running
  asks, faults \* bounded by MaxAsk, MaxFault

tables == <<nonces, sessions>>
clock  == <<now, deadline, expired>>
client == <<held, unspent, replayed>>
family == <<opened, disturbed, revoked, contained>>
vars   == <<nonces, sessions, blocked, nextId, clock, req, verified, client, family,
            asks, faults>>

NonceState == {"none", "unused", "used", "deleted"}
Second  == 0 .. MaxTime
Token   == [fam : Fam, sec : Second]
Session == [id : Nat, fam : Fam, sec : Second]
Request == [pc : {"idle", "claim", "delete", "revoke", "user", "sign", "insert"},
            nonce : Nonce \cup {None}, fam : Fam \cup {None}, id : Nat, sec : Second]

Idle == [pc |-> "idle", nonce |-> None, fam |-> None, id |-> 0, sec |-> 0]

Init ==
  /\ nonces = [n \in Nonce |-> "none"]
  /\ expired = {}
  /\ blocked = FALSE
  /\ sessions = {}
  /\ nextId = 0
  /\ now = 0
  /\ deadline = 0
  /\ req = [s \in Slot |-> Idle]
  /\ opened = {}
  /\ verified = [n \in Nonce |-> 0]
  /\ held = {}
  /\ unspent = [t \in Token |-> 0]
  /\ replayed = {}
  /\ disturbed = {}
  /\ revoked = {}
  /\ contained = {}
  /\ asks = 0
  /\ faults = 0

Fault == faults < MaxFault /\ faults' = faults + 1

\* The request of slot s is over: answered, refused or failed.
Done(s) == req' = [req EXCEPT ![s] = Idle]

SessionsOf(f) == {r \in sessions : r.fam = f}

\* The rows that hold the hash of t.
RowsOf(t) == {r \in sessions : r.fam = t.fam /\ r.sec = t.sec}

\* A refresh of family f took its row, or a login has chosen f, and the new
\* session is not stored yet.
Exchanging(f) ==
  \E s \in Slot : req[s].fam = f /\ req[s].pc \in {"delete", "user", "sign", "insert"}

-----------------------------------------------------------------------------
(* POST /auth/nonce and the first half of POST /auth/verify.                 *)

\* generateNonce.
IssueNonce(n) ==
  /\ nonces[n] = "none"
  /\ nonces' = [nonces EXCEPT ![n] = "unused"]
  /\ UNCHANGED <<sessions, blocked, nextId, clock, req, verified, client, family,
                 asks, faults>>

\* verifySignature looks for an unused row; without one it answers 401.
VerifySelect(s, n) ==
  /\ req[s].pc = "idle"
  /\ nonces[n] = "unused"
  /\ req' = [req EXCEPT ![s].pc = "claim", ![s].nonce = n]
  /\ UNCHANGED <<tables, blocked, nextId, clock, verified, client, family, asks, faults>>

\* Mutant: the claim has no "used_at IS NULL".
VerifyClaimAnyway(s) ==
  LET n == req[s].nonce IN
  /\ req[s].pc = "claim"
  /\ nonces' = [nonces EXCEPT ![n] = "used"]
  /\ verified' = [verified EXCEPT ![n] = @ + 1]
  /\ req' = [req EXCEPT ![s].pc = "user"]
  /\ UNCHANGED <<sessions, blocked, nextId, clock, client, family, asks, faults>>

\* UPDATE nonces SET used_at ... WHERE id = ? AND used_at IS NULL. The one request
\* that updates the row goes on to the checks of expiry, message and signature,
\* which make no call; a failed check leaves the nonce burned.
VerifyClaim(s) ==
  LET n == req[s].nonce IN
  /\ req[s].pc = "claim"
  /\ IF nonces[n] = "unused"
       THEN /\ nonces' = [nonces EXCEPT ![n] = "used"]
            /\ \/ Done(s) /\ UNCHANGED verified
               \/ /\ n \notin expired
                  /\ verified' = [verified EXCEPT ![n] = @ + 1]
                  /\ req' = [req EXCEPT ![s].pc = "user"]
       ELSE Done(s) /\ UNCHANGED <<nonces, verified>>
  /\ UNCHANGED <<sessions, blocked, nextId, clock, client, family, asks, faults>>

\* The claim reports an error; it may have been applied all the same.
VerifyClaimFails(s) ==
  LET n == req[s].nonce IN
  /\ req[s].pc = "claim"
  /\ Fault
  /\ \/ nonces[n] = "unused" /\ nonces' = [nonces EXCEPT ![n] = "used"]
     \/ UNCHANGED nonces
  /\ Done(s)
  /\ UNCHANGED <<sessions, blocked, nextId, clock, verified, client, family, asks>>

-----------------------------------------------------------------------------
(* POST /auth/refresh up to the new token.                                   *)

\* The client presents a token it received, or a copy of it that it presented
\* before. The JWT must not have expired. (The row expires after the JWT does.)
Present(t) ==
  /\ t \in held
  /\ t.sec >= deadline
  /\ asks < MaxAsk
  /\ asks' = asks + 1
  /\ unspent' = [unspent EXCEPT ![t] = IF @ > 0 THEN @ - 1 ELSE 0]
  /\ replayed' = IF unspent[t] > 0 THEN replayed ELSE replayed \cup {t.fam}
  /\ UNCHANGED held

\* .single(): one row is a session to rotate, none or several are an error, and
\* an error is handled as a replay.
RefreshSelect(s, t) ==
  /\ req[s].pc = "idle"
  /\ Present(t)
  /\ \/ /\ Cardinality(RowsOf(t)) = 1
        /\ \E r \in RowsOf(t) :
             req' = [req EXCEPT ![s].pc = "delete", ![s].fam = t.fam, ![s].id = r.id]
     \/ /\ Cardinality(RowsOf(t)) # 1
        /\ req' = [req EXCEPT ![s].pc = "revoke", ![s].fam = t.fam]
  /\ UNCHANGED <<tables, blocked, nextId, clock, verified, family, faults>>

\* The look-up itself fails: the same error branch.
RefreshSelectFails(s, t) ==
  /\ req[s].pc = "idle"
  /\ Present(t)
  /\ Fault
  /\ req' = [req EXCEPT ![s].pc = "revoke", ![s].fam = t.fam]
  /\ disturbed' = disturbed \cup {t.fam}
  /\ UNCHANGED <<tables, blocked, nextId, clock, verified, opened, revoked, contained>>

\* DELETE ... WHERE id = ?. Neither the count nor the error is looked at.
RefreshDelete(s) ==
  /\ req[s].pc = "delete"
  /\ sessions' = {r \in sessions : r.id # req[s].id}
  /\ req' = [req EXCEPT ![s].pc = "user"]
  /\ UNCHANGED <<nonces, blocked, nextId, clock, verified, client, family, asks, faults>>

RefreshDeleteFails(s) ==
  /\ req[s].pc = "delete"
  /\ Fault
  /\ req' = [req EXCEPT ![s].pc = "user"]
  /\ disturbed' = disturbed \cup {req[s].fam}
  /\ UNCHANGED <<tables, blocked, nextId, clock, verified, client, opened, revoked,
                 contained, asks>>

\* Mutant: the revocation goes by the token's row instead of by the family.
RevokeRow(s) ==
  /\ req[s].pc = "revoke"
  /\ sessions' = {r \in sessions : r.id # req[s].id}
  /\ revoked' = revoked \cup {req[s].fam}
  /\ contained' = IF Exchanging(req[s].fam) THEN contained ELSE contained \cup {req[s].fam}
  /\ Done(s)
  /\ UNCHANGED <<nonces, blocked, nextId, clock, verified, client, opened, disturbed,
                 asks, faults>>

\* Mutant: the revocation goes by the wallet.
RevokeWallet(s) ==
  /\ req[s].pc = "revoke"
  /\ sessions' = {}
  /\ revoked' = revoked \cup {req[s].fam}
  /\ contained' = IF Exchanging(req[s].fam) THEN contained ELSE contained \cup {req[s].fam}
  /\ Done(s)
  /\ UNCHANGED <<nonces, blocked, nextId, clock, verified, client, opened, disturbed,
                 asks, faults>>

\* handleRefreshReplay: DELETE ... WHERE family_id = ?, audit entry, 401.
Revoke(s) ==
  /\ req[s].pc = "revoke"
  /\ sessions' = sessions \ SessionsOf(req[s].fam)
  /\ revoked' = revoked \cup {req[s].fam}
  /\ contained' = IF Exchanging(req[s].fam) THEN contained ELSE contained \cup {req[s].fam}
  /\ Done(s)
  /\ UNCHANGED <<nonces, blocked, nextId, clock, verified, client, opened, disturbed,
                 asks, faults>>

\* The DELETE fails: logged, 401 all the same.
RevokeFails(s) ==
  /\ req[s].pc = "revoke"
  /\ Fault
  /\ Done(s)
  /\ UNCHANGED <<tables, blocked, nextId, clock, verified, client, family, asks>>

-----------------------------------------------------------------------------
(* generateTokens, for a verified login (no family yet) and for a refresh.    *)

\* The session behind s, if it had one, is gone with its request.
Lost(s) == disturbed' = disturbed \cup ({req[s].fam} \ {None})

\* findOrCreateUser: upsert of the user; a blocked user is refused.
TokenUser(s) ==
  /\ req[s].pc = "user"
  /\ IF blocked
       THEN Done(s) /\ Lost(s)
       ELSE req' = [req EXCEPT ![s].pc = "sign"] /\ UNCHANGED disturbed
  /\ UNCHANGED <<tables, blocked, nextId, clock, verified, client, opened, revoked,
                 contained, asks, faults>>

TokenUserFails(s) ==
  /\ req[s].pc = "user"
  /\ Fault
  /\ Done(s)
  /\ Lost(s)
  /\ UNCHANGED <<tables, blocked, nextId, clock, verified, client, opened, revoked,
                 contained, asks>>

\* The tokens are signed; a login draws a fresh family id.
TokenSign(s) ==
  /\ req[s].pc = "sign"
  /\ IF req[s].fam = None
       THEN \E f \in Fam \ opened :
              /\ opened' = opened \cup {f}
              /\ req' = [req EXCEPT ![s].pc = "insert", ![s].fam = f, ![s].sec = now]
       ELSE /\ req' = [req EXCEPT ![s].pc = "insert", ![s].sec = now]
            /\ UNCHANGED opened
  /\ UNCHANGED <<tables, blocked, nextId, clock, verified, client, disturbed, revoked,
                 contained, asks, faults>>

Store(s) ==
  /\ sessions' = sessions \cup {[id |-> nextId, fam |-> req[s].fam, sec |-> req[s].sec]}
  /\ nextId' = nextId + 1
  /\ Done(s)

\* The new session is stored and the tokens reach the client.
TokenInsert(s) ==
  LET t == [fam |-> req[s].fam, sec |-> req[s].sec] IN
  /\ req[s].pc = "insert"
  /\ Store(s)
  /\ held' = held \cup {t}
  /\ unspent' = [unspent EXCEPT ![t] = @ + 1]
  /\ UNCHANGED <<nonces, blocked, clock, verified, replayed, family, asks, faults>>

\* The session is stored, and the response is lost or the insert reports an error.
TokenInsertUnanswered(s) ==
  /\ req[s].pc = "insert"
  /\ Fault
  /\ Store(s)
  /\ Lost(s)
  /\ UNCHANGED <<nonces, blocked, clock, verified, client, opened, revoked, contained,
                 asks>>

TokenInsertFails(s) ==
  /\ req[s].pc = "insert"
  /\ Fault
  /\ Done(s)
  /\ Lost(s)
  /\ UNCHANGED <<tables, blocked, nextId, clock, verified, client, opened, revoked,
                 contained, asks>>

-----------------------------------------------------------------------------
(* Crons, the administration, time and crashes.                              *)

\* cleanupExpiredNonces: one DELETE of rows an hour past their expiry.
NonceCleanup ==
  /\ \E D \in SUBSET expired \ {{}} :
       nonces' = [n \in Nonce |-> IF n \in D THEN "deleted" ELSE nonces[n]]
  /\ UNCHANGED <<sessions, blocked, nextId, clock, req, verified, client, family, asks,
                 faults>>

\* cleanupExpiredSessions: one DELETE of rows an hour past their expiry.
SessionCleanup ==
  /\ sessions' = {r \in sessions : r.sec >= deadline}
  /\ sessions' # sessions
  /\ UNCHANGED <<nonces, blocked, nextId, clock, req, verified, client, family, asks,
                 faults>>

\* The account is suspended, in the database (external).
Block ==
  /\ ~blocked
  /\ blocked' = TRUE
  /\ UNCHANGED <<tables, nextId, clock, req, verified, client, family, asks, faults>>

\* Five minutes after it was issued.
NonceExpires(n) ==
  /\ nonces[n] # "none"
  /\ n \notin expired
  /\ expired' = expired \cup {n}
  /\ UNCHANGED <<tables, blocked, nextId, now, deadline, req, verified, client, family,
                 asks, faults>>

Tick ==
  /\ now < MaxTime
  /\ now' = now + 1
  /\ UNCHANGED <<tables, blocked, nextId, deadline, expired, req, verified, client,
                 family, asks, faults>>

\* Seven days pass, far longer than any request: every token so far expires.
SevenDays ==
  /\ now < MaxTime
  /\ \A s \in Slot : req[s].pc = "idle"
  /\ now' = now + 1
  /\ deadline' = now + 1
  /\ UNCHANGED <<tables, blocked, nextId, expired, req, verified, client, family, asks,
                 faults>>

Crash ==
  /\ Fault
  /\ req' = [s \in Slot |-> Idle]
  /\ disturbed' = disturbed \cup ({req[s].fam : s \in Slot} \ {None})
  /\ UNCHANGED <<tables, blocked, nextId, clock, verified, client, opened, revoked,
                 contained, asks>>

VerifyNext(s) ==
  (\E n \in Nonce : VerifySelect(s, n)) \/ VerifyClaim(s) \/ VerifyClaimFails(s)

RefreshNext(s) ==
  \/ \E t \in Token : RefreshSelect(s, t) \/ RefreshSelectFails(s, t)
  \/ RefreshDelete(s) \/ RefreshDeleteFails(s) \/ Revoke(s) \/ RevokeFails(s)

TokenNext(s) ==
  \/ TokenUser(s) \/ TokenUserFails(s) \/ TokenSign(s)
  \/ TokenInsert(s) \/ TokenInsertUnanswered(s) \/ TokenInsertFails(s)

EnvNext ==
  \/ \E n \in Nonce : IssueNonce(n) \/ NonceExpires(n)
  \/ NonceCleanup \/ SessionCleanup \/ Block \/ Tick \/ SevenDays \/ Crash

Next == (\E s \in Slot : VerifyNext(s) \/ RefreshNext(s) \/ TokenNext(s)) \/ EnvNext

Spec == Init /\ [][Next]_vars

-----------------------------------------------------------------------------
(* Properties.                                                               *)

\* Every variable stays within its type; in particular every stored session
\* belongs to a family.
TypeOK ==
  /\ nonces \in [Nonce -> NonceState]
  /\ expired \in SUBSET Nonce
  /\ blocked \in BOOLEAN
  /\ sessions \in SUBSET Session
  /\ nextId \in Nat
  /\ now \in Second
  /\ deadline \in Second
  /\ req \in [Slot -> Request]
  /\ opened \in SUBSET Fam
  /\ verified \in [Nonce -> Nat]
  /\ held \in SUBSET Token
  /\ unspent \in [Token -> Nat]
  /\ replayed \in SUBSET Fam
  /\ disturbed \in SUBSET Fam
  /\ revoked \in SUBSET Fam
  /\ contained \in SUBSET Fam
  /\ asks \in Nat
  /\ faults \in Nat

\* A nonce produces at most one successful verification ever, whatever the
\* interleaving of requests with the same nonce, the clean-up and crashes.
NonceSucceedsOnce == \A n \in Nonce : verified[n] <= 1

\* As long as the client presents each token it receives only once and nothing
\* fails, its family is not revoked, also when the other families of the wallet
\* are, and each token that it can still present has exactly one row (two rows
\* with one hash would make .single() fail).
HonestClientKeepsSession ==
  \A f \in Fam \ (replayed \cup disturbed) :
    /\ f \notin revoked
    /\ \A t \in Token :
         (t.fam = f /\ t.sec >= deadline /\ unspent[t] > 0) => Cardinality(RowsOf(t)) = 1

\* A family that was revoked while no exchange of its tokens was running has no
\* session ever after: no token of it, old or new, opens one.
RevokedFamilyStaysEmpty == \A f \in contained : SessionsOf(f) = {}

=============================================================================
