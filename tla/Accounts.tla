---------------------------------- MODULE Accounts ----------------------------------
(***************************************************************************)
(* The row of a wallet in users, its row in user_preferences and its avatars in    *)
(* the storage: registration, which cleans up after itself when it fails           *)
(* (AuthService.register), a login (generateTokens, findOrCreateUser), and the      *)
(* profile's routes (UsersService). Calls interleave at every await; any call to    *)
(* the database or to the storage may fail, with or without having had its effect.  *)
(* Every statement names one wallet; what wallets share is the index on usernames.  *)
(***************************************************************************)
EXTENDS Naturals

CONSTANTS
  Call,   \* slots for concurrent calls
  File    \* names of avatars in the storage

VARIABLES
  asArray,   \* whether the relation user_preferences is answered as an array
  user,      \* users: the wallet's row, or NoUser
  prefs,     \* user_preferences: whether the row has one
  files,     \* storage: the avatars stored
  call,      \* calls in progress
  kept,      \* history: avatars of registrations that succeeded
  settled,   \* history: whether the row is one of a registration that succeeded
  mishap     \* history: an answer was lost, a cleanup failed, the process stopped, or
             \* two avatars took the same name

store == <<asArray, user, prefs, files>>
hist  == <<kept, settled, mishap>>
vars  == <<store, call, hist>>

None   == "none"
Link   == "link"   \* an avatar that is not in the storage
NoUser == [exists |-> FALSE, registered |-> FALSE, avatar |-> None]
Plain  == [NoUser EXCEPT !.exists = TRUE]   \* a row with its wallet alone

Ops == {"register", "login", "getProfile", "updateProfile"}

\* file: the avatar uploaded; made: it inserted the row, to be removed if it fails;
\* holds: the row whose id it carries still exists.
NoCall == [at |-> "done", op |-> "login", file |-> None, made |-> FALSE, holds |-> FALSE]

Init ==
  /\ asArray \in BOOLEAN
  /\ user = NoUser /\ prefs = FALSE /\ files = {}
  /\ call = [c \in Call |-> NoCall]
  /\ kept = {} /\ settled = FALSE /\ mishap = FALSE

\* The ways a call ends: "conflict" is the 409 of createProfile, "duplicate" a 500 by
\* a unique index, "refused" every other error.
Ends    == {"done", "refused", "conflict", "duplicate"}
Free(c) == call[c].at \in Ends

At(c, op, pc) == call[c].op = op /\ call[c].at = pc
Ended(end)    == [NoCall EXCEPT !.at = end]
Goto(c, pc)   == call' = [call EXCEPT ![c] = IF pc \in Ends THEN Ended(pc) ELSE [@ EXCEPT !.at = pc]]

Start(c) ==
  /\ Free(c)
  /\ \E op \in Ops : call' = [call EXCEPT ![c] = [NoCall EXCEPT
       !.at = CASE op = "register" -> "upload" [] op = "getProfile" -> "read" [] OTHER -> "upsert",
       !.op = op]]
  /\ UNCHANGED <<store, hist>>

-----------------------------------------------------------------------------
\* AuthService.register

\* The name is the wallet and the time in milliseconds: new, but for an upload of the
\* same millisecond, which is overwritten.
Upload(c) ==
  /\ At(c, "register", "upload")
  /\ \/ Goto(c, "create") /\ UNCHANGED <<files, mishap>>   \* no image was sent
     \/ \E f \in File :
          /\ f \notin kept /\ user.avatar # f
          /\ f \in files => \E d \in Call \ {c} : At(d, "register", "create") /\ call[d].file = f
          /\ files' = files \cup {f}
          /\ \/ call' = [call EXCEPT ![c].at = "create", ![c].file = f] /\ mishap' = (mishap \/ f \in files)
             \/ Goto(c, "refused") /\ mishap' = TRUE
     \/ Goto(c, "refused") /\ UNCHANGED <<files, mishap>>
  /\ UNCHANGED <<asArray, user, prefs, kept, settled>>

\* Mutant: without an image there is nothing to clean up.
CleanupOfFile(c, made, end) == IF call[c].file # None THEN "dropFile" ELSE end

\* Where the catch of register begins.
Cleanup(c, made, end) == IF call[c].file # None THEN "dropFile" ELSE IF made THEN "dropUser" ELSE end

\* createProfile: a 409 if the wallet has a row (or another wallet has the username).
CreateUser(c) ==
  /\ At(c, "register", "create")
  /\ \/ /\ ~user.exists
        /\ user' = [exists |-> TRUE, registered |-> TRUE, avatar |-> call[c].file]
        /\ \/ call' = [call EXCEPT ![c].at = "upsert", ![c].made = TRUE, ![c].holds = TRUE]
              /\ UNCHANGED mishap
           \/ Goto(c, Cleanup(c, FALSE, "refused")) /\ mishap' = TRUE
     \/ Goto(c, Cleanup(c, FALSE, "conflict")) /\ UNCHANGED <<user, mishap>>
  /\ UNCHANGED <<asArray, prefs, files, kept, settled>>

\* Every failure of generateTokens.
Fails(c) == Goto(c, IF call[c].op = "register" THEN Cleanup(c, call[c].made, "refused") ELSE "refused")

\* deleteAvatar and deleteUserById swallow their errors.
DropFile(c) ==
  /\ At(c, "register", "dropFile")
  /\ \/ files' = files \ {call[c].file} /\ UNCHANGED mishap
     \/ mishap' = TRUE /\ UNCHANGED files
  /\ Goto(c, IF call[c].made THEN "dropUser" ELSE "refused")
  /\ UNCHANGED <<asArray, user, prefs, kept, settled>>

\* The row takes its preferences and its sessions with it; whoever carries its id
\* carries the id of no row.
DropUser(c) ==
  /\ At(c, "register", "dropUser")
  /\ \/ /\ call[c].holds
        /\ user' = NoUser /\ prefs' = FALSE /\ settled' = FALSE
        /\ call' = [d \in Call |-> IF d = c THEN Ended("refused")
                                   ELSE [call[d] EXCEPT !.holds = FALSE]]
        /\ UNCHANGED mishap
     \/ /\ Goto(c, "refused")
        /\ mishap' = (mishap \/ call[c].holds)
        /\ UNCHANGED <<user, prefs, settled>>
  /\ UNCHANGED <<asArray, files, kept>>

-----------------------------------------------------------------------------
\* generateTokens

\* findOrCreateUser; a blocked user is refused after the upsert.
FindOrCreateUser(c) ==
  /\ call[c].op \in {"register", "login"} /\ call[c].at = "upsert"
  /\ \/ /\ user' = IF user.exists THEN user ELSE Plain
        /\ \/ call' = [call EXCEPT ![c].at = "session", ![c].holds = @ \/ call[c].op = "login"]
           \/ Fails(c)
     \/ Fails(c) /\ UNCHANGED user
  /\ UNCHANGED <<asArray, prefs, files, hist>>

\* The session refers to the user's row.
CreateSession(c) ==
  /\ call[c].at = "session"
  /\ \/ /\ call[c].holds /\ Goto(c, "done")
        /\ IF call[c].op = "register"
           THEN settled' = TRUE /\ kept' = kept \cup ({call[c].file} \cap File)
           ELSE UNCHANGED <<settled, kept>>
     \/ Fails(c) /\ UNCHANGED <<settled, kept>>
  /\ UNCHANGED <<store, mishap>>

-----------------------------------------------------------------------------
\* UsersService.getOrCreateProfile

\* findByWallet takes the first element of the relation: if that is answered as an
\* object, the preferences are not seen, inserted again, and every reading fails.
PrefsSeen == prefs /\ asArray

ReadProfile(c) ==
  /\ At(c, "getProfile", "read")
  /\ \/ call' = [call EXCEPT ![c] = CASE ~user.exists -> [@ EXCEPT !.at = "newUser"]
                                      [] user.exists /\ PrefsSeen -> Ended("done")
                                      [] OTHER -> [@ EXCEPT !.at = "newPrefs", !.holds = TRUE]]
     \/ Goto(c, "refused")
  /\ UNCHANGED <<store, hist>>

NewUser(c) ==
  /\ At(c, "getProfile", "newUser")
  /\ \/ /\ ~user.exists /\ user' = Plain
        /\ \/ call' = [call EXCEPT ![c].at = "newPrefs", ![c].holds = TRUE]
           \/ Goto(c, "refused")
     \/ user.exists /\ Goto(c, "duplicate") /\ UNCHANGED user
     \/ Goto(c, "refused") /\ UNCHANGED user
  /\ UNCHANGED <<asArray, prefs, files, hist>>

NewPrefs(c) ==
  /\ At(c, "getProfile", "newPrefs")
  /\ \/ call[c].holds /\ ~prefs /\ prefs' = TRUE /\ (Goto(c, "done") \/ Goto(c, "refused"))
     \/ call[c].holds /\ prefs /\ Goto(c, "duplicate") /\ UNCHANGED prefs
     \/ Goto(c, "refused") /\ UNCHANGED prefs
  /\ UNCHANGED <<asArray, user, files, hist>>

-----------------------------------------------------------------------------
\* UsersService.updateProfile: two upserts, then the profile is read again.

UpdateUser(c) ==
  /\ At(c, "updateProfile", "upsert")
  /\ \/ /\ user' \in LET row == IF user.exists THEN user ELSE Plain
                     IN {row, [row EXCEPT !.avatar = Link]}
        /\ \/ \E next \in {"prefs", "reread"} : call' = [call EXCEPT ![c].at = next, ![c].holds = TRUE]
           \/ Goto(c, "refused")
     \/ Goto(c, "refused") /\ UNCHANGED user
  /\ UNCHANGED <<asArray, prefs, files, hist>>

UpsertPrefs(c) ==
  /\ At(c, "updateProfile", "prefs")
  /\ \/ call[c].holds /\ prefs' = TRUE /\ (Goto(c, "reread") \/ Goto(c, "refused"))
     \/ Goto(c, "refused") /\ UNCHANGED prefs
  /\ UNCHANGED <<asArray, user, files, hist>>

Reread(c) ==
  /\ At(c, "updateProfile", "reread")
  /\ Goto(c, "done") \/ Goto(c, "refused")
  /\ UNCHANGED <<store, hist>>

-----------------------------------------------------------------------------
\* The process stops and starts again.
Stop ==
  /\ call' = [c \in Call |-> NoCall]
  /\ mishap' = TRUE
  /\ UNCHANGED <<store, kept, settled>>

Next ==
  \/ \E c \in Call :
       \/ Start(c) \/ Upload(c) \/ CreateUser(c) \/ DropFile(c) \/ DropUser(c)
       \/ FindOrCreateUser(c) \/ CreateSession(c) \/ ReadProfile(c) \/ NewUser(c)
       \/ NewPrefs(c) \/ UpdateUser(c) \/ UpsertPrefs(c) \/ Reread(c)
  \/ Stop

Spec == Init /\ [][Next]_vars

-----------------------------------------------------------------------------
\* Properties

\* A registration that fails takes back what it did, its row and its avatar, whatever
\* other calls did to the row meanwhile; and one that succeeds keeps its avatar. It is
\* so unless an answer is lost, a cleanup fails or the process stops.
NothingLeftBehind ==
  mishap \/ /\ user.registered => settled \/ \E c \in Call : call[c].made /\ call[c].holds
            /\ files \subseteq kept \cup {call[c].file : c \in Call}
            /\ kept \subseteq files
=============================================================================
