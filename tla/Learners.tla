---------------------------------- MODULE Learners ----------------------------------
(***************************************************************************)
(* The wallet's row in learner_profiles, which LearnersService.upsertProfile         *)
(* updates after a read of its own, and which the wallet's logins insert; and its    *)
(* row in sponsor_pools, SponsorsService.register. Calls interleave at every await.  *)
(***************************************************************************)
EXTENDS Naturals

CONSTANTS
  Caller,    \* slots for concurrent calls
  Required   \* the fields a complete profile has: full_name, country, finance_goals

VARIABLES
  learner,   \* learner_profiles: the wallet's row, or NoLearner
  sponsor,   \* sponsor_pools: whether the wallet has a row
  ask,       \* calls in progress
  torn       \* history: the last update was computed from fields that were not the row's

vars == <<learner, sponsor, ask, torn>>

\* has: the required fields that are not empty; since: onboarding_completed_at is set.
NoLearner == [exists |-> FALSE, has |-> {}, complete |-> FALSE, since |-> FALSE]

\* seen: the row as it was read.
NoAsk == [at |-> "done", op |-> "login", seen |-> NoLearner]

Init ==
  /\ learner = NoLearner /\ sponsor = FALSE /\ torn = FALSE
  /\ ask = [c \in Caller |-> NoAsk]

\* "duplicate": a unique index refuses the row, and the answer is a 500.
Over == {"done", "refused", "conflict", "duplicate"}

Stands(c, op, pc) == ask[c].op = op /\ ask[c].at = pc
Leaves(c, pc)     == ask' = [ask EXCEPT ![c] = IF pc \in Over THEN [NoAsk EXCEPT !.at = pc] ELSE [@ EXCEPT !.at = pc]]

Asks(c) ==
  /\ ask[c].at \in Over
  /\ \E op \in {"login", "upsert", "sponsor"} :
       ask' = [ask EXCEPT ![c] = [NoAsk EXCEPT !.at = "find", !.op = op]]
  /\ UNCHANGED <<learner, sponsor, torn>>

-----------------------------------------------------------------------------
\* The row of a first login (findOrCreateUser), whose errors nobody looks at.

LooksForProfile(c) ==
  /\ Stands(c, "login", "find")
  /\ Leaves(c, IF learner.exists THEN "done" ELSE "insert") \/ Leaves(c, "insert")
  /\ UNCHANGED <<learner, sponsor, torn>>

InsertsProfile(c) ==
  /\ Stands(c, "login", "insert")
  /\ \/ ~learner.exists /\ learner' = [NoLearner EXCEPT !.exists = TRUE]
     \/ UNCHANGED learner
  /\ Leaves(c, "done")
  /\ UNCHANGED <<sponsor, torn>>

-----------------------------------------------------------------------------
\* LearnersService.upsertProfile

\* A read that fails counts as no row.
ReadsProfile(c) ==
  /\ Stands(c, "upsert", "find")
  /\ \E seen \in {learner, NoLearner} : ask' = [ask EXCEPT ![c].at = "write", ![c].seen = seen]
  /\ UNCHANGED <<learner, sponsor, torn>>

\* given maps the fields of the request to whether they are not empty.
Merged(has, given) == {f \in Required : IF f \in DOMAIN given THEN given[f] ELSE f \in has}

\* Mutant: only what the request holds is looked at.
CompleteByRequest(has, given) == Required = {f \in DOMAIN given : given[f]}

CompleteWith(has, given) == Merged(has, given) = Required

\* onboarding_completed_at is set now, or written back as it was read, or (where no row
\* was read) left out of the request.
Onboarded(seen, complete) ==
  \/ complete /\ ~seen.complete
  \/ IF seen.exists THEN seen.since ELSE learner.since

\* The upsert writes the fields of the request, and what was computed from the read.
UpsertsProfile(c) ==
  LET seen == ask[c].seen IN
  /\ Stands(c, "upsert", "write")
  /\ \/ /\ \E some \in SUBSET Required : \E given \in [some -> BOOLEAN] :
             LET complete == CompleteWith(seen.has, given) IN
             learner' = [exists   |-> TRUE,
                         has      |-> Merged(learner.has, given),
                         complete |-> complete,
                         since    |-> Onboarded(seen, complete)]
        /\ torn' = (seen.has # learner.has)
        /\ Leaves(c, "done") \/ Leaves(c, "refused")
     \/ Leaves(c, "refused") /\ UNCHANGED <<learner, torn>>
  /\ UNCHANGED sponsor

-----------------------------------------------------------------------------
\* SponsorsService.register

LooksForSponsor(c) ==
  /\ Stands(c, "sponsor", "find")
  /\ Leaves(c, IF sponsor THEN "conflict" ELSE "insert") \/ Leaves(c, "refused")
  /\ UNCHANGED <<learner, sponsor, torn>>

InsertsSponsor(c) ==
  /\ Stands(c, "sponsor", "insert")
  /\ \/ ~sponsor /\ sponsor' = TRUE /\ (Leaves(c, "done") \/ Leaves(c, "refused"))
     \/ sponsor /\ Leaves(c, "duplicate") /\ UNCHANGED sponsor
     \/ Leaves(c, "refused") /\ UNCHANGED sponsor
  /\ UNCHANGED <<learner, torn>>

Next ==
  \E c \in Caller :
    \/ Asks(c) \/ LooksForProfile(c) \/ InsertsProfile(c) \/ ReadsProfile(c)
    \/ UpsertsProfile(c) \/ LooksForSponsor(c) \/ InsertsSponsor(c)

Spec == Init /\ [][Next]_vars

-----------------------------------------------------------------------------
\* Properties

\* profile_complete says whether the row has every required field. An update computes
\* it from a read made before it, so it may be wrong when another update came between
\* or when the read failed; the next update that is not disturbed sets it right.
CompleteFlagRight == torn \/ learner.complete = (learner.has = Required)
=============================================================================
