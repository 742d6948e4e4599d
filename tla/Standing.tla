---------------------------------- MODULE Standing ----------------------------------
(***************************************************************************)
(* A wallet's score, from the contract to the answer: ReputationService reads    *)
(* through Redis and reputation_cache to the chain and writes both on its way    *)
(* back; the indexer follows the chain's events and writes the row, too; the     *)
(* reconciliation would compare the row with the index every fifteen minutes, but *)
(* a step before that ends its run. None of the writers waits for another.        *)
(***************************************************************************)
EXTENDS Naturals, FiniteSets

CONSTANTS
  Score,    \* scores the contract may hold
  Reader,   \* slots for concurrent reads of the score
  None      \* no value

ASSUME ConstantsAssumption == Score \subseteq Nat \ {0} /\ Score # {} /\ None \notin Nat

VARIABLES
  readable,  \* whether the deployment lets the anonymous client read and write
  known,     \* users has a row of the wallet
  chain,     \* the contract: the score
  event,     \* a SCORE_CHANGED that the indexer has not seen yet
  newest,    \* reputation_history: the score of its last event, or None
  index,     \* what the indexer still has to write into the row, or None
  row,       \* reputation_cache: score, and whether it was synced within the hour; or None
  hot,       \* Redis: the score, or None
  reader,    \* reads in progress
  hashes,    \* whether the index holds a transaction hash: any event of any wallet leaves one
  sweep      \* the reconciliation run in progress

world == <<readable, known>>
ix    == <<event, newest, index>>
vars  == <<world, chain, ix, row, hot, reader, hashes, sweep>>

Served == Score \cup {0}
Synced(s) == [score |-> s, fresh |-> TRUE]
Idle   == [at |-> "idle", score |-> 0]
NoRun  == [at |-> "idle", score |-> None, hashes |-> FALSE]

Init ==
  /\ readable \in BOOLEAN /\ known \in BOOLEAN
  /\ chain \in Score /\ event = FALSE /\ newest = None /\ index = None
  /\ row = None /\ hot = None
  /\ reader = [r \in Reader |-> Idle]
  /\ hashes = FALSE /\ sweep = NoRun

-----------------------------------------------------------------------------
\* The chain, and the indexer's persistScoreChanged. (Events that pile up are taken
\* one by one: at most one is outstanding here.)

ScoreChanges ==
  /\ ~event
  /\ \E s \in Score \ {chain} : chain' = s
  /\ event' = TRUE
  /\ UNCHANGED <<world, newest, index, row, hot, reader, hashes, sweep>>

\* The history keeps the event's id for its transaction's hash.
IndexHistory ==
  /\ event /\ index = None
  /\ event' = FALSE /\ newest' = chain /\ index' = chain /\ hashes' = TRUE
  /\ UNCHANGED <<world, chain, row, hot, reader, sweep>>

\* A loan, a payment, a score of another wallet.
IndexOther ==
  /\ ~hashes /\ hashes' = TRUE
  /\ UNCHANGED <<world, chain, ix, row, hot, reader, sweep>>

\* An UPDATE: no row is made.
IndexRow ==
  /\ index # None
  /\ row' = IF row # None THEN Synced(index) ELSE row
  /\ index' = None
  /\ UNCHANGED <<world, chain, event, newest, hot, reader, hashes, sweep>>

\* A warning: the history was saved, and the event will count as a duplicate.
IndexRowFails ==
  /\ index # None /\ index' = None
  /\ UNCHANGED <<world, chain, event, newest, row, hot, reader, hashes, sweep>>

-----------------------------------------------------------------------------
\* getReputationScore

Step(r, pc, s) == reader' = [reader EXCEPT ![r] = IF pc = "idle" THEN Idle ELSE [at |-> pc, score |-> s]]

\* Redis has it, or not; any error that is not caught below answers 0, stored nowhere.
Ask(r) ==
  /\ reader[r].at = "idle"
  /\ hot = None /\ Step(r, "warm", 0)
  /\ UNCHANGED <<world, chain, ix, row, hot, hashes, sweep>>

\* Mutant: the row is taken whatever its age.
UsableAtAnyAge == readable /\ row # None

\* The row answers for an hour after it was synced.
Usable == readable /\ row # None /\ row.fresh

Warm(r) ==
  /\ reader[r].at = "warm"
  /\ IF Usable THEN Step(r, "keep", row.score) ELSE Step(r, "fetch", 0)
  /\ UNCHANGED <<world, chain, ix, row, hot, hashes, sweep>>

Fetch(r) ==
  /\ reader[r].at = "fetch"
  /\ Step(r, "persist", chain)
  /\ UNCHANGED <<world, chain, ix, row, hot, hashes, sweep>>

\* A failing contract call counts as 0, which is kept like any other score.
FetchFails(r) ==
  /\ reader[r].at = "fetch"
  /\ Step(r, "persist", 0)
  /\ UNCHANGED <<world, chain, ix, row, hot, hashes, sweep>>

\* The row's score, or the contract's, goes to Redis; if that fails, no further.
KeepHot(r) ==
  /\ reader[r].at \in {"keep", "persist"}
  /\ \/ /\ hot' = reader[r].score
        /\ Step(r, IF reader[r].at = "keep" THEN "idle" ELSE "upsert", reader[r].score)
     \/ UNCHANGED hot /\ Step(r, "idle", 0)
  /\ UNCHANGED <<world, chain, ix, row, hashes, sweep>>

\* The row is made, or overwritten whatever it holds; an error is not looked at.
Upsert(r) ==
  /\ reader[r].at = "upsert"
  /\ \/ readable /\ known /\ row' = Synced(reader[r].score)
     \/ UNCHANGED row
  /\ Step(r, "idle", 0)
  /\ UNCHANGED <<world, chain, ix, hot, hashes, sweep>>

HotExpires ==
  /\ hot # None /\ hot' = None
  /\ UNCHANGED <<world, chain, ix, row, reader, hashes, sweep>>

RowAges ==
  /\ row # None /\ row.fresh
  /\ row' = [row EXCEPT !.fresh = FALSE]
  /\ UNCHANGED <<world, chain, ix, hot, reader, hashes, sweep>>

-----------------------------------------------------------------------------
\* A reconciliation run: reconcileLoans, reconcileTransactions, reconcileLiquidity and
\* reconcileReputation, in this order, on what it read at its start.

SweepStart ==
  /\ sweep.at = "idle"
  /\ sweep' = [at |-> "transactions", score |-> newest, hashes |-> hashes]
  /\ UNCHANGED <<world, chain, ix, row, hot, reader, hashes>>

\* The hashes are ids of events, which no row of transactions has: each is backfilled.
\* Its upsert names transaction_hash, and the table has but a partial unique index on
\* it: Postgres refuses the statement, and the error ends the run.
SweepTransactions ==
  /\ sweep.at = "transactions"
  /\ sweep' = IF sweep.hashes THEN NoRun ELSE [sweep EXCEPT !.at = "scores"]
  /\ UNCHANGED <<world, chain, ix, row, hot, reader, hashes>>

Drifts == sweep.score # None /\ row # None /\ row.score # sweep.score

SweepScores ==
  /\ sweep.at = "scores"
  /\ row' = IF Drifts THEN Synced(sweep.score) ELSE row
  /\ sweep' = NoRun
  /\ UNCHANGED <<world, chain, ix, hot, reader, hashes>>

\* Any other error.
SweepFails ==
  /\ sweep.at # "idle" /\ sweep' = NoRun
  /\ UNCHANGED <<world, chain, ix, row, hot, reader, hashes>>

Read(r) == Warm(r) \/ Fetch(r) \/ KeepHot(r) \/ Upsert(r)
Sweep   == SweepStart \/ SweepTransactions \/ SweepScores

Next ==
  \/ ScoreChanges \/ IndexHistory \/ IndexOther \/ IndexRow \/ IndexRowFails
  \/ \E r \in Reader : Ask(r) \/ Read(r) \/ FetchFails(r)
  \/ HotExpires \/ RowAges \/ Sweep \/ SweepFails

\* The poller and the cron job go on, a request runs to its end, an entry has a TTL and
\* a row gets older. Nobody is bound to ask for the score.
Fairness ==
  /\ WF_vars(IndexHistory) /\ WF_vars(IndexRow) /\ WF_vars(Sweep)
  /\ WF_vars(HotExpires) /\ WF_vars(RowAges)
  /\ \A r \in Reader : WF_vars(Read(r))

Spec == Init /\ [][Next]_vars /\ Fairness

-----------------------------------------------------------------------------
\* Properties

\* From some time on nothing changes on the chain and no look-up fails.
Quiet == <>[][~ScoreChanges /\ \A r \in Reader : ~FetchFails(r)]_vars

\* Readers overwrite Redis and the row with what each has read some time ago, the
\* indexer overwrites the row, its write may get lost for good, and a failed look-up
\* leaves a 0: with no help of the reconciliation, whatever a request can be answered
\* with comes back to the contract's score. (A row that has aged may stay wrong.)
ScoreConverges ==
  Quiet => <>[](hot \in {None, chain} /\ (row # None /\ row.fresh => row.score = chain))

\* "Repairs stale database state": when the chain is quiet, the indexer has stored the
\* wallet's last event and runs fail of nothing but their own steps, the cached row
\* comes to agree with the index. (vouching reads the row whatever its age.)
StaleRowIsRepaired ==
  Quiet /\ <>(newest # None) /\ <>[][SweepFails => Sweep]_vars
    => <>[](row # None => row.score = newest)
=============================================================================
