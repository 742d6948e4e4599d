-------------------------------- MODULE MCIndexer --------------------------------
(* Instances of Indexer for TLC: four histories of two loans and a wallet.       *)
EXTENDS Indexer

CONSTANTS l1, l2, w1

E(id, ledger, kind, of, value) ==
  [id |-> id, ledger |-> ledger, kind |-> kind, of |-> of, value |-> value]

MCLoan   == {l1, l2}
MCWallet == {w1}

\* Two loans side by side; the second is never paid off.
Loans == {E(1, 1, "created", l1, 0), E(2, 1, "created", l2, 0), E(3, 2, "repaid", l1, 1),
          E(4, 2, "repaid", l2, 1), E(5, 3, "repaid", l1, 1)}

\* A loan that is repaid after it was in default.
Default == {E(1, 1, "created", l1, 0), E(2, 2, "repaid", l1, 1), E(3, 3, "defaulted", l1, 0),
            E(4, 3, "repaid", l1, 1)}

\* A burst of events in one ledger, one of them unknown to the parser.
Burst == {E(1, 2, "other", w1, 0), E(2, 2, "score", w1, 1), E(3, 2, "score", w1, 2),
          E(4, 3, "score", w1, 1), E(5, 3, "created", l1, 0), E(6, 4, "repaid", l1, 2)}

\* A loan without a due date, and events far apart.
Undated == {E(1, 1, "undated", l1, 0), E(2, 1, "created", l2, 0), E(3, 2, "repaid", l1, 2),
            E(4, 4, "repaid", l2, 2), E(5, 4, "score", w1, 1)}

MCChains == {Loans, Default, Burst, Undated}
=============================================================================
