------------------------------------ MODULE Pool ------------------------------------
(***************************************************************************)
(* What the API says of the liquidity pool: LiquidityService and                *)
(* SponsorsService over the two clients of the pool's contract. Every figure is *)
(* a simulated call of its own, by the first method that the contract answers,  *)
(* with a computed one where there is none; in between the pool moves. The       *)
(* calls share nothing but the pool and the cached answers, and change neither    *)
(* but for the key of their own: there is one at a time, and it is the last       *)
(* answer that may lie in the cache, with the pool moving on.                     *)
(***************************************************************************)
EXTENDS Integers

CONSTANTS
  MaxPool,    \* bound on the pool's liquidity
  MaxMoves,   \* bound on the transactions that land during one call
  MinDeposit, \* MIN_DEPOSIT_AMOUNT
  Scale,      \* SHARE_PRICE_BPS
  FeeBps      \* the contract: its fee for a withdrawal

VARIABLES
  total, locked,  \* the contract: liquidity, and how much of it is lent
  shares, mine,   \* the contract: all shares, and the caller's
  call,           \* the call in progress, or its answer
  moved,          \* history: transactions that landed since the call began, up to MaxMoves
  blind           \* history: what an error of the contract was counted as 0 for

pool == <<total, locked, shares, mine>>
vars == <<pool, call, moved, blind>>

Unread == -1
Figure == 0 .. MaxPool
Read   == Figure \cup {Unread}
Available == total - locked

\* The contract pays shares in proportion (the source has its answer only as
\* calculate_withdrawal and calculate_deposit; these are what the names promise).
PaysFor(s) == IF shares = 0 THEN 0 ELSE (s * total) \div shares
MintsFor(a) == IF shares = 0 \/ total = 0 THEN a ELSE (a * shares) \div total
FeeOf(amount) == (amount * FeeBps) \div Scale

Ops == {"overview", "summary", "deposit", "withdraw", "sponsorPool", "sponsorDeposit", "sponsorWithdraw"}

\* getInvestmentSummary and getPoolOverview keep their answer.
Keeps == {"overview", "summary"}

\* at: "read" until the first figures are there, "worth" for a conversion that comes
\* after them, "build" for the transaction, "kept" for an answer that lies in the cache.
\* free, sum, all, fee: availableLiquidity, totalLiquidity, totalShares, withdrawalFeeBps
\* as read; sum2 and all2 as read again; worth: the conversion.
NoCall == [at |-> "idle", op |-> "deposit", arg |-> 0, granular |-> FALSE, again |-> FALSE,
           own |-> Unread, sum |-> Unread, free |-> Unread, all |-> Unread, fee |-> Unread,
           sum2 |-> Unread, all2 |-> Unread, worth |-> Unread]
Answers == {"idle", "ok", "tooFew", "tooLittle", "invalid", "rejected", "error", "kept"}

Init ==
  /\ total = 0 /\ locked = 0 /\ shares = 0 /\ mine = 0
  /\ call = NoCall /\ moved = 0 /\ blind = {}

Goto(pc)   == call' = [call EXCEPT !.at = pc]
Pending(f) == call.at = "read" /\ call[f] = Unread
UsesOwn    == call.op \in {"summary", "withdraw"}
StatsRead  == Unread \notin {call.sum, call.free, call.all, call.fee}

-----------------------------------------------------------------------------
\* The contract: transactions of anybody

\* What is kept: the figures that the answer shows.
Shown ==
  LET figure(f) == IF call.op = "overview" THEN call[f] ELSE Unread IN
  [NoCall EXCEPT !.at = "kept", !.op = call.op, !.own = call.own, !.worth = call.worth,
                 !.sum = call.sum, !.free = figure("free"), !.all = figure("all")]

\* (An answer is looked at before the next one lands.)
Land ==
  \/ /\ call.at \in Answers /\ ~(call.at \in {"ok", "kept"} /\ call.op \in Keeps)
     /\ call' = NoCall /\ moved' = 0 /\ blind' = {}
  \/ /\ call.at \in {"ok", "kept"} /\ call.op \in Keeps
     /\ call' = Shown /\ moved' = MaxMoves /\ UNCHANGED blind
  \/ /\ call.at \notin Answers
     /\ moved < MaxMoves /\ moved' = moved + 1 /\ UNCHANGED <<call, blind>>

Deposited(a) ==
  /\ Land /\ total + a <= MaxPool /\ shares + MintsFor(a) <= MaxPool
  /\ total' = total + a
  /\ shares' = shares + MintsFor(a)
  /\ mine' \in {mine, mine + MintsFor(a)}
  /\ UNCHANGED locked

\* (The fee is paid out, too; where it stays with the pool, it is Interest.)
Withdrawn(s) ==
  /\ Land /\ s <= shares /\ PaysFor(s) <= Available
  /\ mine' \in {m \in {mine, mine - s} : m \in Figure /\ m <= shares - s}
  /\ total' = total - PaysFor(s)
  /\ shares' = shares - s
  /\ UNCHANGED locked

Lent     == Land /\ Available > 0 /\ locked' = locked + 1 /\ UNCHANGED <<total, shares, mine>>
Repaid   == Land /\ locked > 0 /\ locked' = locked - 1 /\ UNCHANGED <<total, shares, mine>>
Interest == Land /\ total < MaxPool /\ total' = total + 1 /\ UNCHANGED <<locked, shares, mine>>
Default  == Land /\ locked > 0 /\ locked' = locked - 1 /\ total' = total - 1 /\ UNCHANGED <<shares, mine>>

-----------------------------------------------------------------------------
\* The calls of the API

\* A cached answer may be gone, or the call has another key. The conversion of a
\* deposit does not wait for the figures.
Start ==
  /\ call.at \in Answers
  /\ \E op \in Ops, n \in Figure :
       /\ op \in Keeps \cup {"sponsorPool"} => n = 0
       /\ call' = [NoCall EXCEPT !.op = op, !.arg = n,
            !.at = CASE op = "deposit" /\ n < MinDeposit -> "invalid"
                     [] op \in {"withdraw", "sponsorDeposit", "sponsorWithdraw"} /\ n = 0 -> "invalid"
                     [] op \in {"sponsorDeposit", "sponsorWithdraw"} /\ n > 0 -> "build"
                     [] OTHER -> "read"]
  /\ moved' = 0 /\ blind' = {}
  /\ UNCHANGED pool

\* The answer is given again, whatever has landed since.
CacheHit ==
  /\ call.at = "kept" /\ Goto("ok")
  /\ UNCHANGED <<pool, moved, blind>>

\* Nobody catches an error of the cache, before the reading or after it.
CacheFails ==
  /\ call.at \in {"read", "worth"} /\ call.op \in Keeps
  /\ Goto("error")
  /\ UNCHANGED <<pool, moved, blind>>

\* getLpShares. An error of the contract is taken for a wallet without shares, also
\* when the contract merely has no method of the first name.
ReadOwn ==
  /\ UsesOwn /\ Pending("own")
  /\ \/ call' = [call EXCEPT !.own = mine] /\ UNCHANGED blind
     \/ call' = [call EXCEPT !.own = 0] /\ blind' = blind \cup {"own"}
     \/ Goto("error") /\ UNCHANGED blind
  /\ UNCHANGED <<pool, moved>>

\* getPoolStats: one call for the figures of the pool, ...
ReadStats ==
  /\ Pending("sum") /\ Pending("free") /\ Pending("all") /\ Pending("fee") /\ ~call.granular
  /\ \/ call' = [call EXCEPT !.sum = total, !.free = Available, !.all = shares]
     \/ call' = [call EXCEPT !.granular = TRUE]
  /\ UNCHANGED <<pool, moved, blind>>

\* ... or one for each, at the same time;
ReadFigure(f, value) ==
  /\ call.granular /\ Pending(f)
  /\ call' = [call EXCEPT ![f] = value]
  /\ UNCHANGED <<pool, moved, blind>>

\* and one for the fee, after the former, along with the latter. Whatever goes wrong,
\* there is no fee.
ReadFee ==
  /\ Pending("fee") /\ (call.granular \/ call.sum # Unread)
  /\ \/ call' = [call EXCEPT !.fee = FeeBps] /\ UNCHANGED blind
     \/ call' = [call EXCEPT !.fee = 0] /\ blind' = blind \cup {"fee"}
  /\ UNCHANGED <<pool, moved>>

\* None of a figure's names is answered. The overview shows, and keeps, zeros instead.
ReadFails ==
  /\ call.granular /\ call.at = "read" /\ Unread \in {call.sum, call.free, call.all}
  /\ IF call.op = "overview"
     THEN /\ call' = [call EXCEPT !.sum = 0, !.free = 0, !.all = 0, !.fee = 0]
          /\ blind' = blind \cup {"stats"}
     ELSE Goto("error") /\ UNCHANGED blind
  /\ UNCHANGED <<pool, moved>>

TooFew == call.own = 0 \/ call.arg > call.own

\* All that the call reads at the same time has been read.
Considered ==
  /\ call.at = "read" /\ StatsRead
  /\ UsesOwn => call.own # Unread
  /\ call.op = "deposit" => call.worth # Unread
  /\ CASE call.op \in {"overview", "sponsorPool"} -> Goto("ok")
       [] call.op = "summary" /\ call.own = 0 -> call' = [call EXCEPT !.at = "ok", !.worth = 0]
       [] call.op = "summary" /\ call.own # 0 -> call' = [call EXCEPT !.at = "worth", !.arg = call.own]
       [] call.op = "withdraw" /\ TooFew -> Goto("tooFew")
       [] call.op = "withdraw" /\ ~TooFew -> Goto("worth")
       [] OTHER -> Goto("build")
  /\ UNCHANGED <<pool, moved, blind>>

Converts == call.worth = Unread /\ (call.at = "worth" \/ (call.at = "read" /\ call.op = "deposit"))

\* What to do with the conversion; the figures that it was computed from are gone.
Valued(worth) ==
  call' = [call EXCEPT !.worth = worth, !.again = FALSE, !.sum2 = Unread, !.all2 = Unread,
             !.at = CASE call.op = "summary" -> "ok"
                      [] call.op = "withdraw" /\ worth > call.free -> "tooLittle"
                      [] call.op = "withdraw" /\ worth <= call.free -> "build"
                      [] OTHER -> "read"]

\* calculateWithdrawal, calculateDeposit: the contract's answer, ...
AskWorth ==
  /\ Converts /\ ~call.again
  /\ \/ Valued(IF call.op = "deposit" THEN MintsFor(call.arg) ELSE PaysFor(call.arg))
     \/ call' = [call EXCEPT !.again = TRUE]
  /\ UNCHANGED <<pool, moved, blind>>

\* ... or the figures read once more, ...
ReadAgain ==
  /\ Converts /\ call.again
  /\ \/ call' = [call EXCEPT !.sum2 = total, !.all2 = shares]
     \/ call.sum2 = Unread /\ call' = [call EXCEPT !.sum2 = total]
     \/ call.all2 = Unread /\ call' = [call EXCEPT !.all2 = shares]
     \/ Goto("error")
  /\ Unread \in {call.sum2, call.all2}
  /\ UNCHANGED <<pool, moved, blind>>

\* Mutant: by way of the share price in basis points.
FallbackByPrice == IF call.all2 = 0 THEN 0 ELSE (call.arg * ((call.sum2 * Scale) \div call.all2)) \div Scale

\* Mutant: rounded up.
FallbackSharesUp ==
  IF call.all2 = 0 \/ call.sum2 = 0 THEN call.arg ELSE (call.arg * call.all2 + call.sum2 - 1) \div call.sum2

FallbackAmount == IF call.all2 = 0 THEN 0 ELSE (call.arg * call.sum2) \div call.all2
FallbackShares == IF call.all2 = 0 \/ call.sum2 = 0 THEN call.arg ELSE (call.arg * call.all2) \div call.sum2

\* ... and the share price they make.
ComputeWorth ==
  /\ Converts /\ call.again /\ Unread \notin {call.sum2, call.all2}
  /\ Valued(IF call.op = "deposit" THEN FallbackShares ELSE FallbackAmount)
  /\ UNCHANGED <<pool, moved, blind>>

\* The fee and the net amount of a withdrawal, by what was read of the fee.
ShownFee == (call.worth * call.fee) \div Scale
ShownNet == call.worth - ShownFee

\* buildUnsignedXdr, buildDepositTx, buildWithdrawTx: the transaction is simulated.
Build ==
  /\ call.at = "build"
  /\ \/ /\ call.op \in {"withdraw", "sponsorWithdraw"} => call.arg <= mine /\ PaysFor(call.arg) <= Available
        /\ Goto("ok")
     \/ Goto("rejected")
  /\ UNCHANGED <<pool, moved, blind>>

Next ==
  \/ \E n \in 1 .. MaxPool : Deposited(n) \/ Withdrawn(n)
  \/ Lent \/ Repaid \/ Interest \/ Default
  \/ Start \/ CacheHit \/ CacheFails \/ ReadOwn \/ ReadStats \/ ReadFee \/ ReadFails \/ Considered
  \/ ReadFigure("sum", total) \/ ReadFigure("free", Available) \/ ReadFigure("all", shares)
  \/ AskWorth \/ ReadAgain \/ ComputeWorth \/ Build

Spec == Init /\ [][Next]_vars

-----------------------------------------------------------------------------
\* Properties

\* Every variable has its type; no more is lent than the pool holds.
TypeOK ==
  /\ total \in Figure /\ locked \in 0 .. total /\ shares \in Figure /\ mine \in 0 .. shares
  /\ call \in [at : Answers \cup {"read", "worth", "build"}, op : Ops, arg : Figure,
               granular : BOOLEAN, again : BOOLEAN, own : Read, sum : Read, free : Read, all : Read,
               fee : {Unread, 0, FeeBps}, sum2 : Read, all2 : Read, worth : Nat \cup {Unread}]
  /\ moved \in 0 .. MaxMoves /\ blind \subseteq {"own", "fee", "stats"}

Ended == call.at \in {"ok", "tooFew", "tooLittle"} /\ moved = 0

\* Whichever of the contract's methods answered, and whatever had to be computed: as
\* long as no transaction has landed since the first figure was read, during the call
\* or while its answer lay in the cache, a withdrawal is offered exactly when the pool
\* would pay it, what is shown as its amount, its fee and what remains are the pool's,
\* and so are the figures of an overview and what a wallet's shares are worth. An error
\* of the contract that counts as 0 changes only what was to be read: no shares and
\* no offer, no fee and all of the amount, an overview of zeros.
QuoteIsExact ==
  Ended =>
    /\ call.op = "withdraw" /\ "own" \notin blind
         => (call.at = "ok" <=> 0 < mine /\ call.arg <= mine /\ PaysFor(call.arg) <= Available)
    /\ call.op = "withdraw" /\ call.at # "tooFew" => call.worth = PaysFor(call.arg)
    /\ call.op = "withdraw" /\ call.at = "ok"
         => LET fee == IF "fee" \in blind THEN 0 ELSE FeeOf(PaysFor(call.arg)) IN
            ShownFee = fee /\ ShownNet = PaysFor(call.arg) - fee
    /\ call.op = "summary" /\ "own" \notin blind => call.worth = PaysFor(mine) /\ call.sum = total
    /\ call.op \in {"overview", "sponsorPool"} /\ "stats" \notin blind
         => call.sum = total /\ call.free = Available /\ call.all = shares

\* The shares quoted for a deposit are never worth more than the deposit once it is
\* made (unless the pool holds liquidity that belongs to no share).
DepositNeverGains ==
  call.op = "deposit" /\ call.at = "ok" /\ moved = 0 /\ (shares = 0 => total = 0) /\ shares + call.worth > 0
    => (call.worth * (total + call.arg)) \div (shares + call.worth) <= call.arg
=============================================================================
