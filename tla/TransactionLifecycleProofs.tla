----------------------- MODULE TransactionLifecycleProofs -----------------------
(* Theorems about TransactionLifecycle, for every value of its constants.    *)
EXTENDS TransactionLifecycle, Sums, TLAPS

LEMMA NoHashType == NoHash \in Hash
  BY ConstantsAssumption DEF NoHash

LEMMA InitLoanType == \A l \in Loan : InitLoan(l) \in LoanRow
  BY ConstantsAssumption DEF InitLoan, LoanRow, LoanStatus

LEMMA NoRowType == NoRow \in LoanRow
  BY DEF NoRow, LoanRow, LoanStatus

LEMMA TypeInit == Init => TypeOK
  <1> SUFFICES ASSUME Init PROVE TypeOK
    OBVIOUS
  <1>1. loan \in [Loan -> LoanRow] /\ chkSeen \in [Cycle -> LoanRow]
    BY InitLoanType, NoRowType DEF Init
  <1> QED
    BY <1>1, NoHashType
    DEF Init, TypeOK, RowStatus, Verdict, Age, SubPc, PollPc, ChkPc, SweepPc, Notice

LEMMA TypeSubmit == TypeOK /\ SubmitNext => TypeOK'
  <1> SUFFICES ASSUME TypeOK, NEW s \in Submit,
                      \/ \E h \in Hash : SubmitFind(s, h)
                      \/ SubmitInsert(s) \/ SubmitInsertRefused(s)
                      \/ HorizonAccepts(s) \/ HorizonRejects(s) \/ HorizonSilent(s)
                      \/ SubmitMark(s) \/ SubmitMarkLost(s)
               PROVE  TypeOK'
    BY DEF SubmitNext
  <1> USE NoHashType DEF TypeOK, RowStatus, Verdict, SubPc, Age, ageVars, netVars, subVars,
                       pollVars, chkVars, sweepVars, histVars, boundVars
  <1>1. ASSUME NEW h \in Hash, SubmitFind(s, h) PROVE TypeOK'
    <2>1. subPc' \in [Submit -> SubPc] /\ subHash' \in [Submit -> Hash]
      BY <1>1 DEF SubmitFind
    <2> QED
      BY <1>1, <2>1 DEF SubmitFind
  <1>2. CASE SubmitInsert(s)
    BY <1>2 DEF SubmitInsert
  <1>3. CASE SubmitInsertRefused(s)
    BY <1>3 DEF SubmitInsertRefused, SubmitDone
  <1>4. CASE HorizonAccepts(s)
    BY <1>4 DEF HorizonAccepts, SendToHorizon, SubmitDone
  <1>5. CASE HorizonRejects(s)
    <2>1. ledger' \in [Hash -> {"absent"} \cup Verdict]
      BY <1>5 DEF HorizonRejects
    <2>2. SendToHorizon(s) /\ UNCHANGED <<flying, subHash>>
      BY <1>5 DEF HorizonRejects
    <2>3. subPc' \in [Submit -> SubPc]
      BY <1>5 DEF HorizonRejects
    <2> QED
      BY <2>1, <2>2, <2>3 DEF SendToHorizon
  <1>6. CASE HorizonSilent(s)
    <2>1. SendToHorizon(s) /\ ledger' = ledger /\ flying' \in SUBSET Hash
      BY <1>6 DEF HorizonSilent
    <2>2. CASE SubmitDone(s)
      BY <2>2, <2>1 DEF SendToHorizon, SubmitDone
    <2>3. CASE subPc' = [subPc EXCEPT ![s] = "mark"] /\ UNCHANGED subHash
      BY <2>3, <2>1 DEF SendToHorizon
    <2> QED
      BY <1>6, <2>2, <2>3 DEF HorizonSilent
  <1>7. CASE SubmitMark(s)
    BY <1>7 DEF SubmitMark, SubmitDone
  <1>8. CASE SubmitMarkLost(s)
    BY <1>8 DEF SubmitMarkLost, SubmitDone
  <1> QED
    BY <1>1, <1>2, <1>3, <1>4, <1>5, <1>6, <1>7, <1>8

LEMMA TypePoll == TypeOK /\ PollNext => TypeOK'
  <1> SUFFICES ASSUME TypeOK, NEW p \in Poll,
                      \/ \E h \in Hash : PollRead(p, h)
                      \/ PollFind(p) \/ PollLookup(p) \/ PollCache(p) \/ PollPersist(p) \/ PollGivesUp(p)
               PROVE  TypeOK'
    BY DEF PollNext
  <1> USE NoHashType DEF TypeOK, RowStatus, Verdict, PollPc, ageVars, netVars, subVars,
                       pollVars, chkVars, sweepVars, histVars, boundVars
  <1>1. ASSUME NEW h \in Hash, PollRead(p, h) PROVE TypeOK'
    BY <1>1 DEF PollRead
  <1>2. CASE PollFind(p) \/ PollLookup(p)
    <2>1. CASE PollFind(p)
      BY <2>1 DEF PollFind
    <2>2. CASE PollLookup(p)
      BY <2>2 DEF PollLookup
    <2> QED
      BY <1>2, <2>1, <2>2
  <1>3. CASE PollCache(p)
    <2>1. /\ pollPc' \in [Poll -> PollPc] /\ pollHash' \in [Poll -> Hash]
          /\ pollFound' \in [Poll -> BOOLEAN] /\ pollOut' \in [Poll -> Verdict]
      <3>1. CASE pollFound[p]
        BY <1>3, <3>1 DEF PollCache
      <3>2. CASE ~pollFound[p]
        <4>1. PollDone(p)
          BY <1>3, <3>2, Zenon DEF PollCache
        <4> QED
          BY <4>1 DEF PollDone
      <3> QED
        BY <3>1, <3>2
    <2>2. cache' \in [Hash -> {"none"} \cup Verdict]
      BY <1>3 DEF PollCache
    <2>3. UNCHANGED <<row, ageVars, loan, netVars, subVars, chkVars, sweepVars, histVars, boundVars>>
      BY <1>3 DEF PollCache
    <2> QED
      BY <2>1, <2>2, <2>3
  <1>4. CASE PollPersist(p)
    BY <1>4 DEF PollPersist, PollDone
  <1>5. CASE PollGivesUp(p)
    BY <1>5 DEF PollGivesUp, PollDone
  <1> QED
    BY <1>1, <1>2, <1>3, <1>4, <1>5

LEMMA RepaidType ==
  ASSUME NEW now \in LoanRow, NEW seen \in LoanRow, NEW amt \in Nat
  PROVE  Repaid(now, seen, amt) \in LoanRow
  BY DEF Repaid, LoanRow, LoanStatus

LEMMA NoticeOfType == \A h \in Hash, v \in Verdict : NoticeOf(h, v) \in Notice
  <1> SUFFICES ASSUME NEW h \in Hash, NEW v \in Verdict PROVE NoticeOf(h, v) \in Notice
    OBVIOUS
  <1>1. CASE v = "failed"
    BY <1>1 DEF NoticeOf, Notice
  <1>2. CASE v = "success"
    BY <1>2, ConstantsAssumption DEF NoticeOf, Notice, Calls
  <1> QED
    BY <1>1, <1>2 DEF Verdict

LEMMA TypeCycle == TypeOK /\ CycleNext => TypeOK'
  <1> SUFFICES ASSUME TypeOK, NEW c \in Cycle,
                      \/ CycleFetch(c) \/ CycleFetchFails(c)
                      \/ \E h \in Hash : CycleLookup(c, h) \/ CycleSkip(c, h)
                      \/ CycleFinalize(c) \/ CycleFinalizeFails(c)
                      \/ CycleReadLoan(c) \/ CycleActivate(c) \/ CycleRepay(c)
                      \/ CycleFollowUpFails(c)
                      \/ CycleNotify(c) \/ CycleNotifyFails(c)
                      \/ CycleEnd(c) \/ CycleEndUncleaned(c)
               PROVE  TypeOK'
    BY DEF CycleNext
  <1> USE NoHashType DEF TypeOK, RowStatus, Verdict, ChkPc, ageVars, netVars, subVars,
                       pollVars, chkVars, sweepVars, histVars, boundVars
  <1>1. CASE CycleFetch(c)
    <2>1. chkTodo' \in [Cycle -> SUBSET Hash]
      BY <1>1 DEF CycleFetch, Batches, Pending
    <2> QED
      BY <1>1, <2>1 DEF CycleFetch
  <1>2. CASE CycleFetchFails(c)
    BY <1>2 DEF CycleFetchFails
  <1>3. ASSUME NEW h \in Hash, CycleLookup(c, h) PROVE TypeOK'
    BY <1>3 DEF CycleLookup
  <1>4. ASSUME NEW h \in Hash, CycleSkip(c, h) PROVE TypeOK'
    BY <1>4 DEF CycleSkip
  <1>5. CASE CycleFinalize(c)
    <2>1. chkPc' \in [Cycle -> ChkPc]
      BY <1>5 DEF CycleFinalize, FollowUpPc
    <2> QED
      BY <1>5, <2>1 DEF CycleFinalize
  <1>6. CASE CycleFinalizeFails(c)
    BY <1>6, NoRowType DEF CycleFinalizeFails, NextTransaction
  <1>7. CASE CycleReadLoan(c)
    <2>1. chkPc' \in [Cycle -> ChkPc]
      BY <1>7 DEF CycleReadLoan
    <2>2. chkSeen' \in [Cycle -> LoanRow]
      BY <1>7, ConstantsAssumption DEF CycleReadLoan
    <2> QED
      BY <1>7, <2>1, <2>2 DEF CycleReadLoan
  <1>8. CASE CycleActivate(c)
    <2> DEFINE l == LoanOf[chkHash[c]]
    <2>0. l \in Loan /\ loan[l] \in LoanRow
      BY ConstantsAssumption
    <2>1. loan' \in [Loan -> LoanRow]
      <3>1. CASE loan[l].status = "pending"
        <4>1. loan' = [loan EXCEPT ![l] = [loan[l] EXCEPT !.status = "active"]]
          BY <1>8, <2>0, <3>1 DEF CycleActivate
        <4>2. [loan[l] EXCEPT !.status = "active"] \in LoanRow
          BY <2>0 DEF LoanRow, LoanStatus
        <4> QED
          BY <4>1, <4>2, <2>0
      <3>2. CASE loan[l].status # "pending"
        BY <1>8, <3>2 DEF CycleActivate
      <3> QED
        BY <3>1, <3>2
    <2>2. applied' \in [Hash -> Nat]
      BY <1>8 DEF CycleActivate
    <2> QED
      BY <1>8, <2>1, <2>2 DEF CycleActivate
  <1>9. CASE CycleRepay(c)
    <2>1. loan' \in [Loan -> LoanRow]
      BY <1>9, RepaidType, ConstantsAssumption DEF CycleRepay
    <2> QED
      BY <1>9, <2>1 DEF CycleRepay
  <1>10. CASE CycleFollowUpFails(c)
    BY <1>10 DEF CycleFollowUpFails
  <1>11. CASE CycleNotify(c)
    <2>1. notices' \in [Hash -> SUBSET Notice]
      BY <1>11, NoticeOfType DEF CycleNotify
    <2> QED
      BY <1>11, <2>1, NoRowType DEF CycleNotify, NextTransaction
  <1>12. CASE CycleNotifyFails(c)
    BY <1>12, NoRowType DEF CycleNotifyFails, NextTransaction
  <1>13. CASE CycleEnd(c)
    BY <1>13 DEF CycleEnd, Expired, Age
  <1>14. CASE CycleEndUncleaned(c)
    BY <1>14 DEF CycleEndUncleaned
  <1> QED
    BY <1>1, <1>2, <1>3, <1>4, <1>5, <1>6, <1>7, <1>8, <1>9, <1>10, <1>11, <1>12,
       <1>13, <1>14

LEMMA TypeSweepEnv == TypeOK /\ (SweepNext \/ EnvNext) => TypeOK'
  <1> SUFFICES ASSUME TypeOK,
                      \/ SweepRead \/ (\E h \in Hash : SweepMark(h)) \/ SweepEnd
                      \/ \E h \in Hash : Land(h) \/ Drop(h) \/ GrowStale(h) \/ GrowOld(h)
                      \/ Crash
               PROVE  TypeOK'
    BY DEF SweepNext, EnvNext
  <1> USE DEF TypeOK, RowStatus, Verdict, Age, SweepPc, ageVars, netVars, subVars,
              pollVars, chkVars, sweepVars, histVars, boundVars
  <1>1. CASE SweepRead
    BY <1>1 DEF SweepRead, Stale, Pending
  <1>2. ASSUME NEW h \in Hash, SweepMark(h) PROVE TypeOK'
    BY <1>2 DEF SweepMark
  <1>3. CASE SweepEnd
    BY <1>3 DEF SweepEnd
  <1>4. ASSUME NEW h \in Hash, Land(h) PROVE TypeOK'
    <2>1. ledger' \in [Hash -> {"absent"} \cup Verdict]
      BY <1>4 DEF Land
    <2>2. /\ flying' = flying \ {h}
          /\ UNCHANGED <<row, ageVars, loan, cache, subVars, pollVars, chkVars,
                         sweepVars, histVars, boundVars>>
      BY <1>4 DEF Land
    <2> QED
      BY <2>1, <2>2
  <1>5. ASSUME NEW h \in Hash, Drop(h) \/ GrowStale(h) \/ GrowOld(h) PROVE TypeOK'
    <2>1. CASE Drop(h)
      BY <2>1 DEF Drop
    <2>2. CASE GrowStale(h)
      BY <2>2 DEF GrowStale
    <2>3. CASE GrowOld(h)
      BY <2>3 DEF GrowOld
    <2> QED
      BY <1>5, <2>1, <2>2, <2>3
  <1>6. CASE Crash
    <2>1. subPc' \in [Submit -> SubPc] /\ subHash' \in [Submit -> Hash]
      BY <1>6, NoHashType DEF Crash, SubPc
    <2>2. /\ pollPc' \in [Poll -> PollPc] /\ pollHash' \in [Poll -> Hash]
          /\ pollFound' \in [Poll -> BOOLEAN] /\ pollOut' \in [Poll -> Verdict]
      BY <1>6, NoHashType DEF Crash, PollPc
    <2>3. /\ isRunning' \in BOOLEAN
          /\ chkPc' \in [Cycle -> ChkPc] /\ chkTodo' \in [Cycle -> SUBSET Hash]
          /\ chkHash' \in [Cycle -> Hash] /\ chkOut' \in [Cycle -> Verdict]
          /\ chkSeen' \in [Cycle -> LoanRow]
      BY <1>6, NoHashType, NoRowType DEF Crash, ChkPc
    <2>4. sweepPc' \in SweepPc /\ sweepTodo' \in SUBSET Hash
      BY <1>6 DEF Crash
    <2>5. crashes' \in Nat
      BY <1>6 DEF Crash
    <2>6. UNCHANGED <<row, ageVars, loan, cache, netVars, histVars, asks>>
      BY <1>6 DEF Crash
    <2> QED
      BY <2>1, <2>2, <2>3, <2>4, <2>5, <2>6
  <1> QED
    BY <1>1, <1>2, <1>3, <1>4, <1>5, <1>6

LEMMA TypeStutter == TypeOK /\ UNCHANGED vars => TypeOK'
  BY DEF TypeOK, vars, ageVars, netVars, subVars, pollVars, chkVars, sweepVars, histVars,
         boundVars

\* The variables of every reachable state have their types; in particular a
\* repayment never takes a loan's balance below zero.
THEOREM TypeCorrect == Spec => []TypeOK
  <1>1. TypeOK /\ [Next]_vars => TypeOK'
    BY TypeSubmit, TypePoll, TypeCycle, TypeSweepEnv, TypeStutter DEF Next
  <1> QED
    BY TypeInit, <1>1, PTL DEF Spec

-----------------------------------------------------------------------------
(* The inductive invariant behind the safety properties, in four parts.      *)

Acting == {"activate", "activateWrite", "repay", "repayWrite"}

\* The overlap guard works: at most one checker cycle is under way.
Alone ==
  \A c \in Cycle :
    chkPc[c] # "off" => isRunning /\ \A d \in Cycle \ {c} : chkPc[d] = "off"

\* A request between its insert and its end owns the row it inserted: the row
\* is younger than thirty minutes, so neither another request nor the clean-up
\* touches it, and the request at Horizon has an unused recording.
SubmitOwnsRow ==
  /\ \A s \in Submit :
       /\ subPc[s] \in {"horizon", "mark"} =>
            row[subHash[s]] # "none" /\ age[subHash[s]] = "fresh"
       /\ subPc[s] = "horizon" => submitted[subHash[s]] < recorded[subHash[s]]
  /\ \A s, t \in Submit :
       subPc[s] = "horizon" /\ subPc[t] = "horizon" /\ subHash[s] = subHash[t] => s = t

\* What handlers carry from the ledger in their locals stays true.
LocalsMatchLedger ==
  /\ \A h \in flying : ledger[h] = "absent"
  /\ \A p \in Poll :
       pollPc[p] \in {"cache", "persist"} => pollOut[p] = ledger[pollHash[p]]
  /\ \A c \in Cycle :
       chkPc[c] \in Acting \cup {"finalize", "notify"} => chkOut[c] = ledger[chkHash[c]]
  /\ \A c \in Cycle : chkPc[c] \in Acting => ledger[chkHash[c]] = "success"

\* A pending row has not used up its recording, and neither has the row a
\* cycle has finalized and is acting on -- which is no longer pending.
FollowUpIsDue ==
  /\ \A h \in Hash : row[h] = "pending" => applied[h] < recorded[h]
  /\ \A c \in Cycle : chkPc[c] \in Acting =>
       row[chkHash[c]] \in Verdict /\ applied[chkHash[c]] < recorded[chkHash[c]]

SafeInv ==
  /\ TypeOK /\ Alone
  /\ SubmitOwnsRow /\ SubmittedOncePerRecording
  /\ LocalsMatchLedger /\ AnswersMatchLedger
  /\ FollowUpIsDue /\ AppliedOncePerRecording

-----------------------------------------------------------------------------
(* What each part of the next-state relation leaves alone.                   *)

LEMMA SubmitFrame ==
  SubmitNext => UNCHANGED <<loan, cache, pollVars, chkVars, sweepVars, applied, notices,
                            crashes>>
  BY DEF SubmitNext, SubmitFind, SubmitInsert, SubmitInsertRefused, SendToHorizon,
         HorizonAccepts, HorizonRejects, HorizonSilent, SubmitMark, SubmitMarkLost,
         SubmitDone, histVars, boundVars

LEMMA PollFrame ==
  PollNext => UNCHANGED <<ageVars, loan, netVars, subVars, chkVars, sweepVars, histVars,
                          boundVars>>
  BY DEF PollNext, PollRead, PollFind, PollLookup, PollCache, PollPersist, PollGivesUp

LEMMA CycleFrame ==
  CycleNext => UNCHANGED <<cache, netVars, subVars, pollVars, sweepVars, recorded,
                           submitted, boundVars>>
  BY DEF CycleNext, CycleFetch, CycleFetchFails, CycleLookup, CycleSkip, CycleFinalize,
         CycleFinalizeFails, CycleReadLoan, CycleActivate, CycleRepay,
         CycleFollowUpFails, CycleNotify, CycleNotifyFails, CycleEnd, CycleEndUncleaned,
         histVars

LEMMA SweepFrame ==
  SweepNext => UNCHANGED <<ageVars, loan, cache, netVars, subVars, pollVars, chkVars,
                           histVars, boundVars>>
  BY DEF SweepNext, SweepRead, SweepMark, SweepEnd

LEMMA EnvFrame ==
  EnvNext => UNCHANGED <<row, older, loan, cache, histVars, asks>>
  BY DEF EnvNext, Land, Drop, GrowStale, GrowOld, Crash, ageVars, netVars, boundVars

\* How the row of a hash can change: recorded once it is unknown, resolved, or
\* dropped by the clean-up when resolved and old.
LEMMA RowStep ==
  ASSUME TypeOK, [Next]_vars, NEW h \in Hash
  PROVE  \/ row'[h] = row[h]
         \/ row[h] = "none" /\ row'[h] = "pending" /\ recorded'[h] = recorded[h] + 1
         \/ row[h] # "none" /\ row'[h] \in Verdict
         \/ row[h] \in Verdict /\ age[h] = "old" /\ row'[h] = "none"
  <1> USE DEF TypeOK, RowStatus, Verdict
  <1>1. CASE SubmitNext
    BY <1>1 DEF SubmitNext, SubmitFind, SubmitInsert, SubmitInsertRefused, SendToHorizon,
         HorizonAccepts, HorizonRejects, HorizonSilent, SubmitMark, SubmitMarkLost
  <1>2. CASE PollNext
    BY <1>2 DEF PollNext, PollRead, PollFind, PollLookup, PollCache, PollPersist, PollGivesUp
  <1>3. CASE CycleNext
    <2>1. PICK c \in Cycle :
             \/ CycleFinalize(c) \/ CycleEnd(c) \/ row' = row
      BY <1>3 DEF CycleNext, CycleFetch, CycleFetchFails, CycleLookup, CycleSkip,
         CycleFinalizeFails, CycleReadLoan, CycleActivate, CycleRepay,
         CycleFollowUpFails, CycleNotify, CycleNotifyFails, CycleEndUncleaned
    <2>2. CASE CycleFinalize(c)
      BY <2>2 DEF CycleFinalize, MayFinalize
    <2>3. CASE CycleEnd(c)
      BY <2>3 DEF CycleEnd, Expired
    <2> QED
      BY <2>1, <2>2, <2>3
  <1>4. CASE SweepNext
    BY <1>4 DEF SweepNext, SweepRead, SweepMark, SweepEnd
  <1>5. CASE EnvNext
    BY <1>5, EnvFrame
  <1>6. CASE UNCHANGED vars
    BY <1>6 DEF vars
  <1> QED
    BY <1>1, <1>2, <1>3, <1>4, <1>5, <1>6 DEF Next

\* The ledger's verdict is final, and recordings are never taken back.
LEMMA LedgerStep ==
  ASSUME TypeOK, LocalsMatchLedger, [Next]_vars, NEW h \in Hash
  PROVE  /\ ledger[h] # "absent" => ledger'[h] = ledger[h]
         /\ recorded'[h] >= recorded[h]
  <1> USE DEF TypeOK, Verdict, netVars, histVars
  <1>1. CASE SubmitNext
    <2>1. PICK s \in Submit :
             \/ \E g \in Hash : SubmitFind(s, g)
             \/ SubmitInsert(s) \/ SubmitInsertRefused(s)
             \/ HorizonAccepts(s) \/ HorizonRejects(s) \/ HorizonSilent(s)
             \/ SubmitMark(s) \/ SubmitMarkLost(s)
      BY <1>1 DEF SubmitNext
    <2>2. CASE HorizonAccepts(s)
      BY <2>2 DEF HorizonAccepts, SendToHorizon
    <2>3. CASE HorizonRejects(s)
      <3>1. PICK v \in {ledger[subHash[s]], "failed"} :
                ledger' = [ledger EXCEPT ![subHash[s]] = v]
        BY <2>3 DEF HorizonRejects
      <3>2. ledger[subHash[s]] # "success"
        BY <2>3 DEF HorizonRejects
      <3>3. recorded' = recorded
        BY <2>3 DEF HorizonRejects, SendToHorizon
      <3> QED
        BY <3>1, <3>2, <3>3
    <2>4. CASE ledger' = ledger /\ (recorded' = recorded \/ SubmitInsert(s))
      BY <2>4 DEF SubmitInsert
    <2> QED
      BY <2>1, <2>2, <2>3, <2>4 DEF SubmitFind, SubmitInsert, SubmitInsertRefused,
         SendToHorizon, HorizonSilent, SubmitMark, SubmitMarkLost
  <1>2. CASE PollNext \/ CycleNext \/ SweepNext
    BY <1>2, PollFrame, CycleFrame, SweepFrame
  <1>3. CASE EnvNext
    <2>1. recorded' = recorded
      BY <1>3, EnvFrame
    <2>2. \/ ledger' = ledger
          \/ \E g \in flying : \E v \in Verdict : ledger' = [ledger EXCEPT ![g] = v]
      BY <1>3 DEF EnvNext, Land, Drop, GrowStale, GrowOld, Crash
    <2> QED
      BY <2>1, <2>2 DEF LocalsMatchLedger
  <1>4. CASE UNCHANGED vars
    BY <1>4 DEF vars
  <1> QED
    BY <1>1, <1>2, <1>3, <1>4 DEF Next

-----------------------------------------------------------------------------
(* Each part of the invariant is preserved.                                  *)

LEMMA SafeInit == Init => SafeInv
  <1> SUFFICES ASSUME Init PROVE SafeInv
    OBVIOUS
  <1>1. Alone /\ SubmitOwnsRow /\ LocalsMatchLedger /\ FollowUpIsDue
    BY DEF Init, Alone, SubmitOwnsRow, LocalsMatchLedger, FollowUpIsDue, Acting
  <1>2. SubmittedOncePerRecording /\ AnswersMatchLedger /\ AppliedOncePerRecording
    BY DEF Init, SubmittedOncePerRecording, AnswersMatchLedger, AppliedOncePerRecording
  <1> QED
    BY TypeInit, <1>1, <1>2 DEF SafeInv

\* What a cycle's step does to the overlap guard and the program counters.
LEMMA CyclePcStep ==
  ASSUME TypeOK, NEW c \in Cycle,
         \/ CycleFetch(c) \/ CycleFetchFails(c)
         \/ \E h \in Hash : CycleLookup(c, h) \/ CycleSkip(c, h)
         \/ CycleFinalize(c) \/ CycleFinalizeFails(c)
         \/ CycleReadLoan(c) \/ CycleActivate(c) \/ CycleRepay(c) \/ CycleFollowUpFails(c)
         \/ CycleNotify(c) \/ CycleNotifyFails(c)
         \/ CycleEnd(c) \/ CycleEndUncleaned(c)
  PROVE  /\ \A d \in Cycle \ {c} : chkPc'[d] = chkPc[d]
         /\ \/ chkPc[c] = "off" /\ ~isRunning /\ isRunning'
            \/ chkPc[c] # "off" /\ chkPc'[c] = "off" /\ ~isRunning'
            \/ chkPc[c] # "off" /\ isRunning' = isRunning
  BY DEF TypeOK, ChkPc, CycleFetch, CycleFetchFails, CycleLookup, CycleSkip, CycleFinalize,
         CycleFinalizeFails, CycleReadLoan, CycleActivate, CycleRepay,
         CycleFollowUpFails, CycleNotify, CycleNotifyFails, CycleEnd, CycleEndUncleaned,
         NextTransaction, MayStart

LEMMA AloneStep == TypeOK /\ Alone /\ [Next]_vars => Alone'
  <1> SUFFICES ASSUME TypeOK, Alone, [Next]_vars PROVE Alone'
    OBVIOUS
  <1>1. CASE UNCHANGED chkVars
    BY <1>1 DEF Alone, chkVars
  <1>2. CASE SubmitNext \/ PollNext \/ SweepNext
    BY <1>1, <1>2, SubmitFrame, PollFrame, SweepFrame
  <1>3. CASE CycleNext
    <2>1. PICK c \in Cycle :
            /\ \A d \in Cycle \ {c} : chkPc'[d] = chkPc[d]
            /\ \/ chkPc[c] = "off" /\ ~isRunning /\ isRunning'
               \/ chkPc[c] # "off" /\ chkPc'[c] = "off" /\ ~isRunning'
               \/ chkPc[c] # "off" /\ isRunning' = isRunning
      BY <1>3, CyclePcStep DEF CycleNext
    <2>2. CASE chkPc[c] = "off" /\ ~isRunning /\ isRunning'
      BY <2>1, <2>2 DEF Alone
    <2>3. CASE chkPc[c] # "off" /\ chkPc'[c] = "off" /\ ~isRunning'
      BY <2>1, <2>3 DEF Alone
    <2>4. CASE chkPc[c] # "off" /\ isRunning' = isRunning
      BY <2>1, <2>4 DEF Alone
    <2> QED
      BY <2>1, <2>2, <2>3, <2>4
  <1>4. CASE EnvNext
    <2>1. CASE Crash
      BY <2>1 DEF Alone, Crash
    <2> QED
      BY <1>1, <1>4, <2>1 DEF EnvNext, Land, Drop, GrowStale, GrowOld
  <1>5. CASE UNCHANGED vars
    BY <1>1, <1>5 DEF vars
  <1> QED
    BY <1>2, <1>3, <1>4, <1>5 DEF Next

LEMMA SubmitOwnsRowStep ==
  TypeOK /\ SubmitOwnsRow /\ SubmittedOncePerRecording /\ [Next]_vars
    => SubmitOwnsRow' /\ SubmittedOncePerRecording'
  <1> SUFFICES ASSUME TypeOK, SubmitOwnsRow, SubmittedOncePerRecording, [Next]_vars
               PROVE  SubmitOwnsRow' /\ SubmittedOncePerRecording'
    OBVIOUS
  <1> USE DEF SubmitOwnsRow, SubmittedOncePerRecording
  \* A step outside the submit requests leaves a row that a request owns recorded.
  <1>1. ASSUME UNCHANGED <<subVars, age, recorded, submitted>>
        PROVE  SubmitOwnsRow' /\ SubmittedOncePerRecording'
    <2>1. ASSUME NEW s \in Submit, subPc[s] \in {"horizon", "mark"}
          PROVE  row'[subHash[s]] # "none"
      BY <2>1, RowStep DEF TypeOK, Verdict
    <2> QED
      BY <1>1, <2>1 DEF subVars
  <1>2. CASE SubmitNext
    <2>1. PICK s \in Submit :
             \/ \E h \in Hash : SubmitFind(s, h)
             \/ SubmitInsert(s) \/ SubmitInsertRefused(s)
             \/ HorizonAccepts(s) \/ HorizonRejects(s) \/ HorizonSilent(s)
             \/ SubmitMark(s) \/ SubmitMarkLost(s)
      BY <1>2 DEF SubmitNext
    <2> USE DEF TypeOK, SubPc, ageVars, netVars, histVars
    <2>2. ASSUME NEW h \in Hash, SubmitFind(s, h)
          PROVE  SubmitOwnsRow' /\ SubmittedOncePerRecording'
      <3>1. UNCHANGED <<row, age, recorded, submitted>>
        BY <2>2 DEF SubmitFind
      <3>2. /\ \A t \in Submit \ {s} : subPc'[t] = subPc[t] /\ subHash'[t] = subHash[t]
            /\ subPc'[s] \notin {"horizon", "mark"}
        BY <2>2 DEF SubmitFind, subVars
      <3>3. \A t \in Submit : subPc'[t] \in {"horizon", "mark"} =>
              t # s /\ subPc[t] = subPc'[t] /\ subHash'[t] = subHash[t]
        BY <3>2, Zenon
      <3> HIDE DEF TypeOK, SubPc, ageVars, netVars, histVars
      <3>4. SubmitOwnsRow'
        BY <3>1, <3>3
      <3>5. SubmittedOncePerRecording'
        BY <3>1
      <3> QED
        BY <3>4, <3>5
    <2>3. CASE SubmitInsert(s)
      <3> DEFINE h == subHash[s]
      <3>1. /\ row[h] = "none" /\ row' = [row EXCEPT ![h] = "pending"]
            /\ age' = [age EXCEPT ![h] = "fresh"]
            /\ recorded' = [recorded EXCEPT ![h] = @ + 1]
            /\ subPc' = [subPc EXCEPT ![s] = "horizon"]
            /\ UNCHANGED <<subHash, submitted>>
        BY <2>3 DEF SubmitInsert
      <3>2. \A t \in Submit : subPc[t] \in {"horizon", "mark"} => subHash[t] # h
        BY <3>1
      <3> QED
        BY <3>1, <3>2
    <2>4. ASSUME SubmitDone(s), UNCHANGED <<age, recorded, submitted>>
          PROVE  SubmitOwnsRow' /\ SubmittedOncePerRecording'
      <3>1. ASSUME NEW t \in Submit, subPc[t] \in {"horizon", "mark"}
            PROVE  row'[subHash[t]] # "none"
        BY <3>1, RowStep DEF Verdict
      <3> QED
        BY <2>4, <3>1 DEF SubmitDone
    <2>5. ASSUME SendToHorizon(s), SubmitDone(s) \/ (subPc' = [subPc EXCEPT ![s] = "mark"]
                                                      /\ UNCHANGED subHash)
          PROVE  SubmitOwnsRow' /\ SubmittedOncePerRecording'
      <3> DEFINE h == subHash[s]
      <3>1. /\ subPc[s] = "horizon" /\ submitted' = [submitted EXCEPT ![h] = @ + 1]
            /\ UNCHANGED <<row, age, recorded>>
        BY <2>5 DEF SendToHorizon
      <3>2. \A t \in Submit : t # s =>
              /\ subPc'[t] = subPc[t] /\ subHash'[t] = subHash[t]
              /\ subPc[t] = "horizon" => subHash[t] # h
        BY <2>5, <3>1 DEF SubmitDone
      <3>3. /\ subPc'[s] # "horizon"
            /\ subPc'[s] = "mark" => subHash'[s] = h
        BY <2>5 DEF SubmitDone
      <3>4. /\ \A t \in Submit : subHash[t] \in Hash
            /\ \A g \in Hash : submitted'[g] = IF g = h THEN submitted[g] + 1 ELSE submitted[g]
            /\ \A g \in Hash : submitted[g] \in Nat /\ recorded[g] \in Nat
            /\ submitted[h] < recorded[h]
        BY <3>1
      <3>5. /\ \A t \in Submit : subPc[t] \in {"horizon", "mark"} =>
                 row[subHash[t]] # "none" /\ age[subHash[t]] = "fresh"
            /\ \A t \in Submit : subPc[t] = "horizon" =>
                 submitted[subHash[t]] < recorded[subHash[t]]
            /\ \A t, u \in Submit : subPc[t] = "horizon" /\ subPc[u] = "horizon"
                                      /\ subHash[t] = subHash[u] => t = u
            /\ \A g \in Hash : submitted[g] <= recorded[g]
        OBVIOUS
      <3> HIDE DEF TypeOK, SubmitOwnsRow, SubmittedOncePerRecording, h
      <3>6. SubmittedOncePerRecording'
        BY <3>1, <3>4, <3>5 DEF SubmittedOncePerRecording
      <3>7. ASSUME NEW t \in Submit
            PROVE  /\ subPc'[t] \in {"horizon", "mark"} =>
                        row'[subHash'[t]] # "none" /\ age'[subHash'[t]] = "fresh"
                   /\ subPc'[t] = "horizon" => submitted'[subHash'[t]] < recorded'[subHash'[t]]
        <4>1. CASE t = s
          BY <3>1, <3>3, <3>5, <4>1 DEF h
        <4>2. CASE t # s
          BY <3>1, <3>2, <3>4, <3>5, <4>2
        <4> QED
          BY <4>1, <4>2
      <3>8. ASSUME NEW t \in Submit, NEW u \in Submit, subPc'[t] = "horizon",
                   subPc'[u] = "horizon", subHash'[t] = subHash'[u]
            PROVE  t = u
        BY <3>2, <3>3, <3>5, <3>8
      <3> QED
        BY <3>6, <3>7, <3>8 DEF SubmitOwnsRow
    <2>6. CASE SubmitInsertRefused(s) \/ SubmitMark(s) \/ SubmitMarkLost(s)
      BY <2>4, <2>6 DEF SubmitInsertRefused, SubmitMark, SubmitMarkLost
    <2>7. CASE HorizonAccepts(s) \/ HorizonRejects(s) \/ HorizonSilent(s)
      BY <2>5, <2>7 DEF HorizonAccepts, HorizonRejects, HorizonSilent
    <2> QED
      BY <2>1, <2>2, <2>3, <2>6, <2>7
  <1>3. CASE PollNext \/ SweepNext
    BY <1>1, <1>3, PollFrame, SweepFrame DEF ageVars, histVars
  <1>4. CASE CycleNext
    \* Only the clean-up writes ages, those of the old rows it drops.
    <2>1. UNCHANGED <<subVars, recorded, submitted>>
      BY <1>4, CycleFrame
    <2>2. ASSUME NEW h \in Hash, age[h] = "fresh" PROVE age'[h] = "fresh"
      BY <1>4, <2>2 DEF CycleNext, CycleFetch, CycleFetchFails, CycleLookup, CycleSkip,
         CycleFinalize, CycleFinalizeFails, CycleReadLoan, CycleActivate, CycleRepay,
         CycleFollowUpFails, CycleNotify, CycleNotifyFails, CycleEnd, CycleEndUncleaned,
         Expired, ageVars
    <2>3. ASSUME NEW s \in Submit, subPc[s] \in {"horizon", "mark"}
          PROVE  row'[subHash[s]] # "none"
      BY <2>3, RowStep DEF TypeOK, Verdict
    <2> QED
      BY <2>1, <2>2, <2>3 DEF subVars, TypeOK
  <1>5. CASE EnvNext
    <2>1. CASE UNCHANGED <<row, recorded, submitted, subVars>> /\
               (age' = age \/ SubmitQuiet)
      BY <2>1 DEF SubmitQuiet, subVars
    <2>2. CASE Crash
      BY <2>2 DEF Crash, ageVars, histVars
    <2> QED
      BY <1>5, <2>1, <2>2 DEF EnvNext, Land, Drop, GrowStale, GrowOld, Quiet, ageVars,
         histVars
  <1>6. CASE UNCHANGED vars
    BY <1>1, <1>6 DEF vars, ageVars, histVars
  <1> QED
    BY <1>2, <1>3, <1>4, <1>5, <1>6 DEF Next

LEMMA LocalsMatchLedgerStep ==
  TypeOK /\ LocalsMatchLedger /\ [Next]_vars => LocalsMatchLedger'
  <1> SUFFICES ASSUME TypeOK, LocalsMatchLedger, [Next]_vars PROVE LocalsMatchLedger'
    OBVIOUS
  <1> DEFINE Final == \A h \in Hash : ledger[h] # "absent" => ledger'[h] = ledger[h]
  <1>f. Final
    BY LedgerStep
  \* Where a part's own variables do not change, the finality of ledgers is enough.
  <1>a. ASSUME flying' \subseteq flying, UNCHANGED ledger
        PROVE  \A h \in flying' : ledger'[h] = "absent"
    BY <1>a DEF LocalsMatchLedger
  <1>p. ASSUME UNCHANGED pollVars
        PROVE  \A p \in Poll :
                 pollPc'[p] \in {"cache", "persist"} => pollOut'[p] = ledger'[pollHash'[p]]
    BY <1>f, <1>p DEF LocalsMatchLedger, TypeOK, Verdict, pollVars
  <1>c. ASSUME UNCHANGED chkVars
        PROVE  \A c \in Cycle :
                 /\ chkPc'[c] \in Acting \cup {"finalize", "notify"} =>
                      chkOut'[c] = ledger'[chkHash'[c]]
                 /\ chkPc'[c] \in Acting => ledger'[chkHash'[c]] = "success"
    BY <1>f, <1>c DEF LocalsMatchLedger, TypeOK, Verdict, chkVars
  <1>1. CASE SubmitNext
    <2>1. UNCHANGED <<pollVars, chkVars>>
      BY <1>1, SubmitFrame
    <2>2. PICK s \in Submit :
             \/ \E h \in Hash : SubmitFind(s, h)
             \/ SubmitInsert(s) \/ SubmitInsertRefused(s)
             \/ HorizonAccepts(s) \/ HorizonRejects(s) \/ HorizonSilent(s)
             \/ SubmitMark(s) \/ SubmitMarkLost(s)
      BY <1>1 DEF SubmitNext
    <2>3. \A h \in flying' : ledger'[h] = "absent"
      <3>1. CASE HorizonAccepts(s)
        BY <3>1 DEF HorizonAccepts, LocalsMatchLedger, TypeOK
      <3>2. CASE HorizonRejects(s)
        <4>1. subHash[s] \notin flying /\ flying' = flying
          BY <3>2 DEF HorizonRejects
        <4>2. PICK v : ledger' = [ledger EXCEPT ![subHash[s]] = v]
          BY <3>2 DEF HorizonRejects
        <4> QED
          BY <4>1, <4>2 DEF LocalsMatchLedger, TypeOK
      <3>3. CASE HorizonSilent(s)
        <4>1. ledger' = ledger /\ \/ flying' = flying
                                  \/ /\ ledger[subHash[s]] = "absent"
                                     /\ flying' = flying \cup {subHash[s]}
          BY <3>3 DEF HorizonSilent
        <4> QED
          BY <4>1 DEF LocalsMatchLedger
      <3>4. CASE UNCHANGED netVars
        BY <3>4, <1>a DEF netVars
      <3> QED
        BY <2>2, <3>1, <3>2, <3>3, <3>4 DEF SubmitFind, SubmitInsert, SubmitInsertRefused,
           SubmitMark, SubmitMarkLost
    <2> QED
      BY <2>1, <2>3, <1>p, <1>c DEF LocalsMatchLedger
  <1>2. CASE PollNext
    <2>1. UNCHANGED <<netVars, chkVars>>
      BY <1>2, PollFrame
    <2>2. ASSUME NEW p \in Poll, pollPc'[p] \in {"cache", "persist"}
          PROVE  pollOut'[p] = ledger'[pollHash'[p]]
      BY <1>2, <2>1, <2>2 DEF PollNext, PollRead, PollFind, PollLookup, PollCache, PollPersist,
         PollGivesUp, PollDone, LocalsMatchLedger, TypeOK, PollPc, netVars
    <2> QED
      BY <2>1, <2>2, <1>a, <1>c DEF LocalsMatchLedger, netVars
  <1>3. CASE CycleNext
    <2>1. UNCHANGED <<netVars, pollVars>>
      BY <1>3, CycleFrame
    <2>2. PICK c \in Cycle :
            \/ CycleFetch(c) \/ CycleFetchFails(c)
            \/ \E h \in Hash : CycleLookup(c, h) \/ CycleSkip(c, h)
            \/ CycleFinalize(c) \/ CycleFinalizeFails(c)
            \/ CycleReadLoan(c) \/ CycleActivate(c) \/ CycleRepay(c)
            \/ CycleFollowUpFails(c)
            \/ CycleNotify(c) \/ CycleNotifyFails(c)
            \/ CycleEnd(c) \/ CycleEndUncleaned(c)
      BY <1>3 DEF CycleNext
    <2>3. ASSUME NEW d \in Cycle, d # c
          PROVE  chkPc'[d] = chkPc[d] /\ chkOut'[d] = chkOut[d] /\ chkHash'[d] = chkHash[d]
      BY <2>2, <2>3 DEF TypeOK, CycleFetch, CycleFetchFails, CycleLookup, CycleSkip,
         CycleFinalize, CycleFinalizeFails, CycleReadLoan, CycleActivate, CycleRepay,
         CycleFollowUpFails, CycleNotify, CycleNotifyFails, CycleEnd, CycleEndUncleaned,
         NextTransaction
    <2>4. /\ chkPc'[c] \in Acting \cup {"finalize", "notify"} =>
               chkOut'[c] = ledger[chkHash'[c]]
          /\ chkPc'[c] \in Acting => ledger[chkHash'[c]] = "success"
      <3>1. ASSUME NEW h \in Hash, CycleLookup(c, h)
            PROVE  chkPc'[c] = "finalize" /\ chkOut'[c] = ledger[chkHash'[c]]
        BY <3>1 DEF CycleLookup, TypeOK
      <3>2. CASE CycleFinalize(c)
        <4>1. /\ chkPc[c] = "finalize" /\ UNCHANGED <<chkHash, chkOut>>
              /\ chkPc'[c] = FollowUpPc(chkHash[c], chkOut[c])
          BY <3>2 DEF CycleFinalize, TypeOK
        <4>2. FollowUpPc(chkHash[c], chkOut[c]) \in {"activate", "repay"} => chkOut[c] = "success"
          BY DEF FollowUpPc
        <4>3. FollowUpPc(chkHash[c], chkOut[c]) \in {"activate", "repay", "notify"}
          BY DEF FollowUpPc
        <4> QED
          BY <4>1, <4>2, <4>3 DEF LocalsMatchLedger, Acting
      <3>3. CASE CycleReadLoan(c)
        BY <3>3 DEF CycleReadLoan, TypeOK, LocalsMatchLedger, Acting
      <3>4. CASE chkPc'[c] \notin Acting \cup {"finalize", "notify"}
        BY <3>4
      <3>5. CASE UNCHANGED <<chkPc, chkHash, chkOut>>
        BY <3>5 DEF LocalsMatchLedger
      <3>6. CASE CycleActivate(c) \/ CycleRepay(c) \/ CycleFollowUpFails(c)
        BY <3>6 DEF CycleActivate, CycleRepay, CycleFollowUpFails, TypeOK,
           LocalsMatchLedger, Acting
      <3> QED
        BY <2>2, <3>1, <3>2, <3>3, <3>4, <3>5, <3>6 DEF TypeOK, Acting, CycleFetch,
           CycleFetchFails, CycleSkip, CycleFinalizeFails, CycleNotify,
           CycleNotifyFails, CycleEnd, CycleEndUncleaned, NextTransaction
    <2> QED
      BY <2>1, <2>3, <2>4, <1>a, <1>p DEF LocalsMatchLedger, netVars
  <1>4. CASE SweepNext
    BY <1>4, SweepFrame, <1>a, <1>p, <1>c DEF LocalsMatchLedger, netVars
  <1>5. CASE EnvNext
    <2>1. ASSUME NEW h \in Hash, Land(h) PROVE LocalsMatchLedger'
      <3>1. flying' = flying \ {h} /\ UNCHANGED <<pollVars, chkVars>>
        BY <2>1 DEF Land
      <3>2. PICK v : ledger' = [ledger EXCEPT ![h] = v]
        BY <2>1 DEF Land
      <3>3. \A g \in flying' : ledger'[g] = "absent"
        BY <3>1, <3>2 DEF LocalsMatchLedger, TypeOK
      <3> QED
        BY <3>1, <3>3, <1>p, <1>c DEF LocalsMatchLedger
    <2>2. ASSUME NEW h \in Hash, Drop(h) \/ GrowStale(h) \/ GrowOld(h)
          PROVE  LocalsMatchLedger'
      BY <2>2, <1>a, <1>p, <1>c DEF LocalsMatchLedger, Drop, GrowStale, GrowOld, netVars
    <2>3. CASE Crash
      BY <2>3, <1>a DEF Crash, LocalsMatchLedger, netVars, Acting
    <2> QED
      BY <1>5, <2>1, <2>2, <2>3 DEF EnvNext
  <1>6. CASE UNCHANGED vars
    BY <1>6, <1>a, <1>p, <1>c DEF LocalsMatchLedger, vars, netVars
  <1> QED
    BY <1>1, <1>2, <1>3, <1>4, <1>5, <1>6 DEF Next

\* A row is set to success only by a status request or a cycle that holds the
\* ledger's word for it.
LEMMA SuccessStep ==
  ASSUME TypeOK, LocalsMatchLedger, [Next]_vars, NEW h \in Hash,
         row'[h] = "success", row[h] # "success"
  PROVE  ledger'[h] = "success"
  <1>1. CASE SubmitNext
    BY <1>1 DEF TypeOK, SubmitNext, SubmitFind, SubmitInsert, SubmitInsertRefused,
       SendToHorizon, HorizonAccepts, HorizonRejects, HorizonSilent, SubmitMark,
       SubmitMarkLost
  <1>2. CASE PollNext
    <2>1. PICK p \in Poll : PollPersist(p)
      BY <1>2 DEF PollNext, PollRead, PollFind, PollLookup, PollCache, PollPersist, PollGivesUp
    <2>2. pollHash[p] = h /\ pollOut[p] = "success" /\ pollPc[p] = "persist"
      BY <2>1 DEF PollPersist, TypeOK
    <2> QED
      BY <1>2, <2>2, PollFrame DEF LocalsMatchLedger, netVars
  <1>3. CASE CycleNext
    <2>1. PICK c \in Cycle : CycleFinalize(c)
      BY <1>3 DEF CycleNext, CycleFetch, CycleFetchFails, CycleLookup, CycleSkip,
         CycleFinalizeFails, CycleReadLoan, CycleActivate, CycleRepay,
         CycleFollowUpFails, CycleNotify, CycleNotifyFails, CycleEnd, CycleEndUncleaned,
         TypeOK
    <2>2. chkHash[c] = h /\ chkOut[c] = "success" /\ chkPc[c] = "finalize"
      BY <2>1 DEF CycleFinalize, TypeOK
    <2> QED
      BY <1>3, <2>2, CycleFrame DEF LocalsMatchLedger, netVars
  <1>4. CASE SweepNext
    BY <1>4 DEF TypeOK, SweepNext, SweepRead, SweepMark, SweepEnd
  <1>5. CASE EnvNext \/ UNCHANGED vars
    BY <1>5, EnvFrame DEF vars
  <1> QED
    BY <1>1, <1>2, <1>3, <1>4, <1>5 DEF Next

\* A notification is inserted by a cycle that holds the ledger's verdict.
LEMMA NoticesStep ==
  ASSUME TypeOK, LocalsMatchLedger, AnswersMatchLedger, [Next]_vars, NEW h \in Hash
  PROVE  /\ "transaction_failed" \in notices'[h] => ledger'[h] = "failed"
         /\ notices'[h] \ {"transaction_failed"} # {} => ledger'[h] = "success"
  <1>1. ledger[h] # "absent" => ledger'[h] = ledger[h]
    BY LedgerStep
  <1>2. CASE notices'[h] = notices[h]
    BY <1>1, <1>2 DEF AnswersMatchLedger
  <1>3. CASE notices'[h] # notices[h]
    <2>1. CycleNext
      BY <1>3, SubmitFrame, PollFrame, SweepFrame, EnvFrame DEF Next, vars, histVars
    <2>2. PICK c \in Cycle : CycleNotify(c)
      BY <1>3, <2>1 DEF CycleNext, CycleFetch, CycleFetchFails, CycleLookup, CycleSkip,
         CycleFinalize, CycleFinalizeFails, CycleReadLoan, CycleActivate, CycleRepay,
         CycleFollowUpFails, CycleNotifyFails, CycleEnd, CycleEndUncleaned, histVars
    <2>3. /\ chkPc[c] = "notify" /\ chkHash[c] = h
          /\ notices'[h] = notices[h] \cup {NoticeOf(h, chkOut[c])}
      BY <1>3, <2>2 DEF CycleNotify, TypeOK
    <2>4. ledger'[h] = chkOut[c] /\ ledger[h] = chkOut[c] /\ chkOut[c] \in Verdict
      BY <2>1, <2>3, CycleFrame DEF LocalsMatchLedger, TypeOK, netVars
    <2>5. CASE chkOut[c] = "failed"
      <3>1. NoticeOf(h, chkOut[c]) = "transaction_failed"
        BY <2>5 DEF NoticeOf
      <3> QED
        BY <2>3, <2>4, <2>5, <3>1 DEF AnswersMatchLedger
    <2>6. CASE chkOut[c] = "success"
      <3>1. NoticeOf(h, chkOut[c]) # "transaction_failed"
        BY <2>6 DEF NoticeOf
      <3> QED
        BY <2>3, <2>4, <2>6, <3>1 DEF AnswersMatchLedger
    <2> QED
      BY <2>4, <2>5, <2>6 DEF Verdict
  <1> QED
    BY <1>2, <1>3

LEMMA AnswersStep ==
  TypeOK /\ LocalsMatchLedger /\ AnswersMatchLedger /\ [Next]_vars => AnswersMatchLedger'
  <1> SUFFICES ASSUME TypeOK, LocalsMatchLedger, AnswersMatchLedger, [Next]_vars,
                      NEW h \in Hash
               PROVE  /\ cache'[h] # "none" => cache'[h] = ledger'[h]
                      /\ row'[h] = "success" => ledger'[h] = "success"
    BY NoticesStep DEF AnswersMatchLedger
  <1>1. ledger[h] # "absent" => ledger'[h] = ledger[h]
    BY LedgerStep
  <1>2. row'[h] = "success" => ledger'[h] = "success"
    BY <1>1, SuccessStep DEF AnswersMatchLedger
  <1>3. CASE cache'[h] = cache[h]
    BY <1>1, <1>2, <1>3 DEF AnswersMatchLedger, TypeOK, Verdict
  <1>4. CASE cache'[h] # cache[h]
    <2>1. PollNext
      BY <1>4, SubmitFrame, CycleFrame, SweepFrame, EnvFrame DEF Next, vars
    <2>2. PICK p \in Poll : PollCache(p)
      BY <1>4, <2>1 DEF PollNext, PollRead, PollFind, PollLookup, PollPersist, PollGivesUp
    <2>3. pollHash[p] = h /\ cache'[h] = pollOut[p] /\ pollPc[p] = "cache"
      BY <1>4, <2>2 DEF PollCache, TypeOK
    <2> QED
      BY <1>2, <2>1, <2>3, PollFrame DEF LocalsMatchLedger, netVars
  <1> QED
    BY <1>3, <1>4

\* How often a follow-up has run changes only in the write of a cycle that acts.
LEMMA AppliedStep ==
  ASSUME TypeOK, [Next]_vars, NEW h \in Hash, applied'[h] # applied[h]
  PROVE  \E c \in Cycle :
           /\ chkPc[c] \in Acting /\ chkHash[c] = h /\ chkPc'[c] = "notify"
           /\ applied'[h] = applied[h] + 1
           /\ UNCHANGED <<row, recorded>>
  <1>1. CycleNext
    BY SubmitFrame, PollFrame, SweepFrame, EnvFrame DEF Next, vars, histVars
  <1>2. PICK c \in Cycle : CycleActivate(c) \/ CycleRepay(c)
    BY <1>1 DEF CycleNext, CycleFetch, CycleFetchFails, CycleLookup, CycleSkip,
       CycleFinalize, CycleFinalizeFails, CycleReadLoan,
       CycleFollowUpFails, CycleNotify, CycleNotifyFails, CycleEnd, CycleEndUncleaned,
       histVars
  <1>3. chkPc[c] \in Acting /\ chkPc'[c] = "notify" /\ UNCHANGED <<row, recorded>>
    BY <1>2 DEF CycleActivate, CycleRepay, Acting, TypeOK
  <1>4. applied' = applied \/ applied' = [applied EXCEPT ![chkHash[c]] = @ + 1]
    BY <1>2 DEF CycleActivate, CycleRepay
  <1>5. chkHash[c] = h /\ applied'[h] = applied[h] + 1
    BY <1>4 DEF TypeOK
  <1> QED
    BY <1>3, <1>5

\* A cycle gets to act on a hash only by finalizing its pending row.
LEMMA ActingStep ==
  ASSUME TypeOK, [Next]_vars, NEW c \in Cycle, chkPc'[c] \in Acting
  PROVE  /\ chkHash'[c] = chkHash[c]
         /\ \/ chkPc[c] \in Acting
            \/ /\ row[chkHash[c]] = "pending" /\ row'[chkHash[c]] \in Verdict
               /\ UNCHANGED <<applied, recorded>>
  <1>1. CASE UNCHANGED chkVars
    BY <1>1 DEF chkVars
  <1>2. CASE SubmitNext \/ PollNext \/ SweepNext
    BY <1>1, <1>2, SubmitFrame, PollFrame, SweepFrame
  <1>3. CASE CycleNext
    <2>1. PICK d \in Cycle :
            \/ CycleFetch(d) \/ CycleFetchFails(d)
            \/ \E h \in Hash : CycleLookup(d, h) \/ CycleSkip(d, h)
            \/ CycleFinalize(d) \/ CycleFinalizeFails(d)
            \/ CycleReadLoan(d) \/ CycleActivate(d) \/ CycleRepay(d)
            \/ CycleFollowUpFails(d)
            \/ CycleNotify(d) \/ CycleNotifyFails(d)
            \/ CycleEnd(d) \/ CycleEndUncleaned(d)
      BY <1>3 DEF CycleNext
    <2>2. CASE CycleFinalize(d)
      <3>1. CASE c = d
        BY <2>2, <3>1 DEF CycleFinalize, MayFinalize, TypeOK, histVars
      <3>2. CASE c # d
        BY <2>2, <3>2 DEF CycleFinalize, TypeOK
      <3> QED
        BY <3>1, <3>2
    <2> QED
      BY <2>1, <2>2 DEF TypeOK, Acting, CycleFetch, CycleFetchFails, CycleLookup,
         CycleSkip, CycleFinalizeFails, CycleReadLoan, CycleActivate, CycleRepay,
         CycleFollowUpFails, CycleNotify, CycleNotifyFails, CycleEnd, CycleEndUncleaned,
         NextTransaction
  <1>4. CASE EnvNext
    <2>1. CASE Crash
      BY <2>1 DEF Crash, Acting
    <2> QED
      BY <1>1, <1>4, <2>1 DEF EnvNext, Land, Drop, GrowStale, GrowOld
  <1>5. CASE UNCHANGED vars
    BY <1>1, <1>5 DEF vars
  <1> QED
    BY <1>2, <1>3, <1>4, <1>5 DEF Next

LEMMA FollowUpStep ==
  TypeOK /\ Alone /\ LocalsMatchLedger /\ FollowUpIsDue /\ AppliedOncePerRecording
    /\ [Next]_vars => FollowUpIsDue' /\ AppliedOncePerRecording'
  <1> SUFFICES ASSUME TypeOK, Alone, LocalsMatchLedger, FollowUpIsDue,
                      AppliedOncePerRecording, [Next]_vars
               PROVE  FollowUpIsDue' /\ AppliedOncePerRecording'
    OBVIOUS
  <1>n. \A h \in Hash : /\ applied[h] \in Nat /\ recorded[h] \in Nat
                        /\ applied'[h] \in Nat /\ recorded'[h] \in Nat
    <2>1. TypeOK'
      BY TypeSubmit, TypePoll, TypeCycle, TypeSweepEnv, TypeStutter DEF Next
    <2> QED
      BY <2>1 DEF TypeOK
  <1>1. ASSUME NEW h \in Hash, row'[h] = "pending" PROVE applied'[h] < recorded'[h]
    <2>1. applied'[h] = applied[h]
      <3> SUFFICES ASSUME applied'[h] # applied[h] PROVE FALSE
        OBVIOUS
      <3>1. \E c \in Cycle : chkPc[c] \in Acting /\ chkHash[c] = h /\ UNCHANGED row
        BY AppliedStep
      <3> QED
        BY <1>1, <3>1 DEF FollowUpIsDue, Verdict
    <2>2. CASE row[h] = "pending"
      BY <1>n, <2>1, <2>2, LedgerStep DEF FollowUpIsDue
    <2>3. CASE row[h] # "pending"
      <3>1. recorded'[h] = recorded[h] + 1
        BY <1>1, <2>3, RowStep DEF Verdict
      <3>2. applied[h] <= recorded[h]
        BY DEF AppliedOncePerRecording
      <3> QED
        BY <1>n, <2>1, <3>1, <3>2
    <2> QED
      BY <2>2, <2>3
  <1>2. ASSUME NEW c \in Cycle, chkPc'[c] \in Acting
        PROVE  /\ row'[chkHash'[c]] \in Verdict
               /\ applied'[chkHash'[c]] < recorded'[chkHash'[c]]
    <2> DEFINE h == chkHash[c]
    <2>1. chkHash'[c] = h /\ h \in Hash
      BY <1>2, ActingStep DEF TypeOK
    <2>2. CASE chkPc[c] \in Acting
      <3>1. row[h] \in Verdict /\ applied[h] < recorded[h]
        BY <2>2 DEF FollowUpIsDue
      <3>2. \A d \in Cycle : d # c => chkPc[d] = "off"
        BY <2>2 DEF Alone, Acting
      <3>3. row'[h] \in Verdict
        <4>1. ASSUME row'[h] \notin Verdict PROVE \E d \in Cycle : chkPc[d] = "loop"
          <5>1. row'[h] = "none" /\ row[h] # "none"
            BY <2>1, <3>1, <4>1, RowStep DEF Verdict
          <5> HIDE DEF h
          <5>2. CycleNext
            BY <2>1, <3>1, <5>1, EnvFrame
            DEF Next, vars, TypeOK, Verdict, SubmitNext, SubmitFind, SubmitInsert,
                SubmitInsertRefused, SendToHorizon, HorizonAccepts, HorizonRejects,
                HorizonSilent, SubmitMark, SubmitMarkLost, PollNext, PollRead, PollFind, PollLookup,
                PollCache, PollPersist, PollGivesUp, SweepNext, SweepRead, SweepMark,
                SweepEnd
          <5> QED
            BY <2>1, <5>1, <5>2 DEF CycleNext, CycleFetch, CycleFetchFails, CycleLookup,
               CycleSkip, CycleFinalize, CycleFinalizeFails, CycleReadLoan, CycleActivate,
               CycleRepay, CycleFollowUpFails, CycleNotify, CycleNotifyFails, CycleEnd,
               CycleEndUncleaned, TypeOK, Verdict
        <4> QED
          BY <2>2, <3>2, <4>1 DEF Acting
      <3>4. applied'[h] = applied[h]
        <4> SUFFICES ASSUME applied'[h] # applied[h] PROVE FALSE
          OBVIOUS
        <4>1. PICK d \in Cycle : chkPc[d] \in Acting /\ chkPc'[d] = "notify"
          BY <2>1, AppliedStep
        <4>2. d = c
          BY <3>2, <4>1 DEF Acting
        <4> QED
          BY <1>2, <4>1, <4>2 DEF Acting
      <3> QED
        BY <1>n, <2>1, <3>1, <3>3, <3>4, LedgerStep
    <2>3. CASE chkPc[c] \notin Acting
      <3>1. row[h] = "pending" /\ row'[h] \in Verdict /\ UNCHANGED <<applied, recorded>>
        BY <1>2, <2>3, ActingStep
      <3> QED
        BY <2>1, <3>1 DEF FollowUpIsDue
    <2> QED
      BY <2>2, <2>3
  <1>3. ASSUME NEW h \in Hash PROVE applied'[h] <= recorded'[h]
    <2>1. CASE applied'[h] = applied[h]
      BY <1>n, <2>1, LedgerStep DEF AppliedOncePerRecording
    <2>2. CASE applied'[h] # applied[h]
      <3>1. PICK c \in Cycle : /\ chkPc[c] \in Acting /\ chkHash[c] = h
                               /\ applied'[h] = applied[h] + 1 /\ UNCHANGED recorded
        BY <2>2, AppliedStep
      <3>2. applied[h] < recorded[h]
        BY <3>1 DEF FollowUpIsDue
      <3> QED
        BY <1>n, <3>1, <3>2
    <2> QED
      BY <2>1, <2>2
  <1> QED
    BY <1>1, <1>2, <1>3 DEF FollowUpIsDue, AppliedOncePerRecording

-----------------------------------------------------------------------------
(* The theorems.                                                             *)

\* The inductive invariant holds of every reachable state.
THEOREM Safe == Spec => []SafeInv
  <1>1. SafeInv /\ [Next]_vars => TypeOK'
    BY TypeSubmit, TypePoll, TypeCycle, TypeSweepEnv, TypeStutter DEF Next, SafeInv
  <1>2. SafeInv /\ [Next]_vars => SafeInv'
    BY <1>1, AloneStep, SubmitOwnsRowStep, LocalsMatchLedgerStep, AnswersStep, FollowUpStep
    DEF SafeInv
  <1> QED
    BY SafeInit, <1>2, PTL DEF Spec

\* However requests, cron cycles, sweeps, crashes and the network interleave,
\* the follow-up of a transaction changes its loan at most once per recording.
THEOREM FollowUpOnce == Spec => []AppliedOncePerRecording
  <1>1. SafeInv => AppliedOncePerRecording
    BY DEF SafeInv
  <1> QED
    BY Safe, <1>1, PTL

\* A transaction is sent to Horizon at most once per recording.
THEOREM SubmittedOnce == Spec => []SubmittedOncePerRecording
  <1>1. SafeInv => SubmittedOncePerRecording
    BY DEF SafeInv
  <1> QED
    BY Safe, <1>1, PTL

\* Cached answers, and rows that read success, agree with the ledger.
THEOREM AnswersTrue == Spec => []AnswersMatchLedger
  <1>1. SafeInv => AnswersMatchLedger
    BY DEF SafeInv
  <1> QED
    BY Safe, <1>1, PTL

-----------------------------------------------------------------------------
(* The balance of a loan. Only the cycle under way changes a loan, so what it has     *)
(* read is still there when it writes.                                                *)

Repayments(l) == {h \in Hash : LoanOf[h] = l /\ CallOf[h] = "repay_loan"}
Taken(times)  == [h \in Hash |-> times[h] * AmountOf[h]]

\* What has been repaid is a sum over the repayments.
LEMMA RepaidTold ==
  ASSUME NEW l \in Loan, NEW times
  PROVE  RepaidOf(l, times) = Total(Taken(times), Repayments(l))
  <1> DEFINE S == Repayments(l)
             v == Taken(times)
             Repays(g) == g = [s \in SUBSET S |-> IF s = {} THEN 0
                                 ELSE times[ChosenOf(s)] * AmountOf[ChosenOf(s)] + g[RestOf(s)]]
             repaid == CHOOSE g : Repays(g)
  <1>1. IsFiniteSet(S) /\ S \subseteq Hash
    BY ConstantsAssumption, FS_Subset DEF Repayments
  <1>2. PICK h : SumsOf(h, v, S) /\ Total(v, S) = h[S]
    BY <1>1, TotalTold
  <1>3. \A s \in SUBSET S : s # {} => v[ChosenOf(s)] = times[ChosenOf(s)] * AmountOf[ChosenOf(s)]
    BY <1>1, ChosenIn DEF Taken
  <1>4. \A g : Repays(g) <=> SumsOf(g, v, S)
    BY <1>3 DEF SumsOf
  <1>5. RepaidOf(l, times) = repaid[S]
    BY DEF RepaidOf, MapThenSumSet, MapThenFoldSet, ChosenOf, RestOf, Repayments
  <1> HIDE DEF Repays, v, S
  <1>6. Repays(repaid)
    BY <1>2, <1>4
  <1>7. SumsOf(repaid, v, S)
    BY <1>4, <1>6
  <1> HIDE DEF repaid
  <1>8. AgreeOn(v, v, S) /\ S \subseteq S
    BY DEF AgreeOn
  <1>9. repaid[S] = h[S]
    BY <1>1, <1>2, <1>7, <1>8, SameSums
  <1> QED
    BY <1>2, <1>5, <1>9 DEF v, S

LEMMA Distributes == \A n, m \in Nat : n * m \in Nat /\ (n + 1) * m = n * m + m
  OBVIOUS

\* A repayment applied once more.
LEMMA RepaidOnceMore ==
  ASSUME NEW l \in Loan, NEW times \in [Hash -> Nat], NEW h \in Hash
  PROVE  /\ RepaidOf(l, times) \in Nat
         /\ RepaidOf(l, [times EXCEPT ![h] = @ + 1]) =
              IF h \in Repayments(l) THEN RepaidOf(l, times) + AmountOf[h] ELSE RepaidOf(l, times)
  <1> DEFINE S == Repayments(l)
             more == [times EXCEPT ![h] = @ + 1]
             v == Taken(times)
             w == Taken(more)
  <1>1. IsFiniteSet(S) /\ S \subseteq Hash
    BY ConstantsAssumption, FS_Subset DEF Repayments
  <1>2. \A g \in Hash : AmountOf[g] \in Nat
    BY ConstantsAssumption
  <1>3. \A g \in Hash : v[g] \in Nat /\ w[g] \in Nat /\ (g # h => w[g] = v[g]) /\ (g = h => w[g] = v[g] + AmountOf[g])
    BY <1>2, Distributes DEF Taken
  <1>4. RepaidOf(l, times) = Total(v, S) /\ RepaidOf(l, more) = Total(w, S)
    BY RepaidTold
  <1> HIDE DEF v, w, S, more
  <1>5. NatValued(v, S) /\ NatValued(w, S)
    BY <1>1, <1>3 DEF NatValued
  <1>6. Total(v, S) \in Nat
    BY <1>1, <1>5, TotalOfOneMore
  <1>7. ASSUME h \in S PROVE Total(w, S) = Total(v, S) + AmountOf[h]
    <2>1. AgreeOn(w, v, S \ {h}) /\ w[h] = v[h] + AmountOf[h] /\ AmountOf[h] \in Nat
      BY <1>1, <1>2, <1>3 DEF AgreeOn
    <2> QED
      BY <1>1, <1>5, <1>7, <2>1, TotalOfChange
  <1>8. ASSUME h \notin S PROVE Total(w, S) = Total(v, S)
    <2>1. AgreeOn(w, v, S)
      BY <1>1, <1>3, <1>8 DEF AgreeOn
    <2> QED
      BY <1>1, <2>1, SameTotal
  <1> QED
    BY <1>4, <1>6, <1>7, <1>8 DEF more, S

\* What a cycle is about to do is what its transaction calls for, on the loan as it is.
ActsAsCalled ==
  \A c \in Cycle :
    /\ chkPc[c] \in {"activate", "activateWrite"} => CallOf[chkHash[c]] = "create_loan"
    /\ chkPc[c] \in {"repay", "repayWrite"} => CallOf[chkHash[c]] = "repay_loan"
    /\ chkPc[c] = "repayWrite" => chkSeen[c].balance = loan[LoanOf[chkHash[c]]].balance

BalanceInv == TypeOK /\ Alone /\ ActsAsCalled /\ BalanceAccountsForRepayments

LEMMA BalanceInit == Init => BalanceInv
  <1> SUFFICES ASSUME Init PROVE BalanceInv
    OBVIOUS
  <1>1. ActsAsCalled
    BY DEF Init, ActsAsCalled
  <1>2. ASSUME NEW l \in Loan
        PROVE  RepaidOf(l, applied) = 0 /\ loan[l].balance = Principal[l] /\ Principal[l] \in Nat
    <2> DEFINE S == Repayments(l)
               v == Taken(applied)
    <2>1. IsFiniteSet(S) /\ S \subseteq Hash
      BY ConstantsAssumption, FS_Subset DEF Repayments
    <2>2. \A h \in Hash : v[h] = 0
      BY ConstantsAssumption DEF Init, Taken
    <2>3. RepaidOf(l, applied) = Total(v, S)
      BY RepaidTold
    <2> HIDE DEF v, S
    <2>4. Total(v, S) = 0
      BY <2>1, <2>2, TotalOfNothing
    <2> QED
      BY <2>3, <2>4, ConstantsAssumption DEF Init, InitLoan
  <1>3. BalanceAccountsForRepayments
    BY <1>2 DEF BalanceAccountsForRepayments
  <1> QED
    BY <1>1, <1>3, SafeInit DEF SafeInv, BalanceInv

\* The other steps of a cycle.
CycleReads(c) ==
  \/ CycleFetch(c) \/ CycleFetchFails(c)
  \/ \E h \in Hash : CycleLookup(c, h) \/ CycleSkip(c, h)
  \/ CycleFinalize(c) \/ CycleFinalizeFails(c)
  \/ CycleReadLoan(c) \/ CycleFollowUpFails(c)
  \/ CycleNotify(c) \/ CycleNotifyFails(c)
  \/ CycleEnd(c) \/ CycleEndUncleaned(c)

LEMMA CycleReadsStep ==
  ASSUME TypeOK, ActsAsCalled, NEW c \in Cycle, CycleReads(c)
  PROVE  ActsAsCalled' /\ UNCHANGED <<loan, applied>>
  <1>1. /\ UNCHANGED <<loan, applied>>
        /\ \A d \in Cycle \ {c} : /\ chkPc'[d] = chkPc[d] /\ chkHash'[d] = chkHash[d]
                                  /\ chkSeen'[d] = chkSeen[d]
    BY DEF CycleReads, CycleFetch, CycleFetchFails, CycleLookup, CycleSkip, CycleFinalize,
       CycleFinalizeFails, CycleReadLoan, CycleFollowUpFails, CycleNotify, CycleNotifyFails,
       CycleEnd, CycleEndUncleaned, NextTransaction, TypeOK, histVars
  <1>2. CASE chkPc'[c] \notin Acting
    BY <1>1, <1>2 DEF ActsAsCalled, Acting
  <1>3. CASE CycleFinalize(c) /\ chkPc'[c] \in Acting
    <2>1. /\ chkPc'[c] = FollowUpPc(chkHash[c], chkOut[c]) /\ chkHash' = chkHash
          /\ chkPc'[c] \in {"activate", "repay", "notify"}
      BY <1>3 DEF CycleFinalize, FollowUpPc, TypeOK
    <2>2. /\ chkPc'[c] = "activate" => CallOf[chkHash[c]] = "create_loan"
          /\ chkPc'[c] = "repay" => CallOf[chkHash[c]] = "repay_loan"
      BY <2>1 DEF FollowUpPc
    <2> QED
      BY <1>1, <2>1, <2>2 DEF ActsAsCalled
  <1>4. CASE CycleReadLoan(c)
    <2>1. /\ chkHash' = chkHash /\ chkSeen'[c] = loan[LoanOf[chkHash[c]]]
          /\ chkPc[c] = "repay" => chkPc'[c] = "repayWrite"
          /\ chkPc[c] = "activate" => chkPc'[c] \in {"activateWrite", "notify"}
          /\ chkPc[c] \in {"activate", "repay"}
      BY <1>4 DEF CycleReadLoan, TypeOK
    <2> QED
      BY <1>1, <2>1 DEF ActsAsCalled
  <1>5. CASE CycleReads(c) /\ ~CycleFinalize(c) /\ ~CycleReadLoan(c)
    BY <1>2, <1>5
       DEF CycleReads, CycleFetch, CycleFetchFails, CycleLookup, CycleSkip, CycleFinalizeFails,
           CycleFollowUpFails, CycleNotify, CycleNotifyFails, CycleEnd, CycleEndUncleaned,
           NextTransaction, TypeOK, Acting
  <1> QED
    BY <1>1, <1>2, <1>3, <1>4, <1>5

\* The two writes to the loan; every other cycle is off.
LEMMA WritesEnd ==
  ASSUME TypeOK, Alone, NEW c \in Cycle, CycleActivate(c) \/ CycleRepay(c)
  PROVE  ActsAsCalled'
  <1>1. chkPc[c] # "off" /\ chkPc' = [chkPc EXCEPT ![c] = "notify"]
    BY DEF CycleActivate, CycleRepay
  <1>2. \A d \in Cycle : chkPc'[d] \in {"off", "notify"}
    BY <1>1 DEF Alone, TypeOK
  <1> QED
    BY <1>2 DEF ActsAsCalled

LEMMA ActivateStep ==
  ASSUME BalanceInv, NEW c \in Cycle, CycleActivate(c)
  PROVE  BalanceAccountsForRepayments'
  <1> DEFINE h == chkHash[c]
  <1>1. h \in Hash /\ CallOf[h] = "create_loan" /\ applied \in [Hash -> Nat] /\ loan \in [Loan -> LoanRow]
    BY DEF BalanceInv, TypeOK, ActsAsCalled, CycleActivate
  <1>2. \A l \in Loan : loan'[l].balance = loan[l].balance
    BY <1>1 DEF CycleActivate, LoanRow
  <1>3. applied' = applied \/ applied' = [applied EXCEPT ![h] = @ + 1]
    BY DEF CycleActivate
  <1> HIDE DEF h
  <1>4. \A l \in Loan : RepaidOf(l, applied') = RepaidOf(l, applied)
    <2> TAKE l \in Loan
    <2>1. h \notin Repayments(l)
      BY <1>1 DEF Repayments
    <2>2. RepaidOf(l, [applied EXCEPT ![h] = @ + 1]) = RepaidOf(l, applied)
      BY <1>1, <2>1, RepaidOnceMore
    <2> QED
      BY <1>3, <2>2
  <1> QED
    BY <1>2, <1>4 DEF BalanceInv, BalanceAccountsForRepayments

LEMMA RepayStep ==
  ASSUME BalanceInv, NEW c \in Cycle, CycleRepay(c)
  PROVE  BalanceAccountsForRepayments'
  <1> DEFINE h == chkHash[c]
             k == LoanOf[h]
             m == AmountOf[h]
  <1>1. /\ h \in Hash /\ CallOf[h] = "repay_loan" /\ k \in Loan /\ m \in Nat
        /\ applied \in [Hash -> Nat] /\ loan \in [Loan -> LoanRow]
        /\ chkSeen[c].balance = loan[k].balance
    BY ConstantsAssumption DEF BalanceInv, TypeOK, ActsAsCalled, CycleRepay
  <1>2. /\ loan' = [loan EXCEPT ![k] = Repaid(@, chkSeen[c], m)]
        /\ applied' = [applied EXCEPT ![h] = @ + 1]
    BY DEF CycleRepay
  <1> HIDE DEF h, k, m
  <1>3. SUFFICES ASSUME NEW l \in Loan
                 PROVE  loan'[l].balance = IF RepaidOf(l, applied') > Principal[l] THEN 0
                                           ELSE Principal[l] - RepaidOf(l, applied')
    BY DEF BalanceAccountsForRepayments
  <1>4. /\ loan[l].balance = IF RepaidOf(l, applied) > Principal[l] THEN 0
                             ELSE Principal[l] - RepaidOf(l, applied)
        /\ Principal[l] \in Nat
    BY ConstantsAssumption DEF BalanceInv, BalanceAccountsForRepayments
  <1>5. /\ RepaidOf(l, applied) \in Nat
        /\ RepaidOf(l, applied') = IF h \in Repayments(l) THEN RepaidOf(l, applied) + m ELSE RepaidOf(l, applied)
    BY <1>1, <1>2, RepaidOnceMore DEF m
  <1>6. CASE l = k
    <2>1. h \in Repayments(l)
      BY <1>1, <1>6 DEF Repayments, k
    <2>2. loan'[l].balance = IF loan[l].balance > m THEN loan[l].balance - m ELSE 0
      BY <1>1, <1>2, <1>6 DEF Repaid
    <2> QED
      BY <1>1, <1>4, <1>5, <2>1, <2>2
  <1>7. CASE l # k
    <2>1. h \notin Repayments(l)
      BY <1>7 DEF Repayments, k
    <2>2. loan'[l] = loan[l]
      BY <1>1, <1>2, <1>7
    <2> QED
      BY <1>4, <1>5, <2>1, <2>2
  <1> QED
    BY <1>6, <1>7

LEMMA BalanceStep == BalanceInv /\ [Next]_vars => ActsAsCalled' /\ BalanceAccountsForRepayments'
  <1> SUFFICES ASSUME BalanceInv, [Next]_vars PROVE ActsAsCalled' /\ BalanceAccountsForRepayments'
    OBVIOUS
  <1>0. TypeOK /\ Alone /\ ActsAsCalled
    BY DEF BalanceInv
  <1>1. ASSUME UNCHANGED <<loan, applied>> PROVE BalanceAccountsForRepayments'
    BY <1>1 DEF BalanceInv, BalanceAccountsForRepayments
  <1>2. CASE UNCHANGED <<chkVars, loan, applied>>
    BY <1>0, <1>1, <1>2 DEF ActsAsCalled, chkVars
  <1>3. CASE SubmitNext \/ PollNext \/ SweepNext \/ UNCHANGED vars
    BY <1>2, <1>3, SubmitFrame, PollFrame, SweepFrame DEF vars, histVars
  <1>4. CASE CycleNext
    <2>1. PICK c \in Cycle : CycleReads(c) \/ CycleActivate(c) \/ CycleRepay(c)
      BY <1>4 DEF CycleNext, CycleReads
    <2>2. CASE CycleReads(c)
      BY <1>0, <1>1, <2>2, CycleReadsStep
    <2>3. CASE CycleActivate(c)
      BY <1>0, <2>3, WritesEnd, ActivateStep
    <2>4. CASE CycleRepay(c)
      BY <1>0, <2>4, WritesEnd, RepayStep
    <2> QED
      BY <2>1, <2>2, <2>3, <2>4
  <1>5. CASE EnvNext
    <2>1. UNCHANGED <<loan, applied>>
      BY <1>5, EnvFrame DEF histVars
    <2>2. CASE Crash
      <3>1. ActsAsCalled'
        BY <2>2 DEF Crash, ActsAsCalled
      <3> QED
        BY <1>1, <2>1, <3>1
    <2>3. CASE ~Crash
      BY <1>2, <1>5, <2>1, <2>3 DEF EnvNext, Land, Drop, GrowStale, GrowOld
    <2> QED
      BY <2>2, <2>3
  <1> QED
    BY <1>3, <1>4, <1>5 DEF Next

\* No repayment is lost and none counts twice: the balance of every loan is its principal
\* less all repayments applied to it, for any number of transactions, loans, requests and
\* cycles.
THEOREM BalanceRight == Spec => []BalanceAccountsForRepayments
  <1>1. BalanceInv /\ [Next]_vars => BalanceInv'
    <2>1. BalanceInv /\ [Next]_vars => TypeOK'
      BY TypeSubmit, TypePoll, TypeCycle, TypeSweepEnv, TypeStutter DEF Next, BalanceInv
    <2> QED
      BY <2>1, AloneStep, BalanceStep DEF BalanceInv
  <1>2. BalanceInv => BalanceAccountsForRepayments
    BY DEF BalanceInv
  <1> QED
    BY BalanceInit, <1>1, <1>2, PTL DEF Spec

-----------------------------------------------------------------------------
(* The code implements the promise: every step of it is a step of            *)
(* TransactionPromise or leaves that specification's variables alone.        *)

\* Steps other than the clean-up's change the row of one hash at most.
LEMMA OneRowStep ==
  ASSUME TypeOK, [Next]_vars, row' # row
  PROVE  /\ UNCHANGED <<ledger, applied>>
         /\ \/ \E c \in Cycle : CycleEnd(c)
            \/ \E h \in Hash :
                 \/ row[h] = "none" /\ row' = [row EXCEPT ![h] = "pending"]
                    /\ recorded' = [recorded EXCEPT ![h] = @ + 1]
                 \/ \E v \in Verdict : row' = [row EXCEPT ![h] = v]
                    /\ row[h] # "none" /\ UNCHANGED recorded
  <1> USE DEF TypeOK, netVars, histVars
  <1>1. CASE SubmitNext
    <2>1. PICK s \in Submit : SubmitInsert(s) \/ SubmitMark(s)
      BY <1>1 DEF SubmitNext, SubmitFind, SubmitInsertRefused, SendToHorizon,
         HorizonAccepts, HorizonRejects, HorizonSilent, SubmitMarkLost
    <2> QED
      BY <2>1 DEF SubmitInsert, SubmitMark, Verdict
  <1>2. CASE PollNext
    <2>1. PICK p \in Poll : PollPersist(p)
      BY <1>2 DEF PollNext, PollRead, PollFind, PollLookup, PollCache, PollGivesUp
    <2> QED
      BY <2>1 DEF PollPersist
  <1>3. CASE CycleNext
    <2>1. PICK c \in Cycle : CycleFinalize(c) \/ CycleEnd(c)
      BY <1>3 DEF CycleNext, CycleFetch, CycleFetchFails, CycleLookup, CycleSkip,
         CycleFinalizeFails, CycleReadLoan, CycleActivate, CycleRepay,
         CycleFollowUpFails, CycleNotify, CycleNotifyFails, CycleEndUncleaned
    <2> QED
      BY <2>1 DEF CycleFinalize, CycleEnd, MayFinalize
  <1>4. CASE SweepNext
    <2>1. PICK h \in Hash : SweepMark(h)
      BY <1>4 DEF SweepNext, SweepRead, SweepEnd
    <2> QED
      BY <2>1 DEF SweepMark, Verdict
  <1> QED
    BY <1>1, <1>2, <1>3, <1>4, EnvFrame DEF Next, vars

\* The ledger gets the verdict of one transaction at a time, and nothing else
\* the promise is about changes with it.
LEMMA OneLedgerStep ==
  ASSUME TypeOK, LocalsMatchLedger, [Next]_vars, ledger' # ledger
  PROVE  /\ UNCHANGED <<row, recorded, applied>>
         /\ \E h \in Hash : \E v \in Verdict :
              ledger[h] = "absent" /\ ledger' = [ledger EXCEPT ![h] = v]
  <1> USE DEF TypeOK, netVars, histVars
  <1>1. CASE SubmitNext
    <2>1. PICK s \in Submit : HorizonAccepts(s) \/ HorizonRejects(s)
      BY <1>1 DEF SubmitNext, SubmitFind, SubmitInsert, SubmitInsertRefused,
         HorizonSilent, SubmitMark, SubmitMarkLost
    <2>2. UNCHANGED <<row, recorded, applied>>
      BY <2>1 DEF HorizonAccepts, HorizonRejects, SendToHorizon
    <2>3. PICK v : /\ ledger' = [ledger EXCEPT ![subHash[s]] = v]
                   /\ \/ v = "success" /\ ledger[subHash[s]] # "failed"
                      \/ v \in {ledger[subHash[s]], "failed"} /\ ledger[subHash[s]] # "success"
      BY <2>1 DEF HorizonAccepts, HorizonRejects
    <2>4. ledger[subHash[s]] = "absent" /\ v \in Verdict
      BY <2>3 DEF Verdict
    <2> QED
      BY <2>2, <2>3, <2>4
  <1>2. CASE EnvNext
    <2>1. PICK h \in flying : Land(h)
      <3>1. PICK h \in Hash : Land(h) \/ Drop(h) \/ GrowStale(h) \/ GrowOld(h)
        BY <1>2 DEF EnvNext, Crash
      <3>2. Land(h)
        BY <3>1 DEF Drop, GrowStale, GrowOld
      <3> HIDE DEF TypeOK, netVars, histVars
      <3>3. h \in flying
        BY <3>2 DEF Land
      <3> QED
        BY <3>2, <3>3
    <2>2. h \in Hash /\ ledger[h] = "absent"
      BY <2>1 DEF LocalsMatchLedger
    <2> HIDE DEF TypeOK
    <2> QED
      BY <2>1, <2>2 DEF Land
  <1> QED
    BY <1>1, <1>2, PollFrame, CycleFrame, SweepFrame DEF Next, vars

LEMMA PromiseStep == SafeInv /\ SafeInv' /\ [Next]_vars => [Promise!Next]_(Promise!vars)
  <1> SUFFICES ASSUME SafeInv, SafeInv', [Next]_vars PROVE [Promise!Next]_(Promise!vars)
    OBVIOUS
  <1> USE DEF SafeInv
  <1>1. CASE row' # row
    <2>1. CASE \E c \in Cycle : CycleEnd(c)
      <3>1. UNCHANGED <<ledger, recorded, applied>>
        BY <2>1 DEF CycleEnd, netVars, histVars
      <3>2. row' = [h \in Hash |-> IF h \in Expired THEN "none" ELSE row[h]]
        BY <2>1 DEF CycleEnd
      <3>3. Promise!Forget(Expired) /\ Expired \in SUBSET Hash
        BY <3>1, <3>2 DEF Promise!Forget, Expired, Verdict, Promise!Verdict
      <3> QED
        BY <3>3 DEF Promise!Next
    <2>2. ASSUME NEW h \in Hash, row[h] = "none", row' = [row EXCEPT ![h] = "pending"],
                 recorded' = [recorded EXCEPT ![h] = @ + 1]
          PROVE  Promise!Next
      BY <1>1, <2>2, OneRowStep DEF Promise!Next, Promise!Record
    <2>3. ASSUME NEW h \in Hash, NEW v \in Verdict, row' = [row EXCEPT ![h] = v],
                 row[h] # "none", UNCHANGED recorded
          PROVE  Promise!Next
      <3>1. UNCHANGED <<ledger, applied>>
        BY <1>1, OneRowStep
      <3>2. v = "success" => ledger[h] = "success"
        BY <2>3, <3>1 DEF AnswersMatchLedger, TypeOK
      <3> QED
        BY <2>3, <3>1, <3>2 DEF Promise!Next, Promise!Resolve, Verdict, Promise!Verdict
    <2> QED
      BY <1>1, <2>1, <2>2, <2>3, OneRowStep
  <1>2. CASE ledger' # ledger
    BY <1>2, OneLedgerStep DEF Promise!Next, Promise!Settle, Verdict, Promise!Verdict
  <1>3. CASE applied' # applied
    <2>1. PICK c \in Cycle : CycleActivate(c) \/ CycleRepay(c)
      BY <1>3, SubmitFrame, PollFrame, SweepFrame, EnvFrame
      DEF Next, vars, CycleNext, CycleFetch, CycleFetchFails, CycleLookup, CycleSkip,
          CycleFinalize, CycleFinalizeFails, CycleReadLoan, CycleFollowUpFails,
          CycleNotify, CycleNotifyFails, CycleEnd, CycleEndUncleaned, histVars
    <2>2. /\ chkPc[c] \in Acting /\ UNCHANGED <<row, ledger, recorded>>
          /\ applied' = [applied EXCEPT ![chkHash[c]] = @ + 1]
      BY <1>3, <2>1 DEF CycleActivate, CycleRepay, Acting, netVars
    <2>3. /\ ledger[chkHash[c]] = "success" /\ applied[chkHash[c]] < recorded[chkHash[c]]
          /\ chkHash[c] \in Hash
      BY <2>2 DEF LocalsMatchLedger, FollowUpIsDue, TypeOK
    <2> QED
      BY <2>2, <2>3 DEF Promise!Next, Promise!Apply
  <1>4. CASE UNCHANGED <<row, ledger, applied>>
    <2>1. recorded' = recorded
      BY <1>4, PollFrame, CycleFrame, SweepFrame, EnvFrame
      DEF Next, vars, histVars, SubmitNext, SubmitFind, SubmitInsert,
          SubmitInsertRefused, SendToHorizon, HorizonAccepts, HorizonRejects,
          HorizonSilent, SubmitMark, SubmitMarkLost, TypeOK
    <2> QED
      BY <1>4, <2>1 DEF Promise!vars
  <1> QED
    BY <1>1, <1>2, <1>3, <1>4

\* The handlers, cron jobs and clean-up keep the promise of TransactionPromise.
THEOREM KeepsPromise == Spec => PromiseKept
  <1>1. Init => Promise!Init
    BY DEF Init, Promise!Init
  <1> QED
    BY <1>1, Safe, PromiseStep, PTL DEF Spec, PromiseKept, Promise!Spec
=============================================================================
