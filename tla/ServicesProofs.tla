-------------------------------- MODULE ServicesProofs --------------------------------
(* Proofs about the services of MCServices: each is first seen to be alone, and then   *)
(* proved about with the invariant of its own module.                                *)
EXTENDS MCServices, Sequences, FiniteSetTheorems, TLAPS

\* A step of the module is a step of one service and leaves the others alone, so that
\* every service behaves as it does in its own module.
LEMMA ServicesStep ==
  [Next]_vars => /\ [A!Next]_(A!vars) /\ [L!Next]_(L!vars) /\ [V!Next]_(V!vars) /\ [R!Next]_(R!vars)
                 /\ [C!Next]_(C!vars) /\ [D!Next]_(D!vars) /\ [Q!Next]_quote /\ [P!Next]_(P!vars)
  BY DEF Next, vars, Accounts, Learners, Vouching, Reminders, Challenge, Admission, Quotes,
     Pool, pool, accounts, learners, vouching, reminders, challenge, admission, A!vars, A!store, A!hist,
     L!vars, V!vars, R!vars, C!vars, D!vars, P!vars, P!pool

LEMMA ServicesAlone == Spec => /\ A!Spec /\ L!Spec /\ V!Spec /\ R!Spec /\ C!Spec /\ D!Spec /\ Q!Spec /\ P!Spec
  <1>1. Init => A!Init /\ L!Init /\ V!Init /\ R!Init /\ C!Init /\ D!Init /\ Q!Init /\ P!Init
    BY DEF Init
  <1> QED
    BY <1>1, ServicesStep, PTL DEF Spec, A!Spec, L!Spec, V!Spec, R!Spec, C!Spec, D!Spec, Q!Spec, P!Spec

LEMMA SameBoolean == \A p, q \in BOOLEAN : (p <=> q) => p = q
  OBVIOUS

-----------------------------------------------------------------------------
\* Learners

Profile   == [exists : BOOLEAN, has : SUBSET Required, complete : BOOLEAN, since : BOOLEAN]
LearnerAt == {"find", "insert", "write", "done", "refused", "conflict", "duplicate"}
Asking    == [at : LearnerAt, op : {"login", "upsert", "sponsor"}, seen : Profile]

\* What the flag says of the row is right unless the last update was torn.
LearnersInv ==
  /\ learner \in Profile /\ torn \in BOOLEAN /\ ask \in [Call -> Asking]
  /\ ~torn => (learner.complete <=> learner.has = Required)

LEMMA LearnersTypes ==
  L!NoLearner \in Profile /\ L!NoAsk \in Asking /\ L!NoLearner.has = {} /\ ~L!NoLearner.complete
  BY DEF L!NoLearner, L!NoAsk, Profile, Asking, LearnerAt

LEMMA LearnersInit == L!Init => LearnersInv
  BY LearnersTypes, LearnersAssumption DEF L!Init, LearnersInv

LEMMA LearnersLeave ==
  ASSUME LearnersInv, NEW c \in Call, NEW pc \in LearnerAt, L!Leaves(c, pc)
  PROVE  ask' \in [Call -> Asking]
  <1>1. [L!NoAsk EXCEPT !.at = pc] \in Asking /\ [ask[c] EXCEPT !.at = pc] \in Asking
    BY LearnersTypes DEF LearnersInv, Asking
  <1> QED
    BY <1>1 DEF LearnersInv, L!Leaves

\* What an undisturbed update writes: the fields, and whether they are all there.
LEMMA LearnersUpsert ==
  ASSUME LearnersInv, NEW c \in Call, L!UpsertsProfile(c)
  PROVE  LearnersInv'
  <1> DEFINE seen == ask[c].seen
  <1>0. seen \in Profile /\ learner \in Profile
    BY DEF LearnersInv, Asking
  <1>1. ask' \in [Call -> Asking]
    BY LearnersLeave DEF L!UpsertsProfile, LearnerAt
  <1>2. CASE UNCHANGED <<learner, torn>>
    BY <1>1, <1>2 DEF LearnersInv
  <1>3. ASSUME NEW some \in SUBSET Required, NEW given \in [some -> BOOLEAN],
               learner' = [exists   |-> TRUE,
                           has      |-> L!Merged(learner.has, given),
                           complete |-> L!CompleteWith(seen.has, given),
                           since    |-> L!Onboarded(seen, L!CompleteWith(seen.has, given))],
               torn' = (seen.has # learner.has)
        PROVE  LearnersInv'
    <2>1. L!Merged(learner.has, given) \in SUBSET Required /\ L!CompleteWith(seen.has, given) \in BOOLEAN
      BY DEF L!Merged, L!CompleteWith
    <2>6. L!Onboarded(seen, L!CompleteWith(seen.has, given)) \in BOOLEAN
      BY <1>0 DEF Profile, L!Onboarded
    <2>2. learner' \in Profile
      BY <1>3, <2>1, <2>6 DEF Profile
    <2>3. torn' \in BOOLEAN /\ (~torn' => seen.has = learner.has)
      BY <1>3
    <2>4. learner'.has = L!Merged(learner.has, given) /\ (learner'.complete <=> L!CompleteWith(seen.has, given))
      BY <1>3
    <2>5. ~torn' => (learner'.complete <=> learner'.has = Required)
      BY <2>3, <2>4 DEF L!CompleteWith
    <2> QED
      BY <1>1, <2>2, <2>3, <2>5 DEF LearnersInv
  <1> QED
    BY <1>2, <1>3 DEF L!UpsertsProfile

LEMMA LearnersStep == LearnersInv /\ [L!Next]_(L!vars) => LearnersInv'
  <1> SUFFICES ASSUME LearnersInv, [L!Next]_(L!vars) PROVE LearnersInv'
    OBVIOUS
  <1>1. ASSUME NEW c \in Call, L!Asks(c) PROVE LearnersInv'
    <2>1. PICK op \in {"login", "upsert", "sponsor"} :
            ask' = [ask EXCEPT ![c] = [L!NoAsk EXCEPT !.at = "find", !.op = op]]
      BY <1>1 DEF L!Asks
    <2>2. [L!NoAsk EXCEPT !.at = "find", !.op = op] \in Asking
      BY LearnersTypes DEF Asking, LearnerAt
    <2> QED
      BY <1>1, <2>1, <2>2 DEF L!Asks, LearnersInv
  <1>2. ASSUME NEW c \in Call, L!LooksForProfile(c) PROVE LearnersInv'
    BY <1>2, LearnersLeave DEF L!LooksForProfile, LearnersInv, LearnerAt
  <1>3. ASSUME NEW c \in Call, L!InsertsProfile(c) PROVE LearnersInv'
    <2>1. ask' \in [Call -> Asking]
      BY <1>3, LearnersLeave DEF L!InsertsProfile, LearnerAt
    <2>2. CASE learner' = [L!NoLearner EXCEPT !.exists = TRUE]
      <3>1. learner' \in Profile /\ learner'.has = {} /\ ~learner'.complete
        BY <2>2, LearnersTypes DEF Profile
      <3> QED
        BY <1>3, <2>1, <3>1, LearnersAssumption DEF LearnersInv, L!InsertsProfile
    <2> QED
      BY <1>3, <2>1, <2>2 DEF L!InsertsProfile, LearnersInv
  <1>4. ASSUME NEW c \in Call, L!ReadsProfile(c) PROVE LearnersInv'
    <2>1. PICK seen \in Profile : ask' = [ask EXCEPT ![c].at = "write", ![c].seen = seen]
      BY <1>4, LearnersTypes DEF L!ReadsProfile, LearnersInv
    <2>2. [ask[c] EXCEPT !.at = "write", !.seen = seen] \in Asking
      BY DEF LearnersInv, Asking, LearnerAt
    <2>3. ask' = [ask EXCEPT ![c] = [ask[c] EXCEPT !.at = "write", !.seen = seen]]
      BY <2>1 DEF LearnersInv
    <2> QED
      BY <1>4, <2>2, <2>3 DEF L!ReadsProfile, LearnersInv
  <1>5. ASSUME NEW c \in Call, L!LooksForSponsor(c) \/ L!InsertsSponsor(c) PROVE LearnersInv'
    BY <1>5, LearnersLeave DEF L!LooksForSponsor, L!InsertsSponsor, LearnersInv, LearnerAt
  <1>6. CASE UNCHANGED L!vars
    BY <1>6 DEF L!vars, LearnersInv
  <1> QED
    BY <1>1, <1>2, <1>3, <1>4, <1>5, <1>6, LearnersUpsert DEF L!Next

\* Whatever updates, logins and failed reads interleave: profile_complete is right
\* after every update that was computed from the row it wrote to.
THEOREM CompleteFlag == Spec => []CompleteFlagRight
  <1>1. LearnersInv => CompleteFlagRight
    <2>1. LearnersInv /\ ~torn => learner.complete = (learner.has = Required)
      <3> SUFFICES ASSUME LearnersInv, ~torn PROVE learner.complete = (learner.has = Required)
        OBVIOUS
      <3>1. learner.complete \in BOOLEAN /\ (learner.has = Required) \in BOOLEAN
        BY DEF LearnersInv, Profile
      <3>2. learner.complete <=> (learner.has = Required)
        BY DEF LearnersInv
      <3> DEFINE whole == (learner.has = Required)
      <3>3. whole \in BOOLEAN /\ learner.complete \in BOOLEAN /\ (learner.complete <=> whole)
        BY <3>1, <3>2
      <3> HIDE DEF whole
      <3>4. learner.complete = whole
        BY <3>3, SameBoolean, Zenon
      <3> QED
        BY <3>4 DEF whole
    <2> QED
      BY <2>1 DEF CompleteFlagRight, L!CompleteFlagRight
  <1>2. L!Spec => []LearnersInv
    BY LearnersInit, LearnersStep, PTL DEF L!Spec
  <1> QED
    BY <1>1, <1>2, ServicesAlone, PTL

-----------------------------------------------------------------------------
\* Challenge

\* A row that was issued holds what was answered for its own nonce, under the settings
\* of then.
Answer(n) ==
  \E c \in C!Configs, expires \in Nat :
    LET message == C!Envelope(c, n, expires) IN
    \E hash \in {C!Digest(message), C!NoHash} :
      row[n] = [issued |-> TRUE, expires |-> expires, hash |-> hash, message |-> message,
                transaction |-> C!Transaction(c, hash, expires)]

ChallengeInv ==
  /\ now \in Nat /\ config \in C!Configs
  /\ DOMAIN row = Nonce
  /\ \A n \in Nonce : row[n] = C!NoRow \/ Answer(n)

LEMMA ChallengeInit == C!Init => ChallengeInv
  BY DEF C!Init, ChallengeInv

LEMMA ChallengeStep == ChallengeInv /\ [C!Next]_(C!vars) => ChallengeInv'
  <1> SUFFICES ASSUME ChallengeInv, [C!Next]_(C!vars) PROVE ChallengeInv'
    OBVIOUS
  <1>1. ASSUME NEW n \in Nonce, C!Issue(n) PROVE ChallengeInv'
    <2> DEFINE message == C!Envelope(config, n, now + TTL)
    <2>1. PICK hash \in {C!Digest(message), C!NoHash} :
            row' = [row EXCEPT ![n] = [issued |-> TRUE, expires |-> now + TTL, hash |-> hash, message |-> message,
                                       transaction |-> C!Transaction(config, hash, now + TTL)]]
      BY <1>1 DEF C!Issue
    <2>2. now + TTL \in Nat /\ config \in C!Configs /\ UNCHANGED <<now, config>>
      BY <1>1, ChallengeAssumption DEF ChallengeInv, C!Issue
    <2>3. Answer(n)'
      BY <2>1, <2>2 DEF Answer, ChallengeInv
    <2>4. \A m \in Nonce \ {n} : row'[m] = row[m]
      BY <2>1 DEF ChallengeInv
    <2>5. DOMAIN row' = Nonce
      BY <2>1 DEF ChallengeInv
    <2>6. \A m \in Nonce \ {n} : Answer(m) => Answer(m)'
      BY <2>4 DEF Answer
    <2> QED
      BY <2>2, <2>3, <2>4, <2>5, <2>6 DEF ChallengeInv
  <1>2. CASE C!Deploy \/ C!Tick \/ UNCHANGED C!vars
    <2>1. now' \in Nat /\ config' \in C!Configs /\ UNCHANGED row
      BY <1>2 DEF C!Deploy, C!Tick, C!vars, ChallengeInv
    <2> QED
      BY <2>1 DEF ChallengeInv, Answer
  <1> QED
    BY <1>1, <1>2 DEF C!Next

\* Of a row that was issued: its fields.
LEMMA AnswerFields ==
  ASSUME ChallengeInv, NEW n \in C!Answered
  PROVE  /\ n \in Nonce /\ row[n].expires \in Nat
         /\ row[n].message.nonce = n /\ row[n].message.expires = row[n].expires
         /\ row[n].hash \in {C!Digest(row[n].message), C!NoHash}
         /\ row[n].transaction.value = row[n].hash
         /\ row[n].transaction.maxTime = row[n].expires \div Second
         /\ row[n].transaction.network = row[n].message.network
  <1>1. n \in Nonce /\ row[n].issued
    BY DEF C!Answered
  <1>2. row[n] # C!NoRow
    BY <1>1 DEF C!NoRow
  <1>3. Answer(n)
    BY <1>1, <1>2 DEF ChallengeInv
  <1> QED
    BY <1>1, <1>3 DEF Answer, C!Envelope, C!Transaction

LEMMA DigestBinds ==
  \A m, n : /\ C!Digest(m) = C!Digest(n) => m = n
            /\ C!Digest(m) # C!NoHash
  BY DEF C!Digest, C!NoHash

\* A signature over another answer, over one made for another deployment, or after the
\* nonce has expired, is accepted under no scheme.
THEOREM Bound == Spec => []AcceptedIsBound
  <1>1. ChallengeInv => AcceptedIsBound
    <2> SUFFICES ASSUME ChallengeInv, NEW n \in C!Answered, NEW m \in C!Answered,
                        NEW scheme \in C!Schemes, NEW echoed \in BOOLEAN, C!Accepts(n, m, scheme, echoed)
                 PROVE  /\ m = n /\ now <= row[n].expires
                        /\ scheme # "raw" => row[n].message.network = config.network
                        /\ scheme \notin {"raw", "sep0010"} => row[n].message.domain = config.domain
      BY DEF AcceptedIsBound, C!AcceptedIsBound
    <2>0. now <= row[n].expires
      BY AnswerFields DEF C!Accepts, ChallengeInv
    <2>1. CASE scheme = "sep0010"
      <3>1. C!Sep0010(n, row[m].transaction)
        BY <2>1 DEF C!Accepts
      <3>2. row[n].hash # C!NoHash /\ row[m].hash = row[n].hash /\ row[m].message.network = config.network
        BY <3>1, AnswerFields DEF C!Sep0010, C!Carries
      <3>3. row[m].message = row[n].message
        BY <3>2, AnswerFields, DigestBinds
      <3> QED
        BY <2>0, <2>1, <3>2, <3>3, AnswerFields
    <2>2. CASE scheme = "raw"
      BY <2>0, <2>2 DEF C!Accepts, C!Raw
    <2>3. CASE scheme \notin {"sep0010", "raw"}
      <3>1. C!Canonical(n, row[m].message, echoed)
        BY <2>3 DEF C!Accepts
      <3>2. C!Bound(n, row[m].message)
        BY <3>1 DEF C!Canonical
      <3>3. m = n /\ row[m].message.domain = config.domain /\ row[m].message.network = config.network
        BY <3>2, AnswerFields DEF C!Bound
      <3> QED
        BY <2>0, <2>3, <3>3
    <2> QED
      BY <2>1, <2>2, <2>3
  <1>2. C!Spec => []ChallengeInv
    BY ChallengeInit, ChallengeStep, PTL DEF C!Spec
  <1> QED
    BY <1>1, <1>2, ServicesAlone, PTL

\* Whole seconds of a time.
LEMMA WholeSeconds == \A t \in Nat : (t \div Second) * Second <= t
  BY ChallengeAssumption

\* And one over the answer itself is accepted under each of them while it lasts.
THEOREM Fresh == Spec => []FreshIsAccepted
  <1>1. ChallengeInv => FreshIsAccepted
    <2> SUFFICES ASSUME ChallengeInv, NEW n \in C!Answered, NEW scheme \in C!Schemes, NEW echoed \in BOOLEAN,
                        now < (row[n].expires \div Second) * Second,
                        IF scheme = "raw" THEN config.legacy /\ now < Sunset
                        ELSE row[n].hash # C!NoHash /\ row[n].message = C!Envelope(config, n, row[n].expires)
                 PROVE  C!Accepts(n, n, scheme, echoed)
      BY DEF FreshIsAccepted, C!FreshIsAccepted
    <2>0. row[n].issued /\ row[n].expires >= now /\ row[n].expires > now
      <3>1. (row[n].expires \div Second) * Second \in Int /\ now \in Nat /\ row[n].expires \in Nat
        BY AnswerFields, ChallengeAssumption DEF ChallengeInv
      <3> QED
        BY <3>1, AnswerFields, WholeSeconds DEF C!Answered
    <2>1. CASE scheme = "sep0010"
      <3>1. C!Carries(row[n].transaction, row[n])
        BY <2>1, AnswerFields DEF C!Carries
      <3>2. C!Lives(row[n].transaction)
        <4>1. row[n].transaction.maxTime = row[n].expires \div Second
          BY AnswerFields
        <4>2. (row[n].expires \div Second) * Second \in Int /\ now \in Nat
          BY AnswerFields, ChallengeAssumption DEF ChallengeInv
        <4> QED
          BY <4>1, <4>2 DEF C!Lives
      <3>3. row[n].transaction.network = config.network
        BY <2>1, AnswerFields DEF C!Envelope
      <3> QED
        BY <2>0, <2>1, <3>1, <3>2, <3>3 DEF C!Accepts, C!Sep0010
    <2>2. CASE scheme = "raw"
      BY <2>0, <2>2 DEF C!Accepts, C!Raw
    <2>3. CASE scheme \notin {"sep0010", "raw"}
      <3> DEFINE message == row[n].message
      <3>1. message = C!Envelope(config, n, row[n].expires) /\ row[n].hash = C!Digest(message)
        BY <2>3, AnswerFields
      <3>2. message.domain = config.domain /\ message.network = config.network /\ message.nonce = n
        BY <3>1 DEF C!Envelope
      <3>3. C!Bound(n, message)
        BY <2>0, <3>1, <3>2, AnswerFields DEF C!Bound, C!NoHash, C!Digest
      <3>4. C!Canonical(n, message, echoed)
        BY <3>1, <3>3 DEF C!Canonical
      <3> QED
        BY <2>0, <2>3, <3>4 DEF C!Accepts
    <2> QED
      BY <2>1, <2>2, <2>3
  <1>2. C!Spec => []ChallengeInv
    BY ChallengeInit, ChallengeStep, PTL DEF C!Spec
  <1> QED
    BY <1>1, <1>2, ServicesAlone, PTL

-----------------------------------------------------------------------------
\* Admission

\* What the admission has seen to, of every row: all its operations, for the functions
\* of its type and -- where a loan is changed -- the contract of then; and the source.
Admitted(r) ==
  /\ r.type \in D!TransactionType /\ r.xdr.source = r.wallet
  /\ r.xdr.operations \in D!Operations
  /\ \A i \in DOMAIN r.xdr.operations :
       LET operation == r.xdr.operations[i] IN
       /\ operation.function \in D!Allowlist[r.type].functions
       /\ D!Allowlist[r.type].flow = "credit_line" => operation.contract = r.then

AdmissionInv == \A r \in record : Admitted(r)

LEMMA AdmissionInit == D!Init => AdmissionInv
  BY DEF D!Init, AdmissionInv

LEMMA AdmissionStep == AdmissionInv /\ [D!Next]_(D!vars) => AdmissionInv'
  <1> SUFFICES ASSUME AdmissionInv, [D!Next]_(D!vars) PROVE AdmissionInv'
    OBVIOUS
  <1>1. CASE D!SubmitTransaction
    <2>1. PICK type \in D!TransactionType, operations \in D!Operations,
               wallet \in Wallet, source \in Wallet, payer \in Wallet \cup {D!Nobody} :
            LET xdr == [source |-> source, payer |-> payer, operations |-> operations] IN
            /\ D!OperationsAllowed(operations, type)
            /\ D!WalletAuthorizes(xdr, wallet)
            /\ record' = record \cup {[wallet |-> wallet, type |-> type, xdr |-> xdr,
                                       then |-> contractId["credit_line"]]}
      BY <1>1 DEF D!SubmitTransaction
    <2> DEFINE r == [wallet |-> wallet, type |-> type,
                     xdr |-> [source |-> source, payer |-> payer, operations |-> operations],
                     then |-> contractId["credit_line"]]
    <2>2. source = wallet
      BY <2>1 DEF D!WalletAuthorizes, D!EffectiveSource, D!AuthorizedAddresses
    <2>3. \A i \in DOMAIN operations :
            /\ operations[i].function \in D!Allowlist[type].functions
            /\ D!Allowlist[type].flow = "credit_line" => operations[i].contract = contractId["credit_line"]
      BY <2>1 DEF D!OperationsAllowed, D!Allowed
    <2>4. r.type = type /\ r.wallet = wallet /\ r.xdr.source = source /\ r.xdr.operations = operations
          /\ r.then = contractId["credit_line"]
      OBVIOUS
    <2>5. record' = record \cup {r}
      BY <2>1
    <2> HIDE DEF r
    <2>6. Admitted(r)
      BY <2>2, <2>3, <2>4 DEF Admitted
    <2> QED
      BY <2>5, <2>6 DEF AdmissionInv
  <1>2. CASE D!Deploy \/ UNCHANGED D!vars
    BY <1>2 DEF D!Deploy, D!vars, AdmissionInv
  <1> QED
    BY <1>1, <1>2 DEF D!Next

\* The checker reads less than the admission did, after the settings may have changed:
\* a follow-up is nonetheless of the very call that was admitted.
THEOREM FollowUp == Spec => []FollowUpIsDeclared
  <1>1. AdmissionInv => FollowUpIsDeclared
    <2> SUFFICES ASSUME NEW r \in record, Admitted(r), D!MayLand(r), D!FollowUp(r) # "none"
                 PROVE  /\ D!First(r).function = IF D!FollowUp(r) = "activatePendingLoan" THEN "create_loan"
                                                 ELSE "repay_loan"
                        /\ D!First(r).contract = r.then
                        /\ r.xdr.source = r.wallet
      BY DEF AdmissionInv, FollowUpIsDeclared, D!FollowUpIsDeclared
    <2>1. 1 \in DOMAIN r.xdr.operations
      <3>1. PICK n \in 0 .. MaxOps : r.xdr.operations \in [1 .. n -> D!Operation]
        BY DEF Admitted, D!Operations
      <3>2. Len(r.xdr.operations) = n
        BY <3>1
      <3> QED
        BY <3>1, <3>2 DEF D!MayLand
    <2>2. D!First(r).function \in D!Allowlist[r.type].functions
          /\ (D!Allowlist[r.type].flow = "credit_line" => D!First(r).contract = r.then)
      BY <2>1 DEF Admitted, D!First
    <2>3. CASE D!NamesLoan(r) /\ r.type = "loan_create"
      <3>1. D!FollowUp(r) = "activatePendingLoan"
        BY <2>3 DEF D!FollowUp
      <3>2. D!Allowlist[r.type].functions = {"create_loan"} /\ D!Allowlist[r.type].flow = "credit_line"
        BY <2>3 DEF D!Allowlist
      <3> QED
        BY <2>2, <3>1, <3>2 DEF Admitted
    <2>4. CASE D!NamesAmount(r) /\ r.type = "loan_repay"
      <3>1. D!FollowUp(r) = "applyLoanRepayment" /\ D!First(r).function = "repay_loan"
        BY <2>4 DEF D!FollowUp, D!NamesAmount
      <3>2. D!Allowlist[r.type].flow = "credit_line"
        BY <2>4 DEF D!Allowlist
      <3> QED
        BY <2>2, <3>1, <3>2 DEF Admitted
    <2> QED
      BY <2>3, <2>4 DEF D!FollowUp
  <1>2. D!Spec => []AdmissionInv
    BY AdmissionInit, AdmissionStep, PTL DEF D!Spec
  <1> QED
    BY <1>1, <1>2, ServicesAlone, PTL

-----------------------------------------------------------------------------
\* Reminders

Kind == {"none", "payment_reminder_3d", "payment_reminder_1d", "payment_overdue"}
Run  == [at : {"idle", "next", "check", "insert"}, todo : SUBSET [loan : Loan, type : Kind],
         loan : Loan \cup {R!NoLoan}, type : Kind]
Note == [loan : Loan \cup {R!NoLoan}, type : Kind, day : Int, read : BOOLEAN]

RemindersType ==
  /\ today \in Int /\ note \in Seq(Note)
  /\ job \in [Call -> [run : Run, ran : Int]]

Doubtful(run) == R!Reminder(run, today) \in doubtful

\* A process that is about to insert what was sent today already, or what another one
\* is about to insert as well, has made its check in doubt.
RemindersInv ==
  /\ RemindersType
  /\ \A p \in Call : R!At9(p, "insert") /\ R!SentToday(job[p].run, today) => Doubtful(job[p].run)
  /\ \A p, q \in Call :
       /\ p # q /\ R!At9(p, "insert") /\ R!At9(q, "insert")
       /\ R!Reminder(job[p].run, today) = R!Reminder(job[q].run, today)
       => Doubtful(job[p].run)
  /\ R!ReminderOnceADay

LEMMA IdleRun == R!Idle \in Run /\ R!Idle.at = "idle"
  BY DEF R!Idle, Run, Kind

LEMMA RunsTo ==
  ASSUME RemindersType, NEW p \in Call, NEW next \in Run, R!Runs(p, next)
  PROVE  job' = [job EXCEPT ![p] = [run |-> next, ran |-> job[p].ran]] /\ job[p].ran \in Int
  <1>1. job[p] \in [run : Run, ran : Int]
    BY DEF RemindersType
  <1>2. [job[p] EXCEPT !.run = next] = [run |-> next, ran |-> job[p].ran]
    BY <1>1
  <1>3. job' = [job EXCEPT ![p] = [job[p] EXCEPT !.run = next]]
    BY DEF R!Runs, RemindersType
  <1> QED
    BY <1>1, <1>2, <1>3

LEMMA KindOf == \A l : R!TypeOf(l) \in Kind
  BY DEF R!TypeOf, Kind

LEMMA RemindersInit == R!Init => RemindersInv
  <1> SUFFICES ASSUME R!Init PROVE RemindersInv
    OBVIOUS
  <1>1. \A p \in Call : job[p].run = R!Idle /\ ~R!At9(p, "insert")
    BY IdleRun DEF R!Init, R!At9
  <1>2. RemindersType
    BY IdleRun DEF R!Init, RemindersType
  <1>3. R!ReminderOnceADay
    BY DEF R!Init, R!ReminderOnceADay
  <1> QED
    BY <1>1, <1>2, <1>3 DEF RemindersInv

\* A step that moves one process, and neither the day nor the notes: all that matters
\* is what it is about to insert.
LEMMA RunStep ==
  ASSUME RemindersInv, NEW p \in Call, NEW run \in Run, NEW ran \in Int,
         job' = [job EXCEPT ![p] = [run |-> run, ran |-> ran]],
         UNCHANGED <<today, note>>, doubtful \subseteq doubtful',
         run.at = "insert" =>
           \/ R!Reminder(run, today) \in doubtful'
           \/ ~R!SentToday(run, today) /\ R!AboutTo(p, run) = {}
  PROVE  RemindersInv'
  <1>1. job'[p].run = run /\ \A q \in Call \ {p} : job'[q] = job[q]
    BY DEF RemindersInv, RemindersType
  <1>2. RemindersType'
    BY DEF RemindersInv, RemindersType
  <1>3. R!ReminderOnceADay'
    BY DEF RemindersInv, R!ReminderOnceADay, R!Reminder
  <1>4. \A q \in Call \ {p} : (R!At9(q, "insert")' <=> R!At9(q, "insert")) /\ (Doubtful(job[q].run) => Doubtful(job[q].run)')
    BY <1>1 DEF R!At9, Doubtful, R!Reminder
  <1>5. ASSUME NEW q \in Call, R!At9(q, "insert")', R!SentToday(job[q].run, today)' PROVE Doubtful(job[q].run)'
    <2>1. CASE q = p
      BY <1>1, <1>5, <2>1 DEF R!At9, R!SentToday, Doubtful, R!Reminder
    <2>2. CASE q # p
      BY <1>1, <1>4, <1>5, <2>2 DEF RemindersInv, R!SentToday
    <2> QED
      BY <2>1, <2>2
  <1>6. ASSUME NEW q \in Call \ {p}, R!At9(p, "insert")', R!At9(q, "insert")',
               R!Reminder(run, today) = R!Reminder(job[q].run, today)
        PROVE  R!Reminder(run, today) \in doubtful'
    <2>1. run.at = "insert" /\ R!At9(q, "insert")
      BY <1>1, <1>4, <1>6 DEF R!At9
    <2>2. q \in R!AboutTo(p, run)
      BY <1>6, <2>1 DEF R!AboutTo
    <2> QED
      BY <2>1, <2>2
  <1>7. ASSUME NEW q \in Call, NEW r \in Call, q # r, R!At9(q, "insert")', R!At9(r, "insert")',
               (R!Reminder(job[q].run, today) = R!Reminder(job[r].run, today))'
        PROVE  Doubtful(job[q].run)'
    <2>1. CASE q = p \/ r = p
      BY <1>1, <1>6, <1>7, <2>1 DEF Doubtful, R!Reminder
    <2>2. CASE q # p /\ r # p
      BY <1>1, <1>4, <1>7, <2>2 DEF RemindersInv, R!Reminder
    <2> QED
      BY <2>1, <2>2
  <1> QED
    BY <1>2, <1>3, <1>5, <1>7 DEF RemindersInv

\* A step that marks notes as read.
LEMMA MarkStep ==
  ASSUME RemindersInv, note' \in Seq(Note), DOMAIN note' = DOMAIN note,
         \A n \in DOMAIN note : /\ note'[n].loan = note[n].loan /\ note'[n].type = note[n].type
                                /\ note'[n].day = note[n].day,
         UNCHANGED <<today, job, doubtful>>
  PROVE  RemindersInv'
  <1>1. \A run : R!SentToday(run, today)' => R!SentToday(run, today)
    BY DEF R!SentToday
  <1>2. R!ReminderOnceADay'
    BY DEF RemindersInv, R!ReminderOnceADay, R!Reminder
  <1>3. RemindersType'
    BY DEF RemindersInv, RemindersType
  <1>4. \A p \in Call : (R!At9(p, "insert")' <=> R!At9(p, "insert")) /\ (Doubtful(job[p].run)' <=> Doubtful(job[p].run))
    BY DEF R!At9, Doubtful, R!Reminder
  <1>5. \A p \in Call : R!SentToday(job[p].run, today)' => R!SentToday(job[p].run, today)
    BY DEF R!SentToday
  <1> QED
    BY <1>2, <1>3, <1>4, <1>5 DEF RemindersInv, R!Reminder

LEMMA AfterRun == \A run \in Run : R!After(run) \in Run /\ R!After(run).at # "insert"
  <1> TAKE run \in Run
  <1>1. CASE run.todo = {}
    BY <1>1, IdleRun DEF R!After
  <1>2. CASE run.todo # {}
    BY <1>2 DEF R!After, R!Idle, Run, Kind
  <1> QED
    BY <1>1, <1>2

\* The insert makes a reminder of the day a second one only if it was in doubt.
LEMMA InsertReminder ==
  ASSUME RemindersInv, NEW p \in Call, R!Insert(p)
  PROVE  RemindersInv'
  <1> DEFINE run == job[p].run
             made == [loan |-> run.loan, type |-> run.type, day |-> today, read |-> FALSE]
  <1>0. /\ RemindersType /\ run \in Run /\ job[p].ran \in Int
        /\ R!After(run) \in Run /\ R!After(run).at # "insert"
        /\ job' = [job EXCEPT ![p] = [run |-> R!After(run), ran |-> job[p].ran]]
        /\ R!At9(p, "insert") /\ UNCHANGED <<today, doubtful>>
    <2>1. RemindersType /\ run \in Run
      BY DEF RemindersInv, RemindersType
    <2>2. R!After(run) \in Run /\ R!After(run).at # "insert"
      BY <2>1, AfterRun
    <2> QED
      BY <2>1, <2>2, RunsTo DEF R!Insert
  <1>1. CASE UNCHANGED note
    BY <1>0, <1>1, RunStep
  <1>2. CASE note' = Append(note, made)
    <2>1. made \in Note
      BY <1>0 DEF RemindersType, Run, Note
    <2>2. /\ note' \in Seq(Note) /\ DOMAIN note' = DOMAIN note \cup {Len(note) + 1}
          /\ Len(note) + 1 \notin DOMAIN note
          /\ note'[Len(note) + 1] = made /\ \A n \in DOMAIN note : note'[n] = note[n]
      BY <1>0, <1>2, <2>1 DEF RemindersType
    <2>3. RemindersType'
      BY <1>0, <2>2 DEF RemindersType
    <2>4. /\ ~R!At9(p, "insert")'
          /\ \A q \in Call \ {p} : job'[q] = job[q]
      BY <1>0 DEF RemindersType, R!At9
    <2>5. ASSUME NEW q \in Call, R!At9(q, "insert")', R!SentToday(job[q].run, today)' PROVE Doubtful(job[q].run)'
      <3>1. q # p /\ R!At9(q, "insert") /\ job'[q] = job[q]
        BY <2>4, <2>5 DEF R!At9
      <3>2. CASE R!SentToday(job[q].run, today)
        BY <1>0, <3>1, <3>2 DEF RemindersInv, Doubtful
      <3>3. CASE ~R!SentToday(job[q].run, today)
        <4>1. made.loan = job[q].run.loan /\ made.type = job[q].run.type
          BY <1>0, <2>2, <2>5, <3>1, <3>3 DEF R!SentToday
        <4>2. R!Reminder(job[q].run, today) = R!Reminder(run, today)
          BY <4>1 DEF R!Reminder
        <4>3. Doubtful(job[q].run)
          BY <1>0, <3>1, <4>2 DEF RemindersInv
        <4> QED
          BY <1>0, <3>1, <4>3 DEF Doubtful
      <3> QED
        BY <3>2, <3>3
    <2>6. ASSUME NEW n \in DOMAIN note, R!Reminder(note[n], note[n].day) = R!Reminder(made, made.day)
          PROVE  R!Reminder(made, made.day) \in doubtful
      <3>1. R!Reminder(made, made.day) = R!Reminder(run, today)
        BY DEF R!Reminder
      <3>2. R!SentToday(run, today)
        BY <2>6, <3>1 DEF R!SentToday, R!Reminder
      <3> QED
        BY <1>0, <3>1, <3>2 DEF RemindersInv, Doubtful
    <2> HIDE DEF made
    <2>7. R!ReminderOnceADay'
      BY <1>0, <2>2, <2>6 DEF RemindersInv, R!ReminderOnceADay, R!Reminder
    <2>8. \A q, r \in Call :
            /\ q # r /\ R!At9(q, "insert")' /\ R!At9(r, "insert")'
            /\ (R!Reminder(job[q].run, today) = R!Reminder(job[r].run, today))'
            => Doubtful(job[q].run)'
      BY <1>0, <2>4 DEF RemindersInv, R!At9, R!Reminder, Doubtful
    <2> QED
      BY <2>3, <2>5, <2>7, <2>8 DEF RemindersInv
  <1> QED
    BY <1>1, <1>2 DEF R!Insert

\* A check that finds nothing puts the reminder in doubt, unless nothing was there and
\* nobody else is between check and insert.
LEMMA CheckReminder ==
  ASSUME RemindersInv, NEW p \in Call, R!Check(p)
  PROVE  RemindersInv'
  <1> DEFINE run == job[p].run
  <1>0. /\ RemindersType /\ run \in Run /\ job[p].ran \in Int /\ R!At9(p, "check")
        /\ UNCHANGED <<today, due, note>>
    BY DEF R!Check, RemindersInv, RemindersType
  <1>1. ASSUME NEW next \in Run, R!Runs(p, next)
        PROVE  job' = [job EXCEPT ![p] = [run |-> next, ran |-> job[p].ran]]
    BY <1>0, <1>1, RunsTo
  <1>2. CASE R!SentToday(run, today) /\ R!Runs(p, R!After(run)) /\ UNCHANGED doubtful
    <2>1. R!After(run) \in Run /\ R!After(run).at # "insert"
      BY <1>0, AfterRun
    <2> QED
      BY <1>0, <1>1, <1>2, <2>1, RunStep
  <1>3. CASE /\ R!Runs(p, [run EXCEPT !.at = "insert"])
             /\ \/ R!Reminder(run, today) \in doubtful'
                \/ ~R!SentToday(run, today) /\ R!AboutTo(p, run) = {}
             /\ doubtful \subseteq doubtful'
    <2> DEFINE next == [run EXCEPT !.at = "insert"]
    <2>1. next \in Run /\ next.loan = run.loan /\ next.type = run.type
      BY <1>0 DEF Run
    <2>2. job' = [job EXCEPT ![p] = [run |-> next, ran |-> job[p].ran]]
      BY <1>1, <1>3, <2>1
    <2>3. \/ R!Reminder(next, today) \in doubtful'
          \/ ~R!SentToday(next, today) /\ R!AboutTo(p, next) = {}
      BY <1>3, <2>1 DEF R!Reminder, R!SentToday, R!AboutTo
    <2> HIDE DEF next
    <2> QED
      BY <1>0, <1>3, <2>1, <2>2, <2>3, RunStep
  <1> QED
    BY <1>2, <1>3 DEF R!Check

LEMMA RemindersStep == RemindersInv /\ [R!Next]_(R!vars) => RemindersInv'
  <1> SUFFICES ASSUME RemindersInv, [R!Next]_(R!vars) PROVE RemindersInv'
    OBVIOUS
  <1>0. RemindersType
    BY DEF RemindersInv
  <1>1. ASSUME NEW p \in Call, R!Tick(p) PROVE RemindersInv'
    <2>1. R!Candidates \in SUBSET [loan : Loan, type : Kind]
      BY KindOf DEF R!Candidates
    <2>2. PICK todo \in {R!Candidates, {}} :
            job' = [job EXCEPT ![p] = [ran |-> today,
                      run |-> IF todo = {} THEN R!Idle ELSE [R!Idle EXCEPT !.at = "next", !.todo = todo]]]
      BY <1>1 DEF R!Tick
    <2> DEFINE run == IF todo = {} THEN R!Idle ELSE [R!Idle EXCEPT !.at = "next", !.todo = todo]
    <2>3. run \in Run /\ run.at # "insert"
      BY <2>1, IdleRun DEF Run
    <2>4. job' = [job EXCEPT ![p] = [run |-> run, ran |-> today]] /\ today \in Int
          /\ UNCHANGED <<today, note, doubtful>>
      BY <1>0, <1>1, <2>2 DEF R!Tick, RemindersType
    <2> HIDE DEF run
    <2> QED
      BY <2>3, <2>4, RunStep
  <1>2. ASSUME NEW p \in Call, R!NextCandidate(p) PROVE RemindersInv'
    <2> DEFINE run == job[p].run
    <2>1. run \in Run
      BY <1>0 DEF RemindersType
    <2>2. PICK c \in run.todo : R!Runs(p, [at |-> "check", todo |-> run.todo \ {c}, loan |-> c.loan, type |-> c.type])
      BY <1>2 DEF R!NextCandidate
    <2> DEFINE next == [at |-> "check", todo |-> run.todo \ {c}, loan |-> c.loan, type |-> c.type]
    <2>3. next \in Run /\ next.at # "insert"
      BY <2>1 DEF Run
    <2> HIDE DEF next
    <2>4. job' = [job EXCEPT ![p] = [run |-> next, ran |-> job[p].ran]] /\ job[p].ran \in Int
      BY <1>0, <2>2, <2>3, RunsTo DEF next
    <2> QED
      BY <1>2, <2>3, <2>4, RunStep DEF R!NextCandidate
  <1>3. ASSUME NEW p \in Call, R!Stops(p) PROVE RemindersInv'
    <2>1. job' = [job EXCEPT ![p] = [run |-> R!Idle, ran |-> job[p].ran]] /\ job[p].ran \in Int
      BY <1>0, <1>3, IdleRun, RunsTo DEF R!Stops
    <2> QED
      BY <1>3, <2>1, IdleRun, RunStep DEF R!Stops
  <1>4. ASSUME NEW n \in DOMAIN note, R!MarkAsRead(n) PROVE RemindersInv'
    <2>0. note[n] \in Note /\ [note[n] EXCEPT !.read = TRUE] \in Note
      <3>1. note[n] \in Note
        BY <1>0 DEF RemindersType
      <3> QED
        BY <3>1 DEF Note
    <2>1. note' \in Seq(Note) /\ DOMAIN note' = DOMAIN note
      <3>1. note' = [note EXCEPT ![n] = [note[n] EXCEPT !.read = TRUE]]
        BY <1>4 DEF R!MarkAsRead
      <3> QED
        BY <1>0, <2>0, <3>1 DEF RemindersType
    <2>2. \A m \in DOMAIN note : note'[m] = note[m] \/ note'[m] = [note[m] EXCEPT !.read = TRUE]
      BY <1>0, <1>4 DEF R!MarkAsRead, RemindersType
    <2>3. \A m \in DOMAIN note : note[m] \in Note
      BY <1>0 DEF RemindersType
    <2>4. \A m \in DOMAIN note : note'[m].loan = note[m].loan /\ note'[m].type = note[m].type /\ note'[m].day = note[m].day
      BY <2>2, <2>3 DEF Note
    <2> QED
      BY <1>4, <2>1, <2>4, MarkStep DEF R!MarkAsRead
  <1>5. CASE R!MarkAllAsRead
    <2>1. note' = [n \in DOMAIN note |-> [note[n] EXCEPT !.read = TRUE]] /\ UNCHANGED <<today, job, doubtful>>
      BY <1>5 DEF R!MarkAllAsRead
    <2>2. ASSUME NEW m \in DOMAIN note PROVE note[m] \in Note /\ [note[m] EXCEPT !.read = TRUE] \in Note
      <3>1. note[m] \in Note
        BY <1>0 DEF RemindersType
      <3> QED
        BY <3>1 DEF Note
    <2>3. note' \in Seq(Note) /\ DOMAIN note' = DOMAIN note
      BY <1>0, <2>1, <2>2 DEF RemindersType
    <2>4. \A m \in DOMAIN note : note'[m].loan = note[m].loan /\ note'[m].type = note[m].type /\ note'[m].day = note[m].day
      BY <2>1, <2>2 DEF Note
    <2> QED
      BY <2>1, <2>3, <2>4, MarkStep
  <1>6. CASE R!DayPasses
    <2>1. RemindersType' /\ UNCHANGED <<note, job, doubtful>> /\ \A p \in Call : ~R!At9(p, "insert")
      BY <1>0, <1>6 DEF R!DayPasses, RemindersType, R!At9
    <2> QED
      BY <2>1 DEF RemindersInv, R!At9, R!ReminderOnceADay, R!Reminder
  <1>7. CASE UNCHANGED <<today, note, job, doubtful>>
    BY <1>7 DEF RemindersInv, RemindersType, R!At9, R!SentToday, Doubtful, R!ReminderOnceADay, R!Reminder
  <1>8. ASSUME NEW l \in Loan, R!LoanChanges(l) PROVE RemindersInv'
    BY <1>7, <1>8 DEF R!LoanChanges
  <1>9. CASE UNCHANGED R!vars
    BY <1>7, <1>9 DEF R!vars
  <1> QED
    BY <1>1, <1>2, <1>3, <1>4, <1>5, <1>6, <1>8, <1>9, CheckReminder, InsertReminder DEF R!Next

\* However many processes run the job: a second reminder of the day is one whose check
\* failed, or that two processes were making at once.
THEOREM OnceADay == Spec => []ReminderOnceADay
  <1>1. RemindersInv => ReminderOnceADay
    BY DEF RemindersInv, ReminderOnceADay
  <1>2. R!Spec => []RemindersInv
    BY RemindersInit, RemindersStep, PTL DEF R!Spec
  <1> QED
    BY <1>1, <1>2, ServicesAlone, PTL

-----------------------------------------------------------------------------
\* Vouching

VouchStatus == {"none", "pending", "approved", "revoked"}
VouchRow    == [pair : Pair \cup {V!NoPair}, status : VouchStatus]
VouchTurn   == [at : {"done", "find", "write"}, op : {"request", "approve", "revoke"},
                pair : Pair \cup {V!NoPair}, id : Vouch \cup {V!NoPair}]

VouchType ==
  /\ vouch \in [Vouch -> VouchRow]
  /\ turn \in [Call -> VouchTurn]
  /\ overtaken \subseteq Vouch
  /\ crossed \subseteq Pair
  /\ \A a \in Call : /\ V!Takes(a, "approve", "write") => turn[a].id \in Vouch
                     /\ turn[a].op = "revoke" => turn[a].id \in Vouch

LEMMA VouchRecords ==
  /\ V!NoVouch \in VouchRow /\ V!NoVouch.status = "none"
  /\ V!NoTurn \in VouchTurn /\ V!NoTurn.at = "done" /\ V!NoTurn.op = "request"
  BY DEF V!NoVouch, VouchRow, VouchStatus, V!NoTurn, VouchTurn

\* A row is made once, an approval goes by a row that was pending, and if the row has
\* been revoked since, the history says so.
VouchRows ==
  /\ \A v \in Vouch : vouch[v].status = "none" => vouch[v] = V!NoVouch
  /\ \A v \in overtaken : vouch[v].status # "none"
  /\ \A a \in Call : V!Takes(a, "approve", "write") =>
       /\ vouch[turn[a].id].status # "none"
       /\ vouch[turn[a].id].status = "revoked" => turn[a].id \in overtaken

Overtaken(p) == \E v \in overtaken : vouch[v].pair = p

\* A pair whose requests never overlapped has one under way at most; it has made sure
\* that there is no active vouch before it writes; and there is one active vouch.
PairOK(p) ==
  /\ \A a, b \in Call : a \in V!Requesting(p) /\ b \in V!Requesting(p) => a = b
  /\ ~Overtaken(p) =>
       /\ \A v, w \in Vouch : v \in V!Of(p, V!ACTIVE_STATUSES) /\ w \in V!Of(p, V!ACTIVE_STATUSES) => v = w
       /\ \A a \in V!Requesting(p) : turn[a].at = "write" => V!Of(p, V!ACTIVE_STATUSES) = {}

VouchInv == VouchType /\ VouchRows /\ \A p \in Pair \ crossed : PairOK(p)

LEMMA VouchInit == V!Init => VouchInv
  <1> SUFFICES ASSUME V!Init PROVE VouchInv
    OBVIOUS
  <1> USE VouchRecords
  <1>1. VouchType /\ VouchRows
    BY DEF V!Init, VouchType, VouchRows, V!Takes, V!NoTurn
  <1>2. \A p \in Pair : V!Requesting(p) = {} /\ V!Of(p, V!ACTIVE_STATUSES) = {}
    BY DEF V!Init, V!Requesting, V!Of, V!ACTIVE_STATUSES
  <1> QED
    BY <1>1, <1>2 DEF VouchInv, PairOK

\* A step that changes the turn of one actor, and no row.
LEMMA TurnStep ==
  ASSUME VouchInv, NEW a \in Call, NEW t \in VouchTurn, turn' = [turn EXCEPT ![a] = t],
         UNCHANGED <<vouch, overtaken>>, crossed \subseteq crossed', crossed' \subseteq Pair,
         t.op = "revoke" => t.id \in Vouch,
         t.op = "approve" /\ t.at = "write" => t.id \in Vouch /\ vouch[t.id].status = "pending",
         t.op = "request" /\ t.at # "done" /\ a \notin V!Requesting(t.pair) /\ V!Requesting(t.pair) # {} =>
           t.pair \in crossed',
         t.op = "request" /\ t.at = "write" => V!Of(t.pair, V!ACTIVE_STATUSES) = {}
  PROVE  VouchInv'
  <1>0. VouchType /\ VouchRows /\ turn'[a] = t /\ \A b \in Call \ {a} : turn'[b] = turn[b]
    BY DEF VouchInv, VouchType
  <1>1. VouchType'
    BY <1>0 DEF VouchType, V!Takes
  <1>2. VouchRows'
    BY <1>0 DEF VouchRows, V!Takes
  <1>3. ASSUME NEW p \in Pair \ crossed' PROVE PairOK(p)'
    <2>1. PairOK(p)
      BY <1>3 DEF VouchInv
    <2>2. V!Of(p, V!ACTIVE_STATUSES)' = V!Of(p, V!ACTIVE_STATUSES) /\ Overtaken(p)' = Overtaken(p)
      BY DEF V!Of, Overtaken, V!ACTIVE_STATUSES
    <2>3. \A b \in Call \ {a} : b \in V!Requesting(p)' <=> b \in V!Requesting(p)
      BY <1>0 DEF V!Requesting
    <2>4. a \in V!Requesting(p)' => t.op = "request" /\ t.at # "done" /\ t.pair = p
      BY <1>0 DEF V!Requesting
    <2>5. \A b, c \in Call : b \in V!Requesting(p)' /\ c \in V!Requesting(p)' => b = c
      BY <1>3, <2>1, <2>3, <2>4 DEF PairOK
    <2>6. \A b \in V!Requesting(p)' : turn'[b].at = "write" /\ ~Overtaken(p) => V!Of(p, V!ACTIVE_STATUSES) = {}
      BY <1>0, <2>1, <2>3, <2>4 DEF PairOK, V!Requesting
    <2> QED
      BY <2>1, <2>2, <2>5, <2>6 DEF PairOK
  <1> QED
    BY <1>1, <1>2, <1>3 DEF VouchInv

\* What the end of a call leaves of the others.
LEMMA OthersGoOn ==
  ASSUME VouchType, NEW a \in Call, V!Ends(a)
  PROVE  /\ turn' \in [Call -> VouchTurn]
         /\ \A b \in Call : turn'[b].at # "done" => b # a /\ turn'[b] = turn[b]
         /\ turn'[a].op = "request" /\ turn'[a].at = "done" /\ \A b \in Call \ {a} : turn'[b] = turn[b]
         /\ \A p \in Pair : V!Requesting(p)' = V!Requesting(p) \ {a}
  <1>1. turn'[a] = V!NoTurn /\ turn' \in [Call -> VouchTurn] /\ \A b \in Call \ {a} : turn'[b] = turn[b]
    BY VouchRecords DEF VouchType, V!Ends
  <1> QED
    BY <1>1, VouchRecords DEF V!Requesting

\* The row that is inserted is the first active one of its pair.
LEMMA InsertStep ==
  ASSUME VouchInv, NEW a \in Call, V!InsertVouch(a), NEW v \in Vouch, vouch[v] = V!NoVouch,
         vouch' = [vouch EXCEPT ![v] = [pair |-> turn[a].pair, status |-> "pending"]]
  PROVE  VouchInv'
  <1> DEFINE r == [pair |-> turn[a].pair, status |-> "pending"]
  <1>0. /\ VouchType /\ VouchRows /\ V!Ends(a) /\ UNCHANGED <<overtaken, crossed>> /\ V!Takes(a, "request", "write")
        /\ r \in VouchRow /\ r.status = "pending"
    BY DEF VouchInv, V!InsertVouch, VouchType, VouchTurn, VouchRow, VouchStatus
  <1>1. /\ vouch' \in [Vouch -> VouchRow] /\ vouch'[v] = r /\ \A w \in Vouch \ {v} : vouch'[w] = vouch[w]
        /\ v \notin overtaken
    BY <1>0, VouchRecords DEF VouchType, VouchRows
  <1> HIDE DEF r
  <1>2. VouchType'
    BY <1>0, <1>1, OthersGoOn DEF VouchType, V!Takes
  <1>3. VouchRows'
    BY <1>0, <1>1, OthersGoOn, VouchRecords DEF VouchType, VouchRows, V!Takes
  <1>4. ASSUME NEW p \in Pair \ crossed' PROVE PairOK(p)'
    <2>1. PairOK(p) /\ V!Requesting(p)' = V!Requesting(p) \ {a}
      BY <1>0, <1>4, OthersGoOn DEF VouchInv
    <2>2. Overtaken(p)' <=> Overtaken(p)
      BY <1>0, <1>1 DEF Overtaken, VouchType
    <2>3. CASE turn[a].pair # p
      <3>1. V!Of(p, V!ACTIVE_STATUSES)' \subseteq V!Of(p, V!ACTIVE_STATUSES)
        BY <1>1, <2>3 DEF V!Of, V!ACTIVE_STATUSES, r
      <3> QED
        BY <1>0, <2>1, <2>2, <3>1, OthersGoOn DEF PairOK, V!Requesting
    <2>4. CASE turn[a].pair = p
      <3>1. a \in V!Requesting(p) /\ V!Requesting(p)' = {}
        BY <1>0, <2>1, <2>4 DEF V!Requesting, V!Takes, PairOK
      <3>2. ~Overtaken(p) => V!Of(p, V!ACTIVE_STATUSES)' \subseteq {v}
        BY <1>0, <1>1, <2>1, <3>1 DEF PairOK, V!Takes, V!Of, V!ACTIVE_STATUSES
      <3> QED
        BY <2>2, <3>1, <3>2 DEF PairOK
    <2> QED
      BY <2>3, <2>4
  <1> QED
    BY <1>2, <1>3, <1>4 DEF VouchInv

\* An approval or a revocation changes the status of a row; if that makes the row
\* active, it has been overtaken.
LEMMA StatusStep ==
  ASSUME VouchInv, NEW a \in Call, V!Ends(a), NEW v \in Vouch, NEW x \in {"approved", "revoked"},
         vouch' = [vouch EXCEPT ![v].status = x],
         overtaken \subseteq overtaken', overtaken' \subseteq overtaken \cup {v}, UNCHANGED crossed,
         vouch[v].status # "none" \/ x = "revoked",
         x = "approved" => (vouch[v].status = "revoked" => v \in overtaken'),
         x = "revoked" => \A b \in Call : V!Takes(b, "approve", "write") /\ turn[b].id = v => v \in overtaken'
  PROVE  VouchInv'
  <1>0. VouchType /\ VouchRows
    BY DEF VouchInv
  <1>1. /\ vouch' \in [Vouch -> VouchRow] /\ vouch'[v].status = x /\ vouch'[v].pair = vouch[v].pair
        /\ \A w \in Vouch \ {v} : vouch'[w] = vouch[w]
    <2>1. vouch[v] \in VouchRow /\ [vouch[v] EXCEPT !.status = x] \in VouchRow
      BY <1>0 DEF VouchType, VouchRow, VouchStatus
    <2> QED
      BY <1>0, <2>1 DEF VouchType, VouchRow
  <1>2. VouchType'
    BY <1>0, <1>1, OthersGoOn DEF VouchType, V!Takes
  <1>3. VouchRows'
    BY <1>0, <1>1, OthersGoOn DEF VouchType, VouchRows, V!Takes
  <1>4. ASSUME NEW p \in Pair \ crossed' PROVE PairOK(p)'
    <2>1. PairOK(p) /\ V!Requesting(p)' = V!Requesting(p) \ {a}
      BY <1>0, <1>4, OthersGoOn DEF VouchInv
    <2>2. Overtaken(p) => Overtaken(p)'
      BY <1>0, <1>1 DEF Overtaken, VouchType
    <2>3. ~Overtaken(p)' => V!Of(p, V!ACTIVE_STATUSES)' \subseteq V!Of(p, V!ACTIVE_STATUSES)
      <3>1. ASSUME ~Overtaken(p)', NEW w \in V!Of(p, V!ACTIVE_STATUSES)'
            PROVE  w \in V!Of(p, V!ACTIVE_STATUSES)
        <4>1. CASE w # v
          BY <1>1, <3>1, <4>1 DEF V!Of, V!ACTIVE_STATUSES
        <4>2. CASE w = v
          <5>1. x = "approved" /\ vouch[v].pair = p /\ v \notin overtaken'
            BY <1>1, <3>1, <4>2 DEF V!Of, Overtaken, V!ACTIVE_STATUSES
          <5>2. vouch[v].status \in {"pending", "approved"}
            BY <1>0, <5>1 DEF VouchType, VouchRow, VouchStatus
          <5> QED
            BY <4>2, <5>1, <5>2 DEF V!Of, V!ACTIVE_STATUSES
        <4> QED
          BY <4>1, <4>2
      <3> QED
        BY <3>1
    <2> QED
      BY <1>0, <2>1, <2>2, <2>3, OthersGoOn DEF PairOK, V!Requesting
  <1> QED
    BY <1>2, <1>3, <1>4 DEF VouchInv

LEMMA VouchStep == VouchInv /\ [V!Next]_(V!vars) => VouchInv'
  <1> SUFFICES ASSUME VouchInv, [V!Next]_(V!vars) PROVE VouchInv'
    OBVIOUS
  <1>0. VouchType /\ VouchRows
    BY DEF VouchInv
  <1>a. ASSUME NEW a \in Call, V!Ends(a), UNCHANGED <<vouch, overtaken, crossed>> PROVE VouchInv'
    <2>1. crossed \subseteq Pair /\ turn' = [turn EXCEPT ![a] = V!NoTurn]
      BY <1>0, <1>a DEF VouchType, V!Ends
    <2> QED
      BY <1>a, <2>1, VouchRecords, TurnStep
  <1>1. ASSUME NEW a \in Call, V!Begins(a) PROVE VouchInv'
    <2>1. CASE \E p \in Pair, op \in {"request", "approve"} :
                 /\ turn' = [turn EXCEPT ![a] = [V!NoTurn EXCEPT !.at = "find", !.op = op, !.pair = p]]
                 /\ crossed' = IF op = "request" /\ V!Requesting(p) # {} THEN crossed \cup {p} ELSE crossed
      <3>1. PICK p \in Pair, op \in {"request", "approve"} :
              /\ turn' = [turn EXCEPT ![a] = [V!NoTurn EXCEPT !.at = "find", !.op = op, !.pair = p]]
              /\ crossed' = IF op = "request" /\ V!Requesting(p) # {} THEN crossed \cup {p} ELSE crossed
        BY <2>1
      <3> DEFINE t == [V!NoTurn EXCEPT !.at = "find", !.op = op, !.pair = p]
      <3>2. t \in VouchTurn /\ t.at = "find" /\ t.op = op /\ t.pair = p
        BY VouchRecords DEF VouchTurn
      <3>3. turn' = [turn EXCEPT ![a] = t]
        BY <3>1
      <3> HIDE DEF t
      <3>4. crossed \subseteq crossed' /\ crossed' \subseteq Pair /\ UNCHANGED <<vouch, overtaken>>
        BY <1>0, <1>1, <3>1 DEF VouchType, V!Begins
      <3> QED
        BY <3>1, <3>2, <3>3, <3>4, TurnStep
    <2>2. CASE \E p \in Pair, v \in Vouch :
                 /\ turn' = [turn EXCEPT ![a] = [at |-> "find", op |-> "revoke", pair |-> p, id |-> v]]
                 /\ UNCHANGED crossed
      <3>1. PICK p \in Pair, v \in Vouch :
              /\ turn' = [turn EXCEPT ![a] = [at |-> "find", op |-> "revoke", pair |-> p, id |-> v]]
              /\ UNCHANGED crossed
        BY <2>2
      <3> DEFINE t == [at |-> "find", op |-> "revoke", pair |-> p, id |-> v]
      <3>2. t \in VouchTurn /\ t.at = "find" /\ t.op = "revoke" /\ t.id \in Vouch
        BY DEF VouchTurn
      <3>3. turn' = [turn EXCEPT ![a] = t] /\ crossed \subseteq crossed' /\ crossed' \subseteq Pair
            /\ UNCHANGED <<vouch, overtaken>>
        BY <1>0, <1>1, <3>1 DEF VouchType, V!Begins
      <3> HIDE DEF t
      <3> QED
        BY <3>2, <3>3, TurnStep
    <2> QED
      BY <1>1, <2>1, <2>2 DEF V!Begins
  <1>2. ASSUME NEW a \in Call, V!FindActive(a) \/ V!FindPending(a) \/ V!FindVouch(a) PROVE VouchInv'
    <2>1. UNCHANGED <<vouch, overtaken, crossed>> /\ crossed \subseteq Pair
      BY <1>0, <1>2 DEF V!FindActive, V!FindPending, V!FindVouch, VouchType
    <2>2. turn[a] \in VouchTurn
      BY <1>0 DEF VouchType
    <2> DEFINE w == [turn[a] EXCEPT !.at = "write"]
    <2>3. w \in VouchTurn /\ w.at = "write" /\ w.op = turn[a].op /\ w.pair = turn[a].pair /\ w.id = turn[a].id
      BY <2>2 DEF VouchTurn
    <2>4. CASE V!FindActive(a) \/ V!FindVouch(a)
      <3>1. CASE V!Ends(a)
        BY <1>a, <2>1, <3>1
      <3>2. CASE ~V!Ends(a)
        <4>1. /\ turn' = [turn EXCEPT ![a] = w] /\ turn[a].op \in {"request", "revoke"} /\ turn[a].at = "find"
              /\ turn[a].op = "request" => V!Of(turn[a].pair, V!ACTIVE_STATUSES) = {}
          BY <2>4, <3>2 DEF V!FindActive, V!FindVouch, V!Takes
        <4>2. turn[a].op = "revoke" => turn[a].id \in Vouch
          BY <1>0 DEF VouchType
        <4>3. turn[a].op = "request" => a \in V!Requesting(turn[a].pair)
          BY <4>1 DEF V!Requesting
        <4> HIDE DEF w
        <4> QED
          BY <2>1, <2>3, <4>1, <4>2, <4>3, TurnStep
      <3> QED
        BY <3>1, <3>2
    <2>5. CASE V!FindPending(a)
      <3>1. CASE V!Ends(a)
        BY <1>a, <2>1, <3>1
      <3>2. CASE ~V!Ends(a)
        <4>1. PICK v \in V!PendingOf(turn[a].pair) :
                turn' = [turn EXCEPT ![a].at = "write", ![a].id = v] /\ turn[a].op = "approve"
          BY <2>5, <3>2 DEF V!FindPending, V!Takes
        <4> DEFINE t == [turn[a] EXCEPT !.at = "write", !.id = v]
        <4>2. v \in Vouch /\ vouch[v].status = "pending"
          BY DEF V!PendingOf, V!Of
        <4>3. t \in VouchTurn /\ t.at = "write" /\ t.op = "approve" /\ t.id = v
          BY <2>2, <4>1, <4>2 DEF VouchTurn
        <4>4. turn' = [turn EXCEPT ![a] = t]
          BY <1>0, <4>1 DEF VouchType
        <4> HIDE DEF t
        <4> QED
          BY <2>1, <4>2, <4>3, <4>4, TurnStep
      <3> QED
        BY <3>1, <3>2
    <2> QED
      BY <1>2, <2>4, <2>5
  <1>3. ASSUME NEW a \in Call, V!InsertVouch(a) PROVE VouchInv'
    <2>1. CASE UNCHANGED vouch
      BY <1>3, <1>a, <2>1 DEF V!InsertVouch
    <2>2. CASE ~UNCHANGED vouch
      BY <1>3, <2>2, InsertStep DEF V!InsertVouch
    <2> QED
      BY <2>1, <2>2
  <1>4. ASSUME NEW a \in Call, V!ApproveVouch(a) PROVE VouchInv'
    <2>1. CASE UNCHANGED vouch
      BY <1>4, <1>a, <2>1 DEF V!ApproveVouch
    <2>2. CASE ~UNCHANGED vouch
      <3>1. PICK v \in Vouch : /\ v = turn[a].id /\ vouch' = [vouch EXCEPT ![v].status = "approved"]
                               /\ vouch[v].status # "none" /\ (vouch[v].status = "revoked" => v \in overtaken)
        BY <1>0, <1>4, <2>2 DEF V!ApproveVouch, VouchType, VouchRows
      <3> QED
        BY <1>4, <3>1, StatusStep DEF V!ApproveVouch
    <2> QED
      BY <2>1, <2>2
  <1>5. ASSUME NEW a \in Call, V!RevokeVouch(a) PROVE VouchInv'
    <2>1. CASE UNCHANGED <<vouch, overtaken>>
      BY <1>5, <1>a, <2>1 DEF V!RevokeVouch
    <2>2. CASE ~UNCHANGED <<vouch, overtaken>>
      <3>1. PICK v \in Vouch :
              /\ v = turn[a].id /\ vouch' = [vouch EXCEPT ![v].status = "revoked"]
              /\ overtaken' = IF V!Approving(v) # {} THEN overtaken \cup {v} ELSE overtaken
        BY <1>0, <1>5, <2>2 DEF V!RevokeVouch, VouchType, V!Takes
      <3>2. \A b \in Call : V!Takes(b, "approve", "write") /\ turn[b].id = v => v \in overtaken'
        BY <3>1 DEF V!Approving
      <3> QED
        BY <1>5, <3>1, <3>2, StatusStep DEF V!RevokeVouch
    <2> QED
      BY <2>1, <2>2
  <1>6. CASE UNCHANGED V!vars
    BY <1>6 DEF V!vars, VouchInv, VouchType, VouchRows, PairOK, V!Takes, V!Requesting, V!Of, Overtaken, V!ACTIVE_STATUSES
  <1> QED
    BY <1>1, <1>2, <1>3, <1>4, <1>5, <1>6 DEF V!Next

\* The cardinality that Vouching instantiates is that of the theorems about finite sets.
LEMMA SameCardinality == \A S : V!Cardinality(S) = Cardinality(S)
  BY DEF V!Cardinality, Cardinality

\* Two rows of a pair are active only if requests for it overlapped, or one of its
\* vouches came back from a revocation.
THEOREM OneActive == Spec => []OneActiveVouch
  <1>1. VouchInv => OneActiveVouch
    <2> SUFFICES ASSUME VouchInv, NEW p \in Pair \ crossed, {v \in overtaken : vouch[v].pair = p} = {}
                 PROVE  Cardinality(V!Of(p, {"pending", "approved"})) <= 1
      BY SameCardinality DEF OneActiveVouch, V!OneActiveVouch
    <2> DEFINE active == V!Of(p, V!ACTIVE_STATUSES)
    <2>1. \A v, w \in Vouch : v \in active /\ w \in active => v = w
      BY DEF VouchInv, PairOK, Overtaken
    <2>2. active \subseteq Vouch
      BY DEF V!Of
    <2>3. active = {} \/ \E v \in active : active = {v}
      BY <2>1, <2>2
    <2> HIDE DEF active
    <2>4. Cardinality(active) <= 1
      <3>1. CASE active = {}
        BY <3>1, FS_EmptySet
      <3>2. ASSUME NEW v \in active, active = {v} PROVE Cardinality(active) <= 1
        <4>1. Cardinality({v}) = 1
          BY FS_Singleton
        <4> QED
          BY <3>2, <4>1
      <3> QED
        BY <2>3, <3>1, <3>2
    <2> QED
      BY <2>4 DEF active, V!ACTIVE_STATUSES
  <1>2. V!Spec => []VouchInv
    BY VouchInit, VouchStep, PTL DEF V!Spec
  <1> QED
    BY <1>1, <1>2, ServicesAlone, PTL

\* A revoked vouch changes its status only by an approval that had found it pending.
THEOREM RevokedStays == Spec => RevokedStaysRevoked
  <1>1. VouchInv /\ [V!Next]_(V!vars) =>
          [\A v \in Vouch \ overtaken : vouch[v].status = "revoked" => vouch'[v].status = "revoked"]_(V!vars)
    <2> SUFFICES ASSUME VouchInv, V!Next, NEW v \in Vouch \ overtaken, vouch[v].status = "revoked"
                 PROVE  vouch'[v].status = "revoked"
      BY DEF V!vars
    <2>0. VouchType /\ VouchRows
      BY DEF VouchInv
    <2>1. PICK a \in Call : \/ V!Begins(a) \/ V!FindActive(a) \/ V!InsertVouch(a) \/ V!FindPending(a)
                            \/ V!ApproveVouch(a) \/ V!FindVouch(a) \/ V!RevokeVouch(a)
      BY DEF V!Next
    <2>2. CASE V!Begins(a) \/ V!FindActive(a) \/ V!FindPending(a) \/ V!FindVouch(a)
      BY <2>2 DEF V!Begins, V!FindActive, V!FindPending, V!FindVouch
    <2>3. CASE V!InsertVouch(a)
      BY <2>0, <2>3, VouchRecords DEF V!InsertVouch, VouchType
    <2>4. CASE V!ApproveVouch(a)
      <3>1. turn[a].id # v
        BY <2>0, <2>4 DEF V!ApproveVouch, VouchRows
      <3> QED
        BY <2>0, <2>4, <3>1 DEF V!ApproveVouch, VouchType
    <2>5. CASE V!RevokeVouch(a)
      BY <2>0, <2>5 DEF V!RevokeVouch, VouchType, VouchRow
    <2> QED
      BY <2>1, <2>2, <2>3, <2>4, <2>5
  <1>2. V!Spec => []VouchInv
    BY VouchInit, VouchStep, PTL DEF V!Spec
  <1>3. V!Spec => V!RevokedStaysRevoked
    BY <1>1, <1>2, PTL DEF V!Spec, V!RevokedStaysRevoked
  <1> QED
    BY <1>3, ServicesAlone DEF RevokedStaysRevoked

-----------------------------------------------------------------------------
\* Quotes

LEMMA Division ==
  ASSUME NEW a \in Nat, NEW b \in Nat \ {0}
  PROVE  /\ a \div b \in Nat /\ b * (a \div b) <= a /\ a < b * (a \div b) + b
         /\ a % b = 0 <=> b * (a \div b) = a
  OBVIOUS

LEMMA TierOf == \A score \in Int : Q!Tier(score) \in Q!Tiers
  <1> TAKE score \in Int
  <1> DEFINE Reached(t) == /\ Q!Clamped(score) >= Q!MinScore[t]
                           /\ \A u \in Q!Tiers : Q!Clamped(score) >= Q!MinScore[u] => Q!MinScore[u] <= Q!MinScore[t]
  <1>1. Q!Clamped(score) \in 0 .. 100
    BY DEF Q!Clamped
  <1>2. \E t \in Q!Tiers : Reached(t)
    <2>1. CASE Q!Clamped(score) >= 90
      BY <1>1, <2>1 DEF Q!Tiers, Q!MinScore
    <2>2. CASE Q!Clamped(score) >= 75 /\ Q!Clamped(score) < 90
      BY <1>1, <2>2 DEF Q!Tiers, Q!MinScore
    <2>3. CASE Q!Clamped(score) >= 60 /\ Q!Clamped(score) < 75
      BY <1>1, <2>3 DEF Q!Tiers, Q!MinScore
    <2>4. CASE Q!Clamped(score) < 60
      BY <1>1, <2>4 DEF Q!Tiers, Q!MinScore
    <2> QED
      BY <1>1, <2>1, <2>2, <2>3, <2>4
  <1> QED
    BY <1>2 DEF Q!Tier

LEMMA OfTier ==
  \A score \in Int : Q!InterestRate(score) \in 4 .. 10 /\ Q!MaxCredit(score) \in Nat \ {0}
  BY TierOf DEF Q!InterestRate, Q!MaxCredit, Q!Tiers

\* The two parts of a purchase, rounded each, make up the whole.
LEMMA PartsOfPurchase ==
  ASSUME NEW amount \in Nat
  PROVE  /\ Q!LoanAmount(amount) \in Nat /\ Q!LoanAmount(amount) + Q!Guarantee(amount) = amount
         /\ amount >= 100 => Q!LoanAmount(amount) >= 80
  BY DEF Q!LoanAmount, Q!Guarantee, Q!Rounded

LEMMA Grows ==
  ASSUME NEW a \in Nat, NEW b \in Nat
  PROVE  a * (1200 + b) \in Nat /\ a * (1200 + b) >= 1200 * a
  <1>1. a * b \in Nat
    OBVIOUS
  <1>2. a * (1200 + b) = 1200 * a + a * b
    OBVIOUS
  <1> QED
    BY <1>1, <1>2

\* What is repaid is no less than what is lent.
LEMMA Interest ==
  ASSUME NEW score \in Int, NEW amount \in Nat, NEW term \in Nat
  PROVE  /\ Q!TotalRepayment(score, amount, term) \in Nat
         /\ Q!TotalRepayment(score, amount, term) >= Q!LoanAmount(amount)
  <1> DEFINE lent == Q!LoanAmount(amount)
             owed == lent * (1200 + Q!InterestRate(score) * term)
  <1>1. lent \in Nat
    BY PartsOfPurchase
  <1>2. Q!InterestRate(score) * term \in Nat
    BY OfTier
  <1>3. owed \in Nat /\ owed >= 1200 * lent
    BY <1>1, <1>2, Grows
  <1>4. Q!TotalRepayment(score, amount, term) = Q!Rounded(owed, 1200)
    BY DEF Q!TotalRepayment
  <1> HIDE DEF lent, owed
  <1>5. Q!Rounded(owed, 1200) \in Nat /\ Q!Rounded(owed, 1200) >= lent
    BY <1>1, <1>3 DEF Q!Rounded
  <1> QED
    BY <1>4, <1>5 DEF lent

\* A month's payment: what the floor leaves is less than a cent a month, or all of them
\* when the floor has lost one.
LEMMA MonthOf ==
  ASSUME NEW total \in Nat, NEW term \in 1 .. 12, NEW slack \in {0, 1}
  PROVE  LET month == Q!Monthly(total, term, slack) IN
         /\ month \in Nat
         /\ (term - 1) * month \in Nat
         /\ total - (term - 1) * month \in month .. month + term
         /\ total >= 2 * term => month >= 1
  <1> DEFINE q == total \div term
             whole == total % term = 0 /\ total >= term
             month == Q!Monthly(total, term, slack)
  <1>1. q \in Nat /\ term * q <= total /\ total < term * q + term /\ (whole => term * q = total)
    BY Division
  <1>2. month = IF whole THEN q - slack ELSE q
    BY DEF Q!Monthly
  <1>3. whole => total >= term
    OBVIOUS
  <1> HIDE DEF q, whole, month
  <1>4. term * (q - 1) = term * q - term /\ (term - 1) * q = term * q - q /\ (term - 1) * (q - 1) = term * q - q - term + 1
    BY <1>1
  <1>5. whole => q >= 1
    <2>1. q = 0 => term * q = 0
      BY <1>1
    <2> QED
      BY <1>1, <1>3, <2>1
  <1>6. total >= 2 * term => q >= 2
    <2>1. (q = 0 => term * q = 0) /\ (q = 1 => term * q = term)
      BY <1>1
    <2> QED
      BY <1>1, <2>1
  <1>7. term * q \in Int /\ (term - 1) * q \in Nat /\ (q >= 1 => (term - 1) * (q - 1) \in Nat)
    BY <1>1
  <1>8. CASE month = q
    BY <1>1, <1>4, <1>6, <1>7, <1>8 DEF month
  <1>9. CASE whole /\ slack = 1 /\ month = q - 1
    BY <1>1, <1>4, <1>5, <1>6, <1>7, <1>9 DEF month
  <1> QED
    BY <1>1, <1>2, <1>8, <1>9

\* Sums of a schedule in which every payment but the last is the same: the recursion of
\* Paid, followed up to twelve months.
Even(schedule, term, month, total) ==
  schedule = [i \in 1 .. term |-> IF i = term THEN total - (term - 1) * month ELSE month]

SumsUp(sum, schedule, term) ==
  sum = [n \in 0 .. term |-> IF n = 0 THEN 0 ELSE sum[n - 1] + schedule[n]]

LEMMA SumOf ==
  ASSUME NEW term \in 1 .. 12, NEW month \in Nat, NEW total \in Nat, NEW sum, NEW schedule,
         (term - 1) * month \in Nat, Even(schedule, term, month, total), SumsUp(sum, schedule, term)
  PROVE  sum[term] = total
  <1>a. sum[0] = 0 /\ \A n \in 1 .. term : sum[n] = sum[n - 1] + schedule[n]
    BY DEF SumsUp
  <1>b. (\A n \in 1 .. term - 1 : schedule[n] = month) /\ schedule[term] = total - (term - 1) * month
    BY DEF Even
  <1>0. \A n \in 1 .. term - 1 : sum[n] = sum[n - 1] + month
    BY <1>a, <1>b
  <1>1. 1 < term => sum[1] = 1 * month
    BY <1>0, <1>a
  <1>2. 2 < term => sum[2] = 2 * month
    BY <1>0, <1>1
  <1>3. 3 < term => sum[3] = 3 * month
    BY <1>0, <1>2
  <1>4. 4 < term => sum[4] = 4 * month
    BY <1>0, <1>3
  <1>5. 5 < term => sum[5] = 5 * month
    BY <1>0, <1>4
  <1>6. 6 < term => sum[6] = 6 * month
    BY <1>0, <1>5
  <1>7. 7 < term => sum[7] = 7 * month
    BY <1>0, <1>6
  <1>8. 8 < term => sum[8] = 8 * month
    BY <1>0, <1>7
  <1>9. 9 < term => sum[9] = 9 * month
    BY <1>0, <1>8
  <1>10. 10 < term => sum[10] = 10 * month
    BY <1>0, <1>9
  <1>11. 11 < term => sum[11] = 11 * month
    BY <1>0, <1>10
  <1>12. sum[term - 1] = (term - 1) * month
    BY <1>a, <1>1, <1>2, <1>3, <1>4, <1>5, <1>6, <1>7, <1>8, <1>9, <1>10, <1>11
  <1>13. sum[term] = sum[term - 1] + schedule[term]
    BY <1>a
  <1> QED
    BY <1>b, <1>12, <1>13

\* There is such a function.
LEMMA SumExists ==
  ASSUME NEW term \in 1 .. 12, NEW month \in Nat, NEW total \in Nat, NEW schedule,
         (term - 1) * month \in Nat, Even(schedule, term, month, total)
  PROVE  \E sum : SumsUp(sum, schedule, term)
  <1> DEFINE f == [n \in 0 .. term |-> IF n = term THEN total ELSE n * month]
  <1>0. (\A n \in 1 .. term - 1 : schedule[n] = month) /\ schedule[term] = total - (term - 1) * month
    BY DEF Even
  <1>1. \A n \in 1 .. term - 1 : f[n - 1] + schedule[n] = n * month
    <2> TAKE n \in 1 .. term - 1
    <2>1. f[n - 1] = (n - 1) * month /\ schedule[n] = month
      BY <1>0
    <2>2. (n - 1) * month + month = n * month
      OBVIOUS
    <2> QED
      BY <2>1, <2>2
  <1>2. f[term - 1] + schedule[term] = total
    <2>1. f[term - 1] = (term - 1) * month /\ schedule[term] = total - (term - 1) * month
      BY <1>0
    <2> QED
      BY <2>1
  <1>3. f[0] = 0
    <2>1. 0 * month = 0 /\ 0 # term
      OBVIOUS
    <2> QED
      BY <2>1
  <1>4. f[term] = total /\ \A n \in 1 .. term - 1 : f[n] = n * month
    OBVIOUS
  <1>5. f = [n \in 0 .. term |-> f[n]]
    OBVIOUS
  <1> HIDE DEF f
  <1>6. \A n \in 1 .. term : n = term \/ n \in 1 .. term - 1
    OBVIOUS
  <1>7. \A n \in 0 .. term : f[n] = IF n = 0 THEN 0 ELSE f[n - 1] + schedule[n]
    BY <1>1, <1>2, <1>3, <1>4, <1>6
  <1>8. SumsUp(f, schedule, term)
    BY <1>5, <1>7 DEF SumsUp
  <1> QED
    BY <1>8

LEMMA PaidIsTotal ==
  ASSUME NEW term \in 1 .. 12, NEW total \in Nat, NEW slack \in {0, 1}, NEW q,
         q.term = term, q.schedule = Q!Schedule(total, term, slack)
  PROVE  Q!Paid(q) = total
  <1> DEFINE month == Q!Monthly(total, term, slack)
             sum == CHOOSE f : SumsUp(f, q.schedule, term)
  <1>1. month \in Nat /\ (term - 1) * month \in Nat
    BY MonthOf
  <1>2. Even(q.schedule, term, month, total)
    BY DEF Q!Schedule, Even
  <1>3. Q!Paid(q) = sum[term]
    BY DEF Q!Paid, SumsUp
  <1> HIDE DEF month
  <1>4. \E f : SumsUp(f, q.schedule, term)
    BY <1>1, <1>2, SumExists
  <1>5. SumsUp(sum, q.schedule, term)
    BY <1>4
  <1> HIDE DEF sum
  <1> QED
    BY <1>1, <1>2, <1>3, <1>5, SumOf

\* Every quote is one that was calculated for an application within its limits.
QuotesInv ==
  quote = Q!NoQuote \/
    \E score \in Standing, amount \in Cents, term \in Months, slack \in {0, 1} :
      amount <= Q!MaxCredit(score) /\ quote = Q!Quote(score, amount, term, slack)

LEMMA QuotesInvariant == Q!Spec => []QuotesInv
  <1>1. Q!Init => QuotesInv
    BY DEF Q!Init, QuotesInv
  <1>2. QuotesInv /\ [Q!Next]_quote => QuotesInv'
    <2>1. ASSUME NEW score \in Standing, NEW amount \in Cents, NEW term \in Months, NEW slack \in {0, 1},
                 Q!CalculateLoanQuote(score, amount, term, slack)
          PROVE  QuotesInv'
      BY <2>1 DEF Q!CalculateLoanQuote, QuotesInv
    <2>2. ASSUME QuotesInv, UNCHANGED quote PROVE QuotesInv'
      BY <2>2 DEF QuotesInv
    <2> QED
      BY <2>1, <2>2 DEF Q!Next
  <1> QED
    BY <1>1, <1>2, PTL DEF Q!Spec

\* The figures of a quote.
LEMMA QuoteFacts ==
  ASSUME QuotesInv, quote # Q!NoQuote
  PROVE  \E score \in Int, amount \in Nat, term \in 1 .. 12, slack \in {0, 1}, total \in Nat :
           /\ quote.score = score /\ quote.amount = amount /\ quote.term = term
           /\ amount <= Q!MaxCredit(score)
           /\ quote.loanAmount = Q!LoanAmount(amount) /\ quote.guarantee = Q!Guarantee(amount)
           /\ quote.totalRepayment = total /\ total >= Q!LoanAmount(amount) /\ total >= 80
           /\ quote.monthlyPayment = Q!Monthly(total, term, slack)
           /\ quote.schedule = Q!Schedule(total, term, slack)
  <1>1. PICK score \in Standing, amount \in Cents, term \in Months, slack \in {0, 1} :
          amount <= Q!MaxCredit(score) /\ quote = Q!Quote(score, amount, term, slack)
    BY DEF QuotesInv
  <1>2. score \in Int /\ amount \in Nat /\ amount >= 100 /\ term \in 1 .. 12
    BY QuotesAssumption
  <1> DEFINE total == Q!TotalRepayment(score, amount, term)
  <1>3. total \in Nat /\ total >= Q!LoanAmount(amount) /\ Q!LoanAmount(amount) \in Nat /\ Q!LoanAmount(amount) >= 80
    <2>1. term \in Nat
      BY <1>2
    <2>2. total \in Nat /\ total >= Q!LoanAmount(amount)
      BY <1>2, <2>1, Interest
    <2>3. Q!LoanAmount(amount) \in Nat /\ Q!LoanAmount(amount) >= 80
      BY <1>2, PartsOfPurchase
    <2> QED
      BY <2>2, <2>3
  <1>4. /\ quote.score = score /\ quote.amount = amount /\ quote.term = term
        /\ quote.loanAmount = Q!LoanAmount(amount) /\ quote.guarantee = Q!Guarantee(amount)
        /\ quote.totalRepayment = total
        /\ quote.monthlyPayment = Q!Monthly(total, term, slack)
        /\ quote.schedule = Q!Schedule(total, term, slack)
    BY <1>1 DEF Q!Quote
  <1> HIDE DEF total
  <1>5. total >= 80
    BY <1>3
  <1> QED
    BY <1>1, <1>2, <1>3, <1>4, <1>5

\* The entries of a schedule.
LEMMA Payments ==
  ASSUME NEW total \in Nat, NEW term \in 1 .. 12, NEW slack \in {0, 1}
  PROVE  LET schedule == Q!Schedule(total, term, slack)
             month    == Q!Monthly(total, term, slack) IN
         /\ month \in Nat
         /\ \A i \in 1 .. term : schedule[i] \in month .. month + term
         /\ schedule[1] = IF term = 1 THEN total ELSE month
         /\ total >= 2 * term => month >= 1
  <1> DEFINE month == Q!Monthly(total, term, slack)
             schedule == Q!Schedule(total, term, slack)
  <1>1. /\ month \in Nat /\ (term - 1) * month \in Nat
        /\ total - (term - 1) * month \in month .. month + term
        /\ total >= 2 * term => month >= 1
    BY MonthOf
  <1>2. schedule = [i \in 1 .. term |-> IF i = term THEN total - (term - 1) * month ELSE month]
    BY DEF Q!Schedule
  <1>3. term = 1 => (term - 1) * month = 0
    BY <1>1
  <1> HIDE DEF month, schedule
  <1>4. \A i \in 1 .. term : schedule[i] \in month .. month + term
    BY <1>1, <1>2
  <1>5. schedule[1] = IF term = 1 THEN total ELSE month
    BY <1>1, <1>2, <1>3
  <1> QED
    BY <1>1, <1>4, <1>5 DEF month, schedule

\* Whatever is asked for within the limits, and whichever cents the floor loses: the
\* payments add up to what is owed, none is negative, the last is not much more.
THEOREM Repays == Spec => []ScheduleRepaysLoan
  <1>1. QuotesInv => ScheduleRepaysLoan
    <2> SUFFICES ASSUME QuotesInv, quote # Q!NoQuote
                 PROVE  /\ Q!Paid(quote) = quote.totalRepayment
                        /\ \A i \in 1 .. quote.term :
                             /\ quote.schedule[i] >= 0
                             /\ quote.schedule[i] - quote.schedule[1] < 2 * quote.term
                        /\ quote.loanAmount + quote.guarantee = quote.amount
                        /\ quote.totalRepayment >= quote.loanAmount
      BY DEF ScheduleRepaysLoan, Q!ScheduleRepaysLoan
    <2>1. PICK score \in Int, amount \in Nat, term \in 1 .. 12, slack \in {0, 1}, total \in Nat :
            /\ quote.amount = amount /\ quote.term = term
            /\ quote.loanAmount = Q!LoanAmount(amount) /\ quote.guarantee = Q!Guarantee(amount)
            /\ quote.totalRepayment = total /\ total >= Q!LoanAmount(amount) /\ total >= 80
            /\ quote.schedule = Q!Schedule(total, term, slack)
      BY QuoteFacts
    <2>2. Q!Paid(quote) = total
      BY <2>1, PaidIsTotal
    <2>3. ASSUME NEW i \in 1 .. term
          PROVE  quote.schedule[i] >= 0 /\ quote.schedule[i] - quote.schedule[1] < 2 * term
      <3> DEFINE month == Q!Monthly(total, term, slack)
      <3> DEFINE schedule == Q!Schedule(total, term, slack)
      <3>0. month \in Nat /\ \A j \in 1 .. term : schedule[j] \in month .. month + term
        BY Payments
      <3> HIDE DEF schedule
      <3>1. /\ month \in Nat /\ quote.schedule[i] \in month .. month + term
            /\ quote.schedule[1] \in month .. month + term
        BY <2>1, <3>0 DEF schedule
      <3> HIDE DEF month
      <3> QED
        BY <2>1, <3>1
    <2>4. quote.loanAmount + quote.guarantee = quote.amount
      BY <2>1, PartsOfPurchase
    <2> QED
      BY <2>1, <2>2, <2>3, <2>4
  <1> QED
    BY <1>1, QuotesInvariant, ServicesAlone, PTL

\* And whatever is left of the loan, the list asks for a payment that can be made.
THEOREM Payable == Spec => []NextPaymentIsPayable
  <1>1. QuotesInv => NextPaymentIsPayable
    <2> SUFFICES ASSUME QuotesInv, quote # Q!NoQuote, NEW slack \in {0, 1},
                        NEW left \in {1, quote.monthlyPayment + 1, quote.totalRepayment},
                        left <= quote.totalRepayment
                 PROVE  Q!NextPayment(quote.totalRepayment, quote.term, left, slack) \in 1 .. left
      BY DEF NextPaymentIsPayable, Q!NextPaymentIsPayable
    <2>1. PICK term \in 1 .. 12, then \in {0, 1}, total \in Nat :
            /\ quote.term = term /\ quote.totalRepayment = total /\ total >= 80
            /\ quote.monthlyPayment = Q!Monthly(total, term, then)
      BY QuoteFacts
    <2>2. left \in Nat /\ left >= 1
      <3>1. Q!Monthly(total, term, then) \in Nat
        BY Payments
      <3> QED
        BY <2>1, <3>1
    <2> DEFINE first == Q!Schedule(total, term, slack)[1]
    <2>3. first \in Nat /\ first >= 1
      <3> DEFINE month == Q!Monthly(total, term, slack)
      <3>1. month \in Nat /\ (first = IF term = 1 THEN total ELSE month) /\ (total >= 2 * term => month >= 1)
        BY Payments
      <3> HIDE DEF month, first
      <3> QED
        BY <2>1, <3>1
    <2>4. Q!NextPayment(total, term, left, slack) = IF first < left THEN first ELSE left
      BY DEF Q!NextPayment
    <2> HIDE DEF first
    <2> QED
      BY <2>1, <2>2, <2>3, <2>4
  <1> QED
    BY <1>1, QuotesInvariant, ServicesAlone, PTL

\* For any score: what one screen admits the other does not reject, and conversely.
THEOREM Screens == Spec => []ScreensAgree
  <1>1. QuotesInv => ScreensAgree
    <2> SUFFICES ASSUME QuotesInv, quote # Q!NoQuote, NEW used \in Cents \cup {0}
                 PROVE  Q!PreviewAdmits(quote.score, quote.amount)
                          <=> Q!Assess(quote.score, quote.amount, used) # "rejected"
      BY DEF ScreensAgree, Q!ScreensAgree
    <2>1. PICK score \in Int, amount \in Nat : quote.score = score /\ quote.amount = amount
      BY QuoteFacts
    <2>2. Q!MaxCredit(score) \in Nat
      BY OfTier
    <2>3. CASE score < 60 \/ amount > Q!MaxCredit(score)
      <3>1. ~Q!PreviewAdmits(score, amount)
        BY <2>2, <2>3 DEF Q!PreviewAdmits, Q!MinLoanScore
      <3>2. ~(score >= 75 /\ 10 * amount <= 8 * Q!MaxCredit(score))
        BY <2>2, <2>3
      <3>3. Q!Assess(score, amount, used) = "rejected"
        BY <2>2, <2>3, <3>2 DEF Q!Assess, Q!MinLoanScore
      <3> QED
        BY <2>1, <3>1, <3>3
    <2>4. CASE score >= 60 /\ amount <= Q!MaxCredit(score)
      <3>1. Q!PreviewAdmits(score, amount)
        BY <2>4 DEF Q!PreviewAdmits, Q!MinLoanScore
      <3>2. ~(score < 60 \/ amount > Q!MaxCredit(score))
        BY <2>2, <2>4
      <3>3. Q!Assess(score, amount, used) \in {"approved", "manual_review"}
        BY <3>2 DEF Q!Assess, Q!MinLoanScore
      <3> QED
        BY <2>1, <3>1, <3>3
    <2> QED
      BY <2>2, <2>3, <2>4
  <1> QED
    BY <1>1, QuotesInvariant, ServicesAlone, PTL

-----------------------------------------------------------------------------
\* Accounts

UserRow  == [exists : BOOLEAN, registered : BOOLEAN, avatar : File \cup {A!None, A!Link}]
CallAt   == {"upload", "create", "upsert", "session", "dropFile", "dropUser", "read", "newUser", "newPrefs",
             "prefs", "reread", "done", "refused", "conflict", "duplicate"}
Calling  == [at : CallAt, op : A!Ops, file : File \cup {A!None}, made : BOOLEAN, holds : BOOLEAN]

\* A registration has to answer for the avatar it has stored until it has tried to
\* remove it, and for the row until it has removed that.
Owning(k)   == k.file # A!None /\ k.at \in {"create", "upsert", "session", "dropFile"}
Answers(k)  == k.made /\ k.holds
Register(k) ==
  /\ k.made => k.op = "register" /\ k.at \in {"upsert", "session", "dropFile", "dropUser"}
  /\ k.file # A!None => k.op = "register" /\ k.at \in {"create", "upsert", "session", "dropFile", "dropUser"}

AccountsType ==
  /\ user \in UserRow /\ call \in [Call -> Calling]
  /\ files \subseteq File /\ kept \subseteq File /\ settled \in BOOLEAN /\ mishap \in BOOLEAN
  /\ user.registered => user.exists
  /\ \A c \in Call : Register(call[c])

\* A row stands for a registration that has succeeded or answers for it; a file in the
\* storage is one of a registration that has succeeded, or of exactly one that owns it.
Accounted ==
  /\ user.registered => settled \/ \E c \in Call : Answers(call[c])
  /\ \A c \in Call : Owning(call[c]) => call[c].file \in files \ kept
  /\ \A c, d \in Call : c # d /\ Owning(call[c]) /\ Owning(call[d]) => call[c].file # call[d].file
  /\ \A f \in files : f \in kept \/ \E c \in Call : Owning(call[c]) /\ call[c].file = f
  /\ kept \subseteq files

AccountsInv == AccountsType /\ (mishap \/ Accounted)

LEMMA FileNames == A!None \notin File /\ A!Link \notin File
  BY AccountsAssumption

LEMMA AccountsTypes ==
  /\ A!NoCall \in Calling /\ A!NoCall.file = A!None /\ ~A!NoCall.made /\ ~A!NoCall.holds
  /\ A!NoUser \in UserRow /\ ~A!NoUser.registered /\ ~A!NoUser.exists
  /\ A!Plain \in UserRow /\ ~A!Plain.registered /\ A!Plain.exists
  BY DEF A!NoCall, A!NoUser, A!Plain, Calling, CallAt, A!Ops, UserRow

LEMMA NoCallIdle == Register(A!NoCall) /\ ~Owning(A!NoCall) /\ ~Answers(A!NoCall)
  BY AccountsTypes DEF Register, Owning, Answers

LEMMA AccountsInit == A!Init => AccountsInv
  <1> SUFFICES ASSUME A!Init PROVE AccountsInv
    OBVIOUS
  <1>1. AccountsType
    BY AccountsTypes, NoCallIdle DEF A!Init, AccountsType
  <1>2. \A c \in Call : ~Owning(call[c])
    BY NoCallIdle DEF A!Init
  <1>3. Accounted
    BY <1>2, AccountsTypes DEF A!Init, Accounted
  <1> QED
    BY <1>1, <1>3 DEF AccountsInv

\* The record a call goes on with: the same one further on, or one that has ended.
LEMMA GoesTo ==
  ASSUME AccountsType, NEW c \in Call, NEW pc \in CallAt, A!Goto(c, pc)
  PROVE  \E k \in Calling :
           /\ call' = [call EXCEPT ![c] = k] /\ k.at = pc
           /\ IF pc \in A!Ends THEN k.file = A!None /\ ~k.made /\ ~k.holds
              ELSE k.op = call[c].op /\ k.file = call[c].file /\ k.made = call[c].made /\ k.holds = call[c].holds
  <1>1. call[c] \in Calling
    BY DEF AccountsType
  <1>2. CASE pc \in A!Ends
    <2> DEFINE k == [A!NoCall EXCEPT !.at = pc]
    <2>1. k \in Calling /\ k.at = pc /\ k.file = A!None /\ ~k.made /\ ~k.holds
      BY AccountsTypes DEF Calling
    <2>2. call' = [call EXCEPT ![c] = k]
      BY <1>2 DEF A!Goto, A!Ended
    <2> HIDE DEF k
    <2> QED
      BY <1>2, <2>1, <2>2
  <1>3. CASE pc \notin A!Ends
    <2> DEFINE k == [call[c] EXCEPT !.at = pc]
    <2>1. /\ k \in Calling /\ k.at = pc /\ k.op = call[c].op /\ k.file = call[c].file
          /\ k.made = call[c].made /\ k.holds = call[c].holds
      BY <1>1 DEF Calling
    <2>2. call' = [call EXCEPT ![c] = k]
      BY <1>3 DEF A!Goto, AccountsType
    <2> HIDE DEF k
    <2> QED
      BY <1>3, <2>1, <2>2
  <1> QED
    BY <1>2, <1>3

\* A step of a call that touches neither the storage nor the history of successes: it
\* keeps the avatar it owns, and what it answers for stays answered for.
LEMMA CallStep ==
  ASSUME AccountsInv, NEW c \in Call, NEW k \in Calling, call' = [call EXCEPT ![c] = k],
         Register(k), user' \in UserRow, user'.registered => user'.exists,
         UNCHANGED <<files, kept, settled>>, mishap' \in BOOLEAN, mishap => mishap',
         ~mishap' => /\ Owning(k) <=> Owning(call[c])
                     /\ Owning(k) => k.file = call[c].file
                     /\ user'.registered => user.registered \/ Answers(k)
                     /\ user'.registered /\ Answers(call[c]) => Answers(k)
  PROVE  AccountsInv'
  <1>1. AccountsType /\ call'[c] = k /\ \A d \in Call \ {c} : call'[d] = call[d]
    BY DEF AccountsInv, AccountsType
  <1>2. AccountsType'
    BY <1>1 DEF AccountsType
  <1>3. ASSUME ~mishap' PROVE Accounted'
    <2>0. Accounted
      BY <1>3 DEF AccountsInv
    <2>1. \A d \in Call : /\ Owning(call'[d]) <=> Owning(call[d])
                          /\ Owning(call'[d]) => call'[d].file = call[d].file
      BY <1>1, <1>3
    <2>2. user'.registered => settled' \/ \E d \in Call : Answers(call'[d])
      <3>1. ASSUME user'.registered, ~settled', ~Answers(k) PROVE \E d \in Call : Answers(call'[d])
        <4>1. PICK d \in Call : Answers(call[d])
          BY <1>3, <2>0, <3>1 DEF Accounted
        <4>2. d # c
          BY <1>3, <3>1, <4>1
        <4> QED
          BY <1>1, <4>1, <4>2
      <3> QED
        BY <1>1, <3>1
    <2> QED
      BY <2>0, <2>1, <2>2 DEF Accounted
  <1> QED
    BY <1>2, <1>3 DEF AccountsInv

LEMMA Beginning ==
  ASSUME AccountsInv, NEW c \in Call, A!Start(c)
  PROVE  AccountsInv'
  <1>1. PICK op \in A!Ops, pc \in {"upload", "read", "upsert"} :
          call' = [call EXCEPT ![c] = [A!NoCall EXCEPT !.at = pc, !.op = op]]
    BY DEF A!Start
  <1> DEFINE k == [A!NoCall EXCEPT !.at = pc, !.op = op]
  <1>2. k \in Calling /\ k.at = pc /\ k.file = A!None /\ ~k.made
    BY AccountsTypes DEF Calling, CallAt
  <1>3. call' = [call EXCEPT ![c] = k]
    BY <1>1
  <1> HIDE DEF k
  <1>4. Register(call[c]) /\ call[c].at \in A!Ends /\ UNCHANGED <<user, files, kept, settled, mishap>>
    BY DEF A!Start, A!Free, A!store, A!hist, AccountsInv, AccountsType
  <1>5. ~call[c].made /\ call[c].file = A!None
    BY <1>4 DEF Register, A!Ends
  <1>6. user \in UserRow /\ mishap \in BOOLEAN /\ (user.registered => user.exists)
    BY DEF AccountsInv, AccountsType
  <1>7. Register(k) /\ ~Owning(k) /\ ~Owning(call[c]) /\ ~Answers(call[c])
    BY <1>2, <1>5 DEF Register, Owning, Answers
  <1> QED
    BY <1>2, <1>3, <1>4, <1>6, <1>7, CallStep

\* A call that is not a registration owns nothing and answers for nothing.
LEMMA OtherStep ==
  ASSUME AccountsInv, NEW c \in Call, call[c].op # "register" \/ (~call[c].made /\ call[c].file = A!None),
         NEW k \in Calling, call' = [call EXCEPT ![c] = k],
         ~k.made, k.file = A!None, user' \in UserRow, user'.registered => user.registered /\ user'.exists,
         UNCHANGED <<files, kept, settled, mishap>>
  PROVE  AccountsInv'
  <1>1. ~call[c].made /\ call[c].file = A!None
    BY DEF AccountsInv, AccountsType, Register
  <1>2. Register(k) /\ ~Owning(k) /\ ~Owning(call[c]) /\ ~Answers(call[c])
    BY <1>1 DEF Register, Owning, Answers
  <1>3. mishap' \in BOOLEAN
    BY DEF AccountsInv, AccountsType
  <1> QED
    BY <1>2, <1>3, CallStep

LEMMA OtherGoes ==
  ASSUME AccountsInv, NEW c \in Call, call[c].op # "register" \/ (~call[c].made /\ call[c].file = A!None),
         NEW pc \in CallAt, A!Goto(c, pc),
         user' \in UserRow, user'.registered => user.registered /\ user'.exists,
         UNCHANGED <<files, kept, settled, mishap>>
  PROVE  AccountsInv'
  <1>0. AccountsType
    BY DEF AccountsInv
  <1>1. ~call[c].made /\ call[c].file = A!None
    BY <1>0 DEF AccountsType, Register
  <1>2. PICK k \in Calling : call' = [call EXCEPT ![c] = k] /\ ~k.made /\ k.file = A!None
    BY <1>0, <1>1, GoesTo
  <1> QED
    BY <1>2, OtherStep

\* A registration that fails keeps what it has to take back.
LEMMA FailStep ==
  ASSUME AccountsInv, NEW c \in Call, call[c].at \in {"create", "upsert", "session"},
         NEW end \in {"refused", "conflict"}, call[c].op = "register",
         A!Goto(c, A!Cleanup(c, call[c].made, end)),
         user' \in UserRow, user'.registered => user'.exists,
         user'.registered => user.registered \/ mishap',
         UNCHANGED <<files, kept, settled>>, mishap' \in BOOLEAN, mishap => mishap'
  PROVE  AccountsInv'
  <1> DEFINE pc == A!Cleanup(c, call[c].made, end)
  <1>0. AccountsType /\ Register(call[c]) /\ call[c] \in Calling
    BY DEF AccountsInv, AccountsType
  <1>1. /\ pc \in {"dropFile", "dropUser", end}
        /\ pc = "dropFile" <=> call[c].file # A!None
        /\ pc = end => ~call[c].made
        /\ pc = "dropUser" => call[c].made
    BY DEF A!Cleanup
  <1> HIDE DEF pc
  <1>2. pc \in CallAt /\ (pc \in A!Ends <=> pc = end)
    BY <1>1 DEF CallAt, A!Ends
  <1>3. PICK k \in Calling :
          /\ call' = [call EXCEPT ![c] = k] /\ k.at = pc
          /\ IF pc \in A!Ends THEN k.file = A!None /\ ~k.made /\ ~k.holds
             ELSE k.op = call[c].op /\ k.file = call[c].file /\ k.made = call[c].made /\ k.holds = call[c].holds
    BY <1>0, <1>2, GoesTo DEF pc
  <1>4. CASE pc = end
    <2>1. k.file = A!None /\ ~k.made /\ call[c].file = A!None /\ ~call[c].made
      BY <1>1, <1>2, <1>3, <1>4
    <2>2. Register(k) /\ ~Owning(k) /\ ~Owning(call[c]) /\ ~Answers(call[c])
      BY <2>1 DEF Register, Owning, Answers
    <2> QED
      BY <1>3, <2>2, CallStep
  <1>5. CASE pc # end
    <2>1. k.op = "register" /\ k.at = pc /\ k.file = call[c].file /\ k.made = call[c].made /\ k.holds = call[c].holds
      BY <1>2, <1>3, <1>5
    <2>2. Register(k)
      BY <1>1, <1>5, <2>1 DEF Register
    <2>3. Owning(k) <=> Owning(call[c])
      BY <1>1, <1>5, <2>1 DEF Owning
    <2>4. Answers(call[c]) => Answers(k)
      BY <2>1 DEF Answers
    <2> QED
      BY <1>3, <2>1, <2>2, <2>3, <2>4, CallStep
  <1> QED
    BY <1>4, <1>5

\* Every failure of generateTokens, in a registration or in a login.
LEMMA TokensFail ==
  ASSUME AccountsInv, NEW c \in Call, call[c].at \in {"upsert", "session"}, A!Fails(c),
         user' \in UserRow, user'.registered => user.registered /\ user'.exists,
         UNCHANGED <<files, kept, settled, mishap>>
  PROVE  AccountsInv'
  <1>1. mishap' \in BOOLEAN /\ (mishap => mishap')
    BY DEF AccountsInv, AccountsType
  <1>2. CASE call[c].op = "register"
    BY <1>1, <1>2, FailStep DEF A!Fails
  <1>3. CASE call[c].op # "register"
    <2>1. A!Goto(c, "refused") /\ "refused" \in CallAt
      BY <1>3 DEF A!Fails, CallAt
    <2> QED
      BY <1>3, <2>1, OtherGoes
  <1> QED
    BY <1>2, <1>3

\* A step that is not a clean one leaves only the types to be seen to.
LEMMA MishapStep ==
  ASSUME AccountsInv, NEW c \in Call, NEW pc \in CallAt, A!Goto(c, pc), pc \in A!Ends \cup {"dropUser"},
         pc = "dropUser" => call[c].made, user' = user, files' \subseteq File, mishap' = TRUE,
         UNCHANGED <<kept, settled>>
  PROVE  AccountsInv'
  <1>0. AccountsType
    BY DEF AccountsInv
  <1>1. PICK k \in Calling :
          /\ call' = [call EXCEPT ![c] = k] /\ k.at = pc
          /\ IF pc \in A!Ends THEN k.file = A!None /\ ~k.made /\ ~k.holds
             ELSE k.op = call[c].op /\ k.file = call[c].file /\ k.made = call[c].made /\ k.holds = call[c].holds
    BY <1>0, GoesTo
  <1>2. Register(k)
    BY <1>0, <1>1 DEF Register, AccountsType
  <1>3. AccountsType'
    BY <1>0, <1>1, <1>2 DEF AccountsType
  <1> QED
    BY <1>3 DEF AccountsInv

LEMMA UploadStep ==
  ASSUME AccountsInv, NEW c \in Call, A!Upload(c)
  PROVE  AccountsInv'
  <1>0. /\ AccountsType /\ call[c] \in Calling /\ call[c].op = "register" /\ call[c].at = "upload"
        /\ UNCHANGED <<user, kept, settled>>
    BY DEF A!Upload, A!At, AccountsInv, AccountsType
  <1>1. ~call[c].made /\ call[c].file = A!None
    BY <1>0 DEF AccountsType, Register
  <1>2. ASSUME NEW pc \in {"create", "refused"}, A!Goto(c, pc), UNCHANGED <<files, mishap>> PROVE AccountsInv'
    <2>1. pc \in CallAt /\ user' \in UserRow /\ (user'.registered => user.registered /\ user'.exists)
      BY <1>0, <1>2 DEF AccountsType, CallAt
    <2> QED
      BY <1>0, <1>1, <1>2, <2>1, OtherGoes
  <1>3. ASSUME NEW f \in File, f \notin kept, files' = files \cup {f},
               call' = [call EXCEPT ![c].at = "create", ![c].file = f], mishap' = (mishap \/ f \in files)
        PROVE  AccountsInv'
    <2> DEFINE k == [call[c] EXCEPT !.at = "create", !.file = f]
    <2>1. /\ k \in Calling /\ k.at = "create" /\ k.file = f /\ k.op = "register" /\ ~k.made
          /\ call' = [call EXCEPT ![c] = k]
      BY <1>0, <1>1, <1>3 DEF AccountsType, Calling, CallAt
    <2> HIDE DEF k
    <2>2. Register(k) /\ Owning(k) /\ ~Answers(k) /\ ~Owning(call[c]) /\ ~Answers(call[c])
      BY <1>1, <2>1, FileNames DEF Register, Owning, Answers
    <2>3. call'[c] = k /\ \A d \in Call \ {c} : call'[d] = call[d]
      BY <1>0, <2>1 DEF AccountsType
    <2>4. AccountsType'
      BY <1>0, <1>3, <2>1, <2>2, <2>3 DEF AccountsType
    <2>5. ASSUME ~mishap' PROVE Accounted'
      <3>0. Accounted /\ f \notin files
        BY <1>3, <2>5 DEF AccountsInv
      <3>1. \A d \in Call \ {c} : Owning(call[d]) => call[d].file \in files \ kept /\ call[d].file # f
        BY <3>0 DEF Accounted
      <3>2. \A g \in files' : g \in kept \/ \E d \in Call : Owning(call'[d]) /\ call'[d].file = g
        <4> TAKE g \in files'
        <4>1. CASE g = f
          BY <2>1, <2>2, <2>3, <4>1
        <4>2. CASE g \in files
          BY <2>2, <2>3, <3>0, <4>2 DEF Accounted
        <4> QED
          BY <1>3, <4>1, <4>2
      <3>3. user.registered => settled \/ \E d \in Call : Answers(call'[d])
        BY <2>2, <2>3, <3>0 DEF Accounted
      <3>4. \A d \in Call : Owning(call'[d]) => call'[d].file \in files' \ kept
        BY <1>3, <2>1, <2>3, <3>1
      <3>5. \A d \in Call \ {c} : Owning(call'[d]) => call'[d].file # call'[c].file
        BY <2>1, <2>3, <3>1
      <3>6. \A d, e \in Call \ {c} : d # e /\ Owning(call'[d]) /\ Owning(call'[e]) => call'[d].file # call'[e].file
        BY <2>3, <3>0 DEF Accounted
      <3>7. \A d, e \in Call : d # e /\ Owning(call'[d]) /\ Owning(call'[e]) => call'[d].file # call'[e].file
        BY <3>5, <3>6
      <3> QED
        BY <1>0, <1>3, <3>0, <3>2, <3>3, <3>4, <3>7 DEF Accounted
    <2> QED
      BY <2>4, <2>5 DEF AccountsInv
  <1>4. ASSUME NEW f \in File, files' = files \cup {f}, A!Goto(c, "refused"), mishap' = TRUE PROVE AccountsInv'
    BY <1>0, <1>4, MishapStep DEF AccountsType, CallAt, A!Ends
  <1> QED
    BY <1>2, <1>3, <1>4 DEF A!Upload

LEMMA CreateStep ==
  ASSUME AccountsInv, NEW c \in Call, A!CreateUser(c)
  PROVE  AccountsInv'
  <1>0. /\ AccountsType /\ call[c] \in Calling /\ call[c].op = "register" /\ call[c].at = "create"
        /\ UNCHANGED <<files, kept, settled>> /\ mishap \in BOOLEAN /\ user \in UserRow
        /\ user.registered => user.exists
    BY DEF A!CreateUser, A!At, AccountsInv, AccountsType
  <1>1. ~call[c].made
    BY <1>0 DEF AccountsType, Register
  <1>2. ASSUME UNCHANGED <<user, mishap>>, A!Goto(c, A!Cleanup(c, FALSE, "conflict")) PROVE AccountsInv'
    <2>1. A!Cleanup(c, FALSE, "conflict") = A!Cleanup(c, call[c].made, "conflict")
      BY <1>1 DEF A!Cleanup
    <2> QED
      BY <1>0, <1>2, <2>1, FailStep
  <1>3. ASSUME user' = [exists |-> TRUE, registered |-> TRUE, avatar |-> call[c].file] PROVE
               user' \in UserRow /\ user'.registered /\ user'.exists
    BY <1>0, <1>3 DEF UserRow, Calling
  <1>4. ASSUME user' = [exists |-> TRUE, registered |-> TRUE, avatar |-> call[c].file], mishap' = TRUE,
               A!Goto(c, A!Cleanup(c, FALSE, "refused"))
        PROVE  AccountsInv'
    <2>1. A!Cleanup(c, FALSE, "refused") = A!Cleanup(c, call[c].made, "refused")
      BY <1>1 DEF A!Cleanup
    <2> QED
      BY <1>0, <1>3, <1>4, <2>1, FailStep
  <1>5. ASSUME user' = [exists |-> TRUE, registered |-> TRUE, avatar |-> call[c].file], UNCHANGED mishap,
               call' = [call EXCEPT ![c].at = "upsert", ![c].made = TRUE, ![c].holds = TRUE]
        PROVE  AccountsInv'
    <2> DEFINE k == [call[c] EXCEPT !.at = "upsert", !.made = TRUE, !.holds = TRUE]
    <2>1. /\ k \in Calling /\ k.at = "upsert" /\ k.file = call[c].file /\ k.op = "register" /\ k.made /\ k.holds
          /\ call' = [call EXCEPT ![c] = k]
      BY <1>0, <1>5 DEF AccountsType, Calling, CallAt
    <2> HIDE DEF k
    <2>2. Register(k) /\ Answers(k) /\ (Owning(k) <=> Owning(call[c])) /\ ~Answers(call[c])
      BY <1>0, <1>1, <2>1 DEF Register, Owning, Answers
    <2> QED
      BY <1>0, <1>3, <1>5, <2>1, <2>2, CallStep
  <1> QED
    BY <1>2, <1>4, <1>5 DEF A!CreateUser

\* The avatar is removed, and with it the call's claim to it.
LEMMA DropFileStep ==
  ASSUME AccountsInv, NEW c \in Call, A!DropFile(c)
  PROVE  AccountsInv'
  <1> DEFINE pc == IF call[c].made THEN "dropUser" ELSE "refused"
  <1>0. /\ AccountsType /\ call[c].op = "register" /\ call[c].at = "dropFile" /\ A!Goto(c, pc)
        /\ UNCHANGED <<user, kept, settled>> /\ mishap \in BOOLEAN
    BY DEF A!DropFile, A!At, AccountsInv, AccountsType
  <1>1. pc \in CallAt /\ pc \in A!Ends \cup {"dropUser"} /\ (pc = "dropUser" <=> call[c].made) /\ (pc \in A!Ends <=> ~call[c].made)
    BY DEF CallAt, A!Ends
  <1> HIDE DEF pc
  <1>2. CASE mishap' = TRUE /\ UNCHANGED files
    BY <1>0, <1>1, <1>2, MishapStep DEF AccountsType
  <1>3. CASE files' = files \ {call[c].file} /\ UNCHANGED mishap
    <2>1. PICK k \in Calling :
            /\ call' = [call EXCEPT ![c] = k] /\ k.at = pc
            /\ IF pc \in A!Ends THEN k.file = A!None /\ ~k.made /\ ~k.holds
               ELSE k.op = call[c].op /\ k.file = call[c].file /\ k.made = call[c].made /\ k.holds = call[c].holds
      BY <1>0, <1>1, GoesTo
    <2>2. Register(k) /\ ~Owning(k) /\ (Answers(call[c]) => Answers(k))
      BY <1>0, <1>1, <2>1 DEF Register, Owning, Answers, A!Ends
    <2>3. call'[c] = k /\ \A d \in Call \ {c} : call'[d] = call[d]
      BY <1>0, <2>1 DEF AccountsType
    <2>4. AccountsType'
      BY <1>0, <1>3, <2>1, <2>2, <2>3 DEF AccountsType
    <2>5. ASSUME ~mishap' PROVE Accounted'
      <3>0. Accounted
        BY <1>3, <2>5 DEF AccountsInv
      <3>1. call[c].file # A!None => Owning(call[c])
        BY <1>0 DEF Owning
      <3>2. call[c].file \notin kept
        BY <1>0, <3>0, <3>1, FileNames DEF Accounted, AccountsType
      <3>3. \A d \in Call \ {c} : Owning(call[d]) => call[d].file \in files' \ kept
        <4>1. ASSUME NEW d \in Call \ {c}, Owning(call[d]) PROVE call[d].file # call[c].file
          BY <3>0, <3>1, <4>1 DEF Accounted, Owning
        <4> QED
          BY <1>3, <3>0, <4>1 DEF Accounted
      <3>4. \A g \in files' : g \in kept \/ \E d \in Call : Owning(call'[d]) /\ call'[d].file = g
        BY <1>3, <2>3, <3>0 DEF Accounted
      <3>5. user.registered => settled \/ \E d \in Call : Answers(call'[d])
        BY <2>2, <2>3, <3>0 DEF Accounted
      <3> QED
        BY <1>0, <1>3, <2>2, <2>3, <3>0, <3>2, <3>3, <3>4, <3>5 DEF Accounted
    <2> QED
      BY <2>4, <2>5 DEF AccountsInv
  <1> QED
    BY <1>2, <1>3 DEF A!DropFile

\* The row is removed, and whoever carries its id carries the id of no row.
LEMMA DropUserStep ==
  ASSUME AccountsInv, NEW c \in Call, A!DropUser(c)
  PROVE  AccountsInv'
  <1>0. /\ AccountsType /\ call[c].op = "register" /\ call[c].at = "dropUser" /\ UNCHANGED <<files, kept>>
        /\ mishap \in BOOLEAN
    BY DEF A!DropUser, A!At, AccountsInv, AccountsType
  <1>1. ~Owning(call[c])
    BY <1>0 DEF Owning
  <1>2. CASE /\ user' = A!NoUser /\ settled' = FALSE /\ UNCHANGED mishap
             /\ call' = [d \in Call |-> IF d = c THEN A!Ended("refused") ELSE [call[d] EXCEPT !.holds = FALSE]]
    <2> DEFINE end == A!Ended("refused")
    <2>1. end \in Calling /\ Register(end) /\ ~Owning(end)
      BY AccountsTypes DEF A!Ended, Calling, CallAt, Register, Owning
    <2>2. call'[c] = end
      BY <1>2
    <2>3. ASSUME NEW d \in Call \ {c}
          PROVE  /\ call'[d] \in Calling /\ Register(call'[d])
                 /\ (Owning(call'[d]) <=> Owning(call[d])) /\ call'[d].file = call[d].file
      <3> DEFINE k == [call[d] EXCEPT !.holds = FALSE]
      <3>1. call'[d] = k /\ call[d] \in Calling /\ Register(call[d])
        BY <1>0, <1>2 DEF AccountsType
      <3>2. /\ k \in Calling /\ k.at = call[d].at /\ k.op = call[d].op /\ k.file = call[d].file
            /\ k.made = call[d].made
        BY <3>1 DEF Calling
      <3> HIDE DEF k
      <3> QED
        BY <3>1, <3>2 DEF Register, Owning
    <2>4. call' \in [Call -> Calling]
      <3>1. call' = [d \in Call |-> call'[d]]
        BY <1>2
      <3> HIDE DEF end
      <3> QED
        BY <2>1, <2>2, <2>3, <3>1
    <2> HIDE DEF end
    <2>5. AccountsType'
      BY <1>0, <1>2, <2>1, <2>2, <2>3, <2>4, AccountsTypes DEF AccountsType
    <2>6. ASSUME ~mishap' PROVE Accounted'
      <3>0. Accounted
        BY <1>2, <2>6 DEF AccountsInv
      <3>1. \A d \in Call : Owning(call'[d]) <=> Owning(call[d])
        BY <1>1, <2>1, <2>2, <2>3
      <3>2. \A d \in Call : Owning(call[d]) => call'[d].file = call[d].file
        BY <1>1, <2>3
      <3>3. \A d \in Call : Owning(call'[d]) => call'[d].file \in files' \ kept'
        BY <1>0, <3>0, <3>1, <3>2 DEF Accounted
      <3>4. \A d, e \in Call : d # e /\ Owning(call'[d]) /\ Owning(call'[e]) => call'[d].file # call'[e].file
        BY <3>0, <3>1, <3>2 DEF Accounted
      <3>5. \A g \in files' : g \in kept' \/ \E d \in Call : Owning(call'[d]) /\ call'[d].file = g
        <4> TAKE g \in files'
        <4>1. CASE g \in kept
          BY <1>0, <4>1
        <4>2. CASE g \notin kept
          <5>1. PICK d \in Call : Owning(call[d]) /\ call[d].file = g
            BY <1>0, <3>0, <4>2 DEF Accounted
          <5> QED
            BY <3>1, <3>2, <5>1
        <4> QED
          BY <4>1, <4>2
      <3>6. ~user'.registered /\ kept' \subseteq files'
        BY <1>0, <1>2, <3>0, AccountsTypes DEF Accounted
      <3> QED
        BY <3>3, <3>4, <3>5, <3>6 DEF Accounted
    <2> QED
      BY <2>5, <2>6 DEF AccountsInv
  <1>3. CASE A!Goto(c, "refused") /\ mishap' = (mishap \/ call[c].holds) /\ UNCHANGED <<user, settled>>
    <2>1. call[c] \in Calling /\ "refused" \in CallAt /\ "refused" \in A!Ends
      BY <1>0 DEF AccountsType, CallAt, A!Ends
    <2>2. PICK k \in Calling : call' = [call EXCEPT ![c] = k] /\ k.file = A!None /\ ~k.made
      BY <1>0, <1>3, <2>1, GoesTo
    <2>3. Register(k) /\ ~Owning(k) /\ (Answers(call[c]) => call[c].holds)
      BY <2>2 DEF Register, Owning, Answers
    <2>4. mishap' \in BOOLEAN /\ (mishap => mishap') /\ (~mishap' => ~Answers(call[c]))
      BY <1>0, <1>3, <2>1, <2>3 DEF Calling
    <2>5. user' \in UserRow /\ (user'.registered => user'.exists)
      BY <1>0, <1>3 DEF AccountsType
    <2> QED
      BY <1>0, <1>1, <1>3, <2>2, <2>3, <2>4, <2>5, CallStep
  <1> QED
    BY <1>2, <1>3 DEF A!DropUser

\* The row that a wallet has, or one with its wallet alone.
LEMMA RowOrPlain ==
  ASSUME AccountsInv, user' \in {IF user.exists THEN user ELSE A!Plain, user, A!Plain}
  PROVE  user' \in UserRow /\ (user'.registered => user.registered /\ user'.exists)
  BY AccountsTypes DEF AccountsInv, AccountsType

LEMMA UpsertStep ==
  ASSUME AccountsInv, NEW c \in Call, A!FindOrCreateUser(c)
  PROVE  AccountsInv'
  <1>0. /\ AccountsType /\ call[c] \in Calling /\ Register(call[c])
        /\ call[c].op \in {"register", "login"} /\ call[c].at = "upsert"
        /\ UNCHANGED <<files, kept, settled, mishap>> /\ mishap' \in BOOLEAN
    BY DEF A!FindOrCreateUser, A!hist, AccountsInv, AccountsType
  <1>1. user' \in UserRow /\ (user'.registered => user.registered /\ user'.exists)
    BY RowOrPlain DEF A!FindOrCreateUser
  <1>2. ASSUME A!Fails(c) PROVE AccountsInv'
    BY <1>0, <1>1, <1>2, TokensFail
  <1>3. ASSUME call' = [call EXCEPT ![c].at = "session", ![c].holds = @ \/ call[c].op = "login"]
        PROVE  AccountsInv'
    <2> DEFINE k == [call[c] EXCEPT !.at = "session", !.holds = @ \/ call[c].op = "login"]
    <2>1. call' = [call EXCEPT ![c] = k]
      BY <1>0, <1>3 DEF AccountsType
    <2>2. /\ k.at = "session" /\ k.op = call[c].op /\ k.file = call[c].file /\ k.made = call[c].made
          /\ k.holds = (call[c].holds \/ call[c].op = "login")
      BY <1>0 DEF Calling
    <2>3. k \in Calling
      BY <1>0 DEF Calling, CallAt
    <2> HIDE DEF k
    <2>4. Register(k) /\ (Owning(k) <=> Owning(call[c])) /\ (Answers(call[c]) => Answers(k))
      BY <1>0, <2>2 DEF Register, Owning, Answers
    <2> QED
      BY <1>0, <1>1, <2>1, <2>2, <2>3, <2>4, CallStep
  <1> QED
    BY <1>2, <1>3 DEF A!FindOrCreateUser

\* A registration succeeds: its row and its avatar are those of a registration that did.
LEMMA RegisteredStep ==
  ASSUME AccountsInv, NEW c \in Call, call[c].at = "session", call[c].op = "register", A!Goto(c, "done"),
         settled' = TRUE, kept' = kept \cup ({call[c].file} \cap File), UNCHANGED <<user, files, mishap>>
  PROVE  AccountsInv'
  <1>0. AccountsType /\ call[c] \in Calling /\ "done" \in CallAt /\ "done" \in A!Ends
    BY DEF AccountsInv, AccountsType, CallAt, A!Ends
  <1>1. PICK k \in Calling : call' = [call EXCEPT ![c] = k] /\ k.file = A!None /\ ~k.made
    BY <1>0, GoesTo
  <1>2. Register(k) /\ ~Owning(k)
    BY <1>1 DEF Register, Owning
  <1>3. call'[c] = k /\ \A d \in Call \ {c} : call'[d] = call[d]
    BY <1>0, <1>1 DEF AccountsType
  <1>4. AccountsType'
    BY <1>0, <1>1, <1>2, <1>3 DEF AccountsType
  <1>5. ASSUME ~mishap' PROVE Accounted'
    <2>0. Accounted
      BY <1>5 DEF AccountsInv
    <2>1. call[c].file \in File => Owning(call[c]) /\ call[c].file \in files
      BY <2>0, FileNames DEF Owning, Accounted
    <2>2. \A d \in Call \ {c} : Owning(call[d]) => call[d].file # call[c].file /\ call[d].file \in files \ kept
      <3> TAKE d \in Call \ {c}
      <3> HAVE Owning(call[d])
      <3>1. call[d].file \in files \ kept /\ call[d].file \in File
        BY <2>0, <1>0 DEF Accounted, AccountsType
      <3>2. call[c].file \in File => call[d].file # call[c].file
        BY <2>0, <2>1 DEF Accounted
      <3> QED
        BY <3>1, <3>2
    <2>3. \A d \in Call : Owning(call'[d]) => d # c /\ call'[d] = call[d] /\ Owning(call[d])
      BY <1>2, <1>3
    <2>4. \A d \in Call : Owning(call'[d]) => call'[d].file \in files' \ kept'
      BY <2>2, <2>3
    <2>5. \A d, e \in Call : d # e /\ Owning(call'[d]) /\ Owning(call'[e]) => call'[d].file # call'[e].file
      BY <2>0, <2>3 DEF Accounted
    <2>6. \A g \in files' : g \in kept' \/ \E d \in Call : Owning(call'[d]) /\ call'[d].file = g
      <3> TAKE g \in files'
      <3>0. g \in File
        BY <1>0 DEF AccountsType
      <3>1. CASE g \in kept
        BY <3>1
      <3>2. CASE g \notin kept
        <4>1. PICK d \in Call : Owning(call[d]) /\ call[d].file = g
          BY <2>0, <3>2 DEF Accounted
        <4> QED
          BY <1>3, <3>0, <4>1
      <3> QED
        BY <3>1, <3>2
    <2>7. kept' \subseteq files'
      BY <2>0, <2>1 DEF Accounted
    <2> QED
      BY <2>4, <2>5, <2>6, <2>7 DEF Accounted
  <1> QED
    BY <1>4, <1>5 DEF AccountsInv

LEMMA SessionStep ==
  ASSUME AccountsInv, NEW c \in Call, A!CreateSession(c)
  PROVE  AccountsInv'
  <1>0. call[c].at = "session" /\ UNCHANGED <<user, files, mishap>>
    BY DEF A!CreateSession, A!store
  <1>1. user' \in UserRow /\ (user'.registered => user.registered /\ user'.exists)
    BY <1>0 DEF AccountsInv, AccountsType
  <1>2. CASE A!Fails(c) /\ UNCHANGED <<settled, kept>>
    BY <1>0, <1>1, <1>2, TokensFail
  <1>3. CASE /\ A!Goto(c, "done") /\ call[c].op = "register"
             /\ settled' = TRUE /\ kept' = kept \cup ({call[c].file} \cap File)
    BY <1>0, <1>3, RegisteredStep
  <1>4. CASE A!Goto(c, "done") /\ call[c].op # "register" /\ UNCHANGED <<settled, kept>>
    <2>1. "done" \in CallAt
      BY DEF CallAt
    <2> QED
      BY <1>0, <1>1, <1>4, <2>1, OtherGoes
  <1> QED
    BY <1>2, <1>3, <1>4 DEF A!CreateSession

\* The steps of the profile's routes are those of calls that are not registrations.
LEMMA ProfileStep ==
  ASSUME AccountsInv, NEW c \in Call,
         \/ A!ReadProfile(c) \/ A!NewUser(c) \/ A!NewPrefs(c)
         \/ A!UpdateUser(c) \/ A!UpsertPrefs(c) \/ A!Reread(c)
  PROVE  AccountsInv'
  <1>0. /\ AccountsType /\ call[c] \in Calling /\ call[c].op # "register"
        /\ UNCHANGED <<files, kept, settled, mishap>>
    BY DEF A!ReadProfile, A!NewUser, A!NewPrefs, A!UpdateUser, A!UpsertPrefs, A!Reread, A!At, A!store, A!hist,
           AccountsInv, AccountsType
  <1>1. ~call[c].made /\ call[c].file = A!None
    BY <1>0 DEF AccountsType, Register
  <1>2. user' \in UserRow /\ (user'.registered => user.registered /\ user'.exists)
    <2>1. CASE user' \in {user, A!Plain}
      BY <2>1, RowOrPlain
    <2>2. CASE A!UpdateUser(c) /\ user' # user
      <3>1. PICK own \in {user, A!Plain} :
              /\ own.registered => user.registered
              /\ own.exists /\ own \in UserRow
              /\ user' \in {own, [own EXCEPT !.avatar = A!Link]}
        BY <1>0, <2>2, AccountsTypes DEF A!UpdateUser, AccountsType
      <3>2. user' \in UserRow /\ user'.registered = own.registered /\ user'.exists
        BY <3>1 DEF UserRow
      <3> QED
        BY <3>1, <3>2
    <2> QED
      BY <2>1, <2>2 DEF A!ReadProfile, A!NewUser, A!NewPrefs, A!UpdateUser, A!UpsertPrefs, A!Reread, A!store
  <1>3. ASSUME NEW pc \in CallAt, A!Goto(c, pc) PROVE AccountsInv'
    BY <1>0, <1>2, <1>3, OtherGoes
  <1>4. ASSUME NEW pc \in CallAt, call' = [call EXCEPT ![c] = [call[c] EXCEPT !.at = pc, !.holds = TRUE]]
        PROVE  AccountsInv'
    <2> DEFINE k == [call[c] EXCEPT !.at = pc, !.holds = TRUE]
    <2>1. k \in Calling /\ k.file = call[c].file /\ k.made = call[c].made
      BY <1>0 DEF Calling
    <2>2. call' = [call EXCEPT ![c] = k]
      BY <1>4
    <2> HIDE DEF k
    <2> QED
      BY <1>0, <1>1, <1>2, <2>1, <2>2, OtherStep
  <1>5. ASSUME NEW pc \in CallAt, call' = [call EXCEPT ![c] = [call[c] EXCEPT !.at = pc]]
        PROVE  AccountsInv'
    <2> DEFINE k == [call[c] EXCEPT !.at = pc]
    <2>1. k \in Calling /\ k.file = call[c].file /\ k.made = call[c].made
      BY <1>0 DEF Calling
    <2>2. call' = [call EXCEPT ![c] = k]
      BY <1>5
    <2> HIDE DEF k
    <2> QED
      BY <1>0, <1>1, <1>2, <2>1, <2>2, OtherStep
  <1>6. {"refused", "done", "duplicate", "newUser", "newPrefs", "prefs", "reread"} \subseteq CallAt
    BY DEF CallAt
  <1>7. CASE A!ReadProfile(c)
    <2>1. ASSUME call' = [call EXCEPT ![c] = A!Ended("done")] PROVE AccountsInv'
      <3> DEFINE k == A!Ended("done")
      <3>1. k \in Calling /\ k.file = A!None /\ ~k.made
        BY AccountsTypes DEF A!Ended, Calling, CallAt
      <3>2. call' = [call EXCEPT ![c] = k]
        BY <2>1
      <3> HIDE DEF k
      <3> QED
        BY <1>0, <1>2, <3>1, <3>2, OtherStep
    <2>2. CASE A!Goto(c, "refused")
      BY <1>3, <1>6, <2>2
    <2>3. CASE ~A!Goto(c, "refused") /\ ~user.exists
      <3>1. call' = [call EXCEPT ![c] = [call[c] EXCEPT !.at = "newUser"]]
        BY <1>0, <1>7, <2>3 DEF A!ReadProfile, AccountsType
      <3> QED
        BY <1>5, <1>6, <3>1
    <2>4. CASE ~A!Goto(c, "refused") /\ user.exists /\ A!PrefsSeen
      <3>1. call' = [call EXCEPT ![c] = A!Ended("done")]
        BY <1>0, <1>7, <2>4 DEF A!ReadProfile, AccountsType
      <3> QED
        BY <2>1, <3>1
    <2>5. CASE ~A!Goto(c, "refused") /\ user.exists /\ ~A!PrefsSeen
      <3>1. call' = [call EXCEPT ![c] = [call[c] EXCEPT !.at = "newPrefs", !.holds = TRUE]]
        BY <1>0, <1>7, <2>5 DEF A!ReadProfile, AccountsType
      <3> QED
        BY <1>4, <1>6, <3>1
    <2> QED
      BY <2>2, <2>3, <2>4, <2>5
  <1>8. CASE A!NewUser(c)
    <2>1. \/ A!Goto(c, "refused") \/ A!Goto(c, "duplicate")
          \/ call' = [call EXCEPT ![c] = [call[c] EXCEPT !.at = "newPrefs", !.holds = TRUE]]
      BY <1>0, <1>8 DEF A!NewUser, AccountsType
    <2> QED
      BY <1>3, <1>4, <1>6, <2>1
  <1>9. CASE A!NewPrefs(c)
    BY <1>3, <1>6, <1>9 DEF A!NewPrefs
  <1>10. CASE A!UpdateUser(c)
    <2>1. \/ A!Goto(c, "refused")
          \/ \E next \in {"prefs", "reread"} :
               call' = [call EXCEPT ![c] = [call[c] EXCEPT !.at = next, !.holds = TRUE]]
      BY <1>0, <1>10 DEF A!UpdateUser, AccountsType
    <2> QED
      BY <1>3, <1>4, <1>6, <2>1
  <1>11. CASE A!UpsertPrefs(c)
    BY <1>3, <1>6, <1>11 DEF A!UpsertPrefs
  <1>12. CASE A!Reread(c)
    BY <1>3, <1>6, <1>12 DEF A!Reread
  <1> QED
    BY <1>7, <1>8, <1>9, <1>10, <1>11, <1>12

LEMMA AccountsStep == AccountsInv /\ [A!Next]_(A!vars) => AccountsInv'
  <1> SUFFICES ASSUME AccountsInv, [A!Next]_(A!vars) PROVE AccountsInv'
    OBVIOUS
  <1>1. CASE A!Stop
    <2>1. AccountsType
      BY DEF AccountsInv
    <2>2. AccountsType'
      BY <1>1, <2>1, AccountsTypes, NoCallIdle DEF A!Stop, A!store, AccountsType
    <2> QED
      BY <1>1, <2>2 DEF A!Stop, AccountsInv
  <1>2. CASE UNCHANGED A!vars
    BY <1>2 DEF A!vars, A!store, A!hist, AccountsInv, AccountsType, Accounted
  <1> QED
    BY <1>1, <1>2, Beginning, UploadStep, CreateStep, DropFileStep, DropUserStep, UpsertStep, SessionStep,
       ProfileStep DEF A!Next

\* A registration that fails takes back its row and its avatar, whatever other calls do
\* to the row meanwhile, and one that succeeds keeps its avatar, for any number of calls
\* and of avatars (AuthService.register and its catch).
THEOREM Registrations == Spec => []NothingLeftBehind
  <1>1. AccountsInv => NothingLeftBehind
    BY DEF AccountsInv, AccountsType, Accounted, Answers, Owning, NothingLeftBehind, A!NothingLeftBehind
  <1>2. A!Spec => []AccountsInv
    BY AccountsInit, AccountsStep, PTL DEF A!Spec
  <1> QED
    BY <1>1, <1>2, ServicesAlone, PTL

-----------------------------------------------------------------------------
\* Pool


LEMMA Quotient == ASSUME NEW a \in Nat, NEW b \in Nat \ {0} PROVE a \div b \in Nat
  OBVIOUS

LEMMA Product == ASSUME NEW a \in Nat, NEW b \in Nat PROVE a * b \in Nat
  OBVIOUS

\* A share of x, in proportion of y to z, as PaysFor, MintsFor and the computed figures.
LEMMA Proportion ==
  ASSUME NEW x \in Nat, NEW y \in Nat, NEW z \in Nat \ {0}
  PROVE  (x * y) \div z \in Nat
  <1> DEFINE p == x * y
  <1>1. p \in Nat
    BY Product
  <1> HIDE DEF p
  <1>2. p \div z \in Nat
    BY <1>1, Quotient
  <1> QED
    BY <1>2 DEF p

LEMMA Nothing == ASSUME NEW y \in Nat, NEW z \in Nat \ {0} PROVE (0 * y) \div z = 0
  <1>1. 0 * y = 0
    OBVIOUS
  <1>2. 0 \div z = 0
    OBVIOUS
  <1> QED
    BY <1>1, <1>2

LEMMA PoolConstants ==
  /\ MaxPool \in Nat /\ MaxPool > 0 /\ MaxMoves \in Nat /\ MaxMoves > 0 /\ MinDeposit \in Nat
  /\ Scale \in Nat \ {0} /\ FeeBps \in Nat
  /\ P!Unread \in Int /\ P!Unread \notin Nat /\ 0 \in P!Figure
  /\ P!Figure \subseteq Nat /\ P!Read \subseteq Int /\ P!Figure \subseteq P!Read /\ P!Unread \in P!Read
  /\ \A x \in P!Read : x # P!Unread => x \in P!Figure
  BY PoolAssumption DEF P!Unread, P!Figure, P!Read

-----------------------------------------------------------------------------
\* The types

PoolAt == P!Answers \cup {"read", "worth", "build"}
PoolCall == [at : PoolAt, op : P!Ops, arg : P!Figure, granular : BOOLEAN, again : BOOLEAN,
             own : P!Read, sum : P!Read, free : P!Read, all : P!Read, fee : {P!Unread, 0, FeeBps},
             sum2 : P!Read, all2 : P!Read, worth : Nat \cup {P!Unread}]
Blind == SUBSET {"own", "fee", "stats"}

PoolOK == liquidity \in P!Figure /\ locked \in 0 .. liquidity /\ shares \in P!Figure /\ mine \in 0 .. shares

LEMMA PoolTypeSplit == P!TypeOK <=> PoolOK /\ poolCall \in PoolCall /\ moved \in 0 .. MaxMoves /\ blind \in Blind
  BY DEF P!TypeOK, PoolOK, PoolCall, PoolAt, Blind

LEMMA NoPoolCall == P!NoCall \in PoolCall /\ P!NoCall.at = "idle"
  BY PoolConstants DEF P!NoCall, PoolCall, PoolAt, P!Answers, P!Ops

LEMMA PoolFacts ==
  ASSUME PoolOK
  PROVE  /\ liquidity \in Nat /\ locked \in Nat /\ shares \in Nat /\ mine \in Nat /\ mine <= shares /\ locked <= liquidity
         /\ liquidity \in P!Figure /\ P!Available \in P!Figure /\ shares \in P!Figure /\ mine \in P!Figure
         /\ \A x \in Nat : P!PaysFor(x) \in Nat /\ P!MintsFor(x) \in Nat
         /\ P!PaysFor(0) = 0
  <1>1. liquidity \in Nat /\ locked \in Nat /\ shares \in Nat /\ mine \in Nat /\ mine <= shares /\ locked <= liquidity
    BY PoolConstants DEF PoolOK, P!Figure
  <1>2. liquidity \in P!Figure /\ P!Available \in P!Figure /\ shares \in P!Figure /\ mine \in P!Figure
    BY <1>1, PoolConstants DEF PoolOK, P!Figure, P!Available
  <1>3. \A x \in Nat : P!PaysFor(x) \in Nat /\ P!MintsFor(x) \in Nat
    BY <1>1, Proportion DEF P!PaysFor, P!MintsFor
  <1>4. P!PaysFor(0) = 0
    BY <1>1, Nothing DEF P!PaysFor
  <1> QED
    BY <1>1, <1>2, <1>3, <1>4

\* The pool moves.
Moves == \/ \E n \in 1 .. MaxPool : P!Deposited(n) \/ P!Withdrawn(n)
         \/ P!Lent \/ P!Repaid \/ P!Interest \/ P!Default

LEMMA MovesFacts ==
  ASSUME P!TypeOK, Moves
  PROVE  P!Land /\ PoolOK'
  <1> USE DEF PoolOK
  <1>0. PoolOK
    BY PoolTypeSplit
  <1>a. /\ liquidity \in Nat /\ locked \in Nat /\ shares \in Nat /\ mine \in Nat /\ mine <= shares /\ locked <= liquidity
        /\ liquidity <= MaxPool /\ shares <= MaxPool
        /\ MaxPool \in Nat
    BY <1>0, PoolConstants DEF P!Figure
  <1>1. ASSUME NEW n \in 1 .. MaxPool, P!Deposited(n) PROVE P!Land /\ PoolOK'
    <2> DEFINE m == P!MintsFor(n)
    <2>1. m \in Nat /\ n \in Nat
      BY <1>0, <1>a, PoolFacts
    <2>2. /\ P!Land /\ liquidity + n <= MaxPool /\ shares + m <= MaxPool
          /\ liquidity' = liquidity + n /\ shares' = shares + m /\ mine' \in {mine, mine + m} /\ locked' = locked
      BY <1>1 DEF P!Deposited
    <2> HIDE DEF m
    <2> QED
      BY <1>a, <2>1, <2>2 DEF P!Figure
  <1>2. ASSUME NEW n \in 1 .. MaxPool, P!Withdrawn(n) PROVE P!Land /\ PoolOK'
    <2> DEFINE p == P!PaysFor(n)
    <2>1. p \in Nat /\ n \in Nat
      BY <1>0, <1>a, PoolFacts
    <2>2. /\ P!Land /\ n <= shares /\ p <= liquidity - locked
          /\ mine' \in P!Figure /\ mine' <= shares - n
          /\ liquidity' = liquidity - p /\ shares' = shares - n /\ locked' = locked
      BY <1>2 DEF P!Withdrawn, P!Available
    <2> HIDE DEF p
    <2> QED
      BY <1>a, <2>1, <2>2 DEF P!Figure
  <1>3. CASE P!Lent \/ P!Repaid \/ P!Interest \/ P!Default
    BY <1>a, <1>3 DEF P!Lent, P!Repaid, P!Interest, P!Default, P!Available, P!Figure
  <1> QED
    BY <1>1, <1>2, <1>3 DEF Moves

\* Where a conversion leads; the figures that it was made of are dropped.
LEMMA ValuedEffect ==
  ASSUME poolCall \in PoolCall, NEW worth \in Nat, P!Valued(worth)
  PROVE  /\ poolCall' \in PoolCall
         /\ poolCall'.worth = worth /\ poolCall'.op = poolCall.op /\ poolCall'.arg = poolCall.arg /\ poolCall'.own = poolCall.own
         /\ poolCall'.sum = poolCall.sum /\ poolCall'.free = poolCall.free /\ poolCall'.all = poolCall.all /\ poolCall'.fee = poolCall.fee
         /\ poolCall'.sum2 = P!Unread /\ poolCall'.all2 = P!Unread
         /\ poolCall.op = "summary" => poolCall'.at = "ok"
         /\ poolCall.op = "withdraw" => poolCall'.at = IF worth > poolCall.free THEN "tooLittle" ELSE "build"
         /\ poolCall.op \notin {"summary", "withdraw"} => poolCall'.at = "read"
  <1>0. poolCall.free \in Int
    <2>1. poolCall.free \in P!Read
      BY DEF PoolCall
    <2>2. P!Read \subseteq Int
      BY PoolConstants
    <2> QED
      BY <2>1, <2>2
  <1>1. PICK pc : /\ poolCall' = [poolCall EXCEPT !.worth = worth, !.again = FALSE, !.sum2 = P!Unread, !.all2 = P!Unread, !.at = pc]
                  /\ pc = CASE poolCall.op = "summary" -> "ok"
                             [] poolCall.op = "withdraw" /\ worth > poolCall.free -> "tooLittle"
                             [] poolCall.op = "withdraw" /\ worth <= poolCall.free -> "build"
                             [] OTHER -> "read"
    BY DEF P!Valued
  <1>2. /\ poolCall.op = "summary" => pc = "ok"
        /\ poolCall.op = "withdraw" => pc = IF worth > poolCall.free THEN "tooLittle" ELSE "build"
        /\ poolCall.op \notin {"summary", "withdraw"} => pc = "read"
    BY <1>0, <1>1
  <1>3. pc \in PoolAt
    BY <1>2 DEF PoolAt, P!Answers
  <1> QED
    BY <1>1, <1>2, <1>3, PoolConstants DEF PoolCall

LEMMA ComputedFigures ==
  ASSUME poolCall \in PoolCall, P!Unread \notin {poolCall.sum2, poolCall.all2}
  PROVE  P!FallbackAmount \in Nat /\ P!FallbackShares \in Nat
  <1>1. poolCall.arg \in Nat /\ poolCall.sum2 \in Nat /\ poolCall.all2 \in Nat
    BY PoolConstants DEF PoolCall
  <1> QED
    BY <1>1, Proportion DEF P!FallbackAmount, P!FallbackShares

LEMMA PoolTypeStep == P!TypeOK /\ [P!Next]_(P!vars) => P!TypeOK'
  <1> SUFFICES ASSUME P!TypeOK, [P!Next]_(P!vars) PROVE P!TypeOK'
    OBVIOUS
  <1>0. PoolOK /\ poolCall \in PoolCall /\ moved \in 0 .. MaxMoves /\ blind \in Blind
    BY PoolTypeSplit
  <1>s. PoolOK' /\ poolCall' \in PoolCall /\ moved' \in 0 .. MaxMoves /\ blind' \in Blind => P!TypeOK'
    BY DEF P!TypeOK, PoolOK, PoolCall, PoolAt, Blind
  <1>z. 0 \in 0 .. MaxMoves /\ MaxMoves \in 0 .. MaxMoves /\ {} \in Blind
    BY PoolConstants DEF Blind
  \* A call goes on while the pool stands still.
  <1>c. ASSUME poolCall' \in PoolCall, UNCHANGED <<P!pool, moved>>, blind' \in Blind PROVE P!TypeOK'
    <2>1. PoolOK'
      BY <1>0, <1>c DEF PoolOK, P!pool
    <2> QED
      BY <1>0, <1>c, <1>s, <2>1
  <1>g. ASSUME NEW pc \in PoolAt, P!Goto(pc) PROVE poolCall' \in PoolCall
    BY <1>0, <1>g DEF P!Goto, PoolCall
  <1>1. CASE Moves
    <2>1. P!Land /\ PoolOK'
      BY <1>1, MovesFacts
    <2>2. P!Shown \in PoolCall
      <3>1. PICK free \in P!Read, all \in P!Read :
              P!Shown = [P!NoCall EXCEPT !.at = "kept", !.op = poolCall.op, !.own = poolCall.own, !.worth = poolCall.worth,
                                         !.sum = poolCall.sum, !.free = free, !.all = all]
        BY <1>0, PoolConstants DEF P!Shown, PoolCall
      <3>2. /\ "kept" \in PoolAt /\ poolCall.op \in P!Ops /\ poolCall.own \in P!Read /\ poolCall.sum \in P!Read
            /\ poolCall.worth \in Nat \cup {P!Unread}
        BY <1>0 DEF PoolCall, PoolAt, P!Answers
      <3> QED
        BY <3>1, <3>2, NoPoolCall DEF PoolCall
    <2>3. poolCall' \in PoolCall /\ moved' \in 0 .. MaxMoves /\ blind' \in Blind
      BY <1>0, <1>z, <2>1, <2>2, NoPoolCall, PoolConstants DEF P!Land
    <2> QED
      BY <1>s, <2>1, <2>3
  <1>2. CASE P!Start
    <2>1. PICK op \in P!Ops, n \in P!Figure, pc \in {"invalid", "build", "read"} :
            poolCall' = [P!NoCall EXCEPT !.op = op, !.arg = n, !.at = pc]
      BY <1>2 DEF P!Start
    <2>2. poolCall' \in PoolCall
      BY <2>1, NoPoolCall DEF PoolCall, PoolAt, P!Answers
    <2>3. UNCHANGED P!pool /\ moved' = 0 /\ blind' = {}
      BY <1>2 DEF P!Start
    <2>4. PoolOK'
      BY <1>0, <2>3 DEF PoolOK, P!pool
    <2> QED
      BY <1>s, <1>z, <2>2, <2>3, <2>4
  <1>3. CASE P!CacheHit \/ P!CacheFails
    <2>1. poolCall' \in PoolCall
      BY <1>3, <1>g DEF P!CacheHit, P!CacheFails, PoolAt, P!Answers
    <2> QED
      BY <1>0, <1>3, <1>c, <2>1 DEF P!CacheHit, P!CacheFails
  <1>4. CASE P!ReadOwn
    <2>1. poolCall' \in PoolCall
      <3>1. mine \in P!Read /\ 0 \in P!Read
        BY <1>0, PoolFacts, PoolConstants
      <3>2. CASE P!Goto("error")
        BY <1>g, <3>2 DEF PoolAt, P!Answers
      <3> QED
        BY <1>0, <1>4, <3>1, <3>2 DEF P!ReadOwn, PoolCall
    <2> QED
      BY <1>0, <1>4, <1>c, <2>1 DEF P!ReadOwn, Blind
  <1>5. CASE P!ReadStats
    <2>1. poolCall' \in PoolCall
      BY <1>0, <1>5, PoolFacts, PoolConstants DEF P!ReadStats, PoolCall
    <2> QED
      BY <1>0, <1>5, <1>c, <2>1 DEF P!ReadStats
  <1>6. CASE P!ReadFigure("sum", liquidity) \/ P!ReadFigure("free", P!Available) \/ P!ReadFigure("all", shares)
    <2>1. poolCall' \in PoolCall
      BY <1>0, <1>6, PoolFacts, PoolConstants DEF P!ReadFigure, PoolCall
    <2> QED
      BY <1>0, <1>6, <1>c, <2>1 DEF P!ReadFigure
  <1>7. CASE P!ReadFee
    <2>1. poolCall' \in PoolCall
      BY <1>0, <1>7 DEF P!ReadFee, PoolCall
    <2> QED
      BY <1>0, <1>7, <1>c, <2>1 DEF P!ReadFee, Blind
  <1>8. CASE P!ReadFails
    <2>1. poolCall' \in PoolCall
      <3>1. CASE P!Goto("error")
        BY <1>g, <3>1 DEF PoolAt, P!Answers
      <3>2. CASE poolCall' = [poolCall EXCEPT !.sum = 0, !.free = 0, !.all = 0, !.fee = 0]
        <4>1. 0 \in P!Read
          BY PoolConstants
        <4> QED
          BY <1>0, <3>2, <4>1 DEF PoolCall
      <3> QED
        BY <1>8, <3>1, <3>2 DEF P!ReadFails
    <2> QED
      BY <1>0, <1>8, <1>c, <2>1 DEF P!ReadFails, Blind
  <1>9. CASE P!Considered
    <2>1. poolCall' \in PoolCall
      <3>1. \/ \E pc \in {"ok", "tooFew", "worth", "build"} : P!Goto(pc)
            \/ poolCall' = [poolCall EXCEPT !.at = "ok", !.worth = 0]
            \/ poolCall.op = "summary" /\ poolCall' = [poolCall EXCEPT !.at = "worth", !.arg = poolCall.own]
        BY <1>9 DEF P!Considered
      <3>2. poolCall.op = "summary" => poolCall.own \in P!Figure
        BY <1>0, <1>9, PoolConstants DEF P!Considered, P!UsesOwn, PoolCall
      <3>3. "ok" \in PoolAt /\ "tooFew" \in PoolAt /\ "worth" \in PoolAt /\ "build" \in PoolAt
        BY DEF PoolAt, P!Answers
      <3>4. CASE \E pc \in {"ok", "tooFew", "worth", "build"} : P!Goto(pc)
        BY <1>g, <3>3, <3>4
      <3>5. CASE poolCall' = [poolCall EXCEPT !.at = "ok", !.worth = 0]
        BY <1>0, <3>3, <3>5 DEF PoolCall
      <3>6. CASE poolCall.op = "summary" /\ poolCall' = [poolCall EXCEPT !.at = "worth", !.arg = poolCall.own]
        BY <1>0, <3>2, <3>3, <3>6 DEF PoolCall
      <3> QED
        BY <3>1, <3>4, <3>5, <3>6
    <2> QED
      BY <1>0, <1>9, <1>c, <2>1 DEF P!Considered
  <1>10. CASE P!AskWorth
    <2>1. poolCall.arg \in Nat
      BY <1>0, PoolConstants DEF PoolCall
    <2>2. P!PaysFor(poolCall.arg) \in Nat /\ P!MintsFor(poolCall.arg) \in Nat
      BY <1>0, <2>1, PoolFacts
    <2>3. CASE poolCall' = [poolCall EXCEPT !.again = TRUE]
      <3>1. poolCall' \in PoolCall
        BY <1>0, <2>3 DEF PoolCall
      <3> QED
        BY <1>0, <1>10, <1>c, <3>1 DEF P!AskWorth
    <2>4. CASE P!Valued(IF poolCall.op = "deposit" THEN P!MintsFor(poolCall.arg) ELSE P!PaysFor(poolCall.arg))
      <3>1. poolCall' \in PoolCall
        BY <1>0, <2>2, <2>4, ValuedEffect
      <3> QED
        BY <1>0, <1>10, <1>c, <3>1 DEF P!AskWorth
    <2> QED
      BY <1>10, <2>3, <2>4 DEF P!AskWorth
  <1>11. CASE P!ReadAgain
    <2>1. poolCall' \in PoolCall
      <3>1. CASE P!Goto("error")
        BY <1>g, <3>1 DEF PoolAt, P!Answers
      <3> QED
        BY <1>0, <1>11, <3>1, PoolFacts, PoolConstants DEF P!ReadAgain, PoolCall
    <2> QED
      BY <1>0, <1>11, <1>c, <2>1 DEF P!ReadAgain
  <1>12. CASE P!ComputeWorth
    <2>1. poolCall' \in PoolCall
      BY <1>0, <1>12, ValuedEffect, ComputedFigures DEF P!ComputeWorth
    <2> QED
      BY <1>0, <1>12, <1>c, <2>1 DEF P!ComputeWorth
  <1>13. CASE P!Build
    <2>1. poolCall' \in PoolCall
      BY <1>13, <1>g DEF P!Build, PoolAt, P!Answers
    <2> QED
      BY <1>0, <1>13, <1>c, <2>1 DEF P!Build
  <1>14. CASE UNCHANGED P!vars
    BY <1>0, <1>14, <1>c DEF P!vars
  <1> QED
    BY <1>1, <1>2, <1>3, <1>4, <1>5, <1>6, <1>7, <1>8, <1>9, <1>10, <1>11, <1>12, <1>13, <1>14 DEF P!Next, Moves

\* Every variable stays within its type: shares and liquidity never fall below zero, and
\* no more is lent than the pool holds.
LEMMA PoolTypes == P!Spec => []P!TypeOK
  <1>1. P!Init => P!TypeOK
    <2> SUFFICES ASSUME P!Init PROVE P!TypeOK
      OBVIOUS
    <2>1. PoolOK
      BY PoolConstants DEF P!Init, PoolOK
    <2>2. poolCall \in PoolCall /\ moved \in 0 .. MaxMoves /\ blind \in Blind
      <3>1. poolCall = P!NoCall /\ moved = 0 /\ blind = {}
        BY DEF P!Init
      <3>2. 0 \in 0 .. MaxMoves /\ {} \in Blind
        BY PoolConstants DEF Blind
      <3> QED
        BY <3>1, <3>2, NoPoolCall
    <2> QED
      BY <2>1, <2>2, PoolTypeSplit
  <1> QED
    BY <1>1, PoolTypeStep, PTL DEF P!Spec

-----------------------------------------------------------------------------
\* What is shown of the pool is what is there

\* While the pool stands still, what has been read is what is there, but for what an
\* error was counted as 0 for.
Figures ==
  /\ IF "own" \in blind THEN poolCall.own = 0 ELSE poolCall.own \in {P!Unread, mine}
  /\ IF "stats" \in blind THEN poolCall.op = "overview"
     ELSE /\ poolCall.sum \in {P!Unread, liquidity} /\ poolCall.free \in {P!Unread, P!Available}
          /\ poolCall.all \in {P!Unread, shares}
  /\ "fee" \in blind => poolCall.fee = 0
  /\ {"fee", "stats"} \cap blind = {} => poolCall.fee \in {P!Unread, FeeBps}
  /\ poolCall.sum2 \in {P!Unread, liquidity} /\ poolCall.all2 \in {P!Unread, shares}

\* Nothing is decided before it has been read.
Decided ==
  poolCall.at # "read" =>
    /\ poolCall.op \in {"withdraw", "summary"} => poolCall.own # P!Unread
    /\ poolCall.op \in {"withdraw", "summary", "overview", "sponsorPool"} => P!StatsRead

Withdrawal ==
  /\ poolCall.at \in {"worth", "build", "ok", "tooLittle"} => ~P!TooFew
  /\ poolCall.at = "tooFew" => P!TooFew
  /\ poolCall.at \in {"build", "ok", "tooLittle"} => poolCall.worth = P!PaysFor(poolCall.arg)
  /\ poolCall.at \in {"build", "ok"} => poolCall.worth <= P!Available
  /\ poolCall.at = "tooLittle" => poolCall.worth > P!Available

Summary ==
  /\ poolCall.at \notin {"tooFew", "build", "tooLittle"}
  /\ poolCall.at = "worth" => poolCall.arg = poolCall.own
  /\ poolCall.at = "ok" => poolCall.worth = P!PaysFor(poolCall.own)

Minting ==
  /\ poolCall.worth \in {P!Unread, P!MintsFor(poolCall.arg)}
  /\ poolCall.at \in {"build", "ok"} => poolCall.worth # P!Unread

Exactly ==
  /\ Figures /\ Decided
  /\ poolCall.op = "withdraw" => Withdrawal
  /\ poolCall.op = "summary" => Summary
  /\ poolCall.op = "deposit" => Minting

Underway == moved = 0 /\ poolCall.at \in {"read", "worth", "build", "ok", "tooFew", "tooLittle"}

\* The pool has not stood still for what lies in the cache.
Exact == (Underway => Exactly) /\ (poolCall.at = "kept" => moved # 0)

LEMMA ExactStep == P!TypeOK /\ Exact /\ [P!Next]_(P!vars) => Exact'
  <1> SUFFICES ASSUME P!TypeOK, Exact, [P!Next]_(P!vars) PROVE Exact'
    OBVIOUS
  <1>0. PoolOK /\ poolCall \in PoolCall /\ moved \in 0 .. MaxMoves /\ blind \in Blind
    BY PoolTypeSplit
  <1>n. /\ liquidity \in Nat /\ shares \in Nat /\ mine \in Nat /\ P!Available \in Nat
        /\ P!Unread # liquidity /\ P!Unread # shares /\ P!Unread # mine /\ P!Unread # P!Available /\ P!Unread # 0
        /\ P!PaysFor(0) = 0 /\ \A x \in Nat : P!PaysFor(x) \in Nat /\ P!MintsFor(x) \in Nat
        /\ poolCall.arg \in Nat
    <2>1. poolCall.arg \in Nat
      BY <1>0, PoolConstants DEF PoolCall
    <2> QED
      BY <1>0, <2>1, PoolFacts, PoolConstants
  \* A call goes on while the pool stands still.
  <1>c. ASSUME UNCHANGED <<P!pool, moved>>
        PROVE  /\ liquidity' = liquidity /\ shares' = shares /\ mine' = mine /\ P!Available' = P!Available /\ moved' = moved
               /\ \A x : P!PaysFor(x)' = P!PaysFor(x) /\ P!MintsFor(x)' = P!MintsFor(x)
    BY <1>c DEF P!pool, P!Available, P!PaysFor, P!MintsFor
  \* An answer that is none of the pool.
  <1>e. ASSUME NEW pc \in {"error", "rejected", "invalid", "idle"}, poolCall'.at = pc PROVE Exact'
    BY <1>e DEF Exact, Underway
  <1>g. ASSUME NEW pc, P!Goto(pc)
        PROVE  /\ poolCall'.at = pc /\ poolCall'.op = poolCall.op /\ poolCall'.arg = poolCall.arg /\ poolCall'.own = poolCall.own
               /\ poolCall'.sum = poolCall.sum /\ poolCall'.free = poolCall.free /\ poolCall'.all = poolCall.all /\ poolCall'.fee = poolCall.fee
               /\ poolCall'.sum2 = poolCall.sum2 /\ poolCall'.all2 = poolCall.all2 /\ poolCall'.worth = poolCall.worth
    BY <1>0, <1>g DEF P!Goto, PoolCall
  \* A step that only reads: what it reads is what is there.
  <1>r. ASSUME UNCHANGED <<P!pool, moved>>, moved = 0, poolCall.at \in {"read", "worth"}, Exactly,
               poolCall'.at = poolCall.at, poolCall'.op = poolCall.op, poolCall'.arg = poolCall.arg, poolCall'.worth = poolCall.worth,
               poolCall.at = "worth" => /\ poolCall'.own = poolCall.own /\ poolCall'.sum = poolCall.sum /\ poolCall'.free = poolCall.free
                                   /\ poolCall'.all = poolCall.all /\ poolCall'.fee = poolCall.fee,
               Figures'
        PROVE  Exact'
    <2>1. Decided'
      BY <1>r DEF Exactly, Decided, P!StatsRead
    <2>2. poolCall.op = "withdraw" => Withdrawal'
      BY <1>c, <1>r DEF Exactly, Withdrawal, P!TooFew
    <2>3. poolCall.op = "summary" => Summary'
      BY <1>c, <1>r DEF Exactly, Summary
    <2>4. poolCall.op = "deposit" => Minting'
      BY <1>c, <1>r DEF Exactly, Minting
    <2>5. Exactly'
      BY <1>r, <2>1, <2>2, <2>3, <2>4 DEF Exactly
    <2> QED
      BY <1>r, <2>5 DEF Exact
  <1>1. CASE Moves
    <2>1. P!Land
      BY <1>1, MovesFacts
    <2>2. CASE poolCall' = P!NoCall
      BY <1>e, <2>2, NoPoolCall
    <2>3. CASE poolCall' # P!NoCall
      <3>1. moved' \in {MaxMoves, moved + 1} /\ moved' # 0
        BY <1>0, <2>1, <2>3, PoolConstants DEF P!Land
      <3> QED
        BY <3>1 DEF Exact, Underway
    <2> QED
      BY <2>2, <2>3
  <1>2. CASE P!Start
    <2>1. PICK op \in P!Ops, n \in P!Figure, pc \in {"invalid", "build", "read"} :
            /\ poolCall' = [P!NoCall EXCEPT !.op = op, !.arg = n, !.at = pc]
            /\ pc = "build" => op \in {"sponsorDeposit", "sponsorWithdraw"}
      BY <1>2 DEF P!Start
    <2>2. UNCHANGED P!pool /\ moved' = 0 /\ blind' = {}
      BY <1>2 DEF P!Start
    <2>3. /\ poolCall'.at = pc /\ poolCall'.op = op /\ poolCall'.own = P!Unread /\ poolCall'.worth = P!Unread
          /\ poolCall'.sum = P!Unread /\ poolCall'.free = P!Unread /\ poolCall'.all = P!Unread /\ poolCall'.fee = P!Unread
          /\ poolCall'.sum2 = P!Unread /\ poolCall'.all2 = P!Unread
      BY <2>1 DEF P!NoCall
    <2>4. Figures'
      BY <2>2, <2>3 DEF Figures
    <2>5. CASE pc = "invalid"
      BY <1>e, <2>3, <2>5
    <2>6. CASE pc \in {"read", "build"}
      <3>1. Decided' /\ (op = "withdraw" => Withdrawal') /\ (op = "summary" => Summary') /\ (op = "deposit" => Minting')
        BY <2>1, <2>3, <2>6 DEF Decided, Withdrawal, Summary, Minting
      <3> QED
        BY <2>3, <2>4, <2>6, <3>1 DEF Exact, Exactly
    <2> QED
      BY <2>5, <2>6
  <1>3. CASE P!CacheHit
    <2>1. moved' = moved /\ poolCall.at = "kept" /\ P!Goto("ok")
      BY <1>3 DEF P!CacheHit
    <2>2. moved' # 0
      BY <2>1 DEF Exact
    <2> QED
      BY <2>2 DEF Exact, Underway
  <1>4. CASE P!CacheFails
    BY <1>4, <1>e, <1>g DEF P!CacheFails
  \* The readings.
  <1>5. ASSUME UNCHANGED <<P!pool, moved>>, poolCall.at \in {"read", "worth"},
               poolCall'.at = poolCall.at, poolCall'.op = poolCall.op, poolCall'.arg = poolCall.arg, poolCall'.worth = poolCall.worth,
               poolCall.at = "worth" /\ Exactly =>
                  /\ poolCall'.own = poolCall.own /\ poolCall'.sum = poolCall.sum /\ poolCall'.free = poolCall.free
                  /\ poolCall'.all = poolCall.all /\ poolCall'.fee = poolCall.fee,
               Figures => Figures'
        PROVE  Exact'
    <2>1. CASE moved = 0
      <3>1. Exactly /\ Figures
        BY <1>5, <2>1 DEF Exact, Underway, Exactly
      <3> QED
        BY <1>5, <1>r, <2>1, <3>1
    <2>2. CASE moved # 0
      BY <1>5, <2>2 DEF Exact, Underway
    <2> QED
      BY <2>1, <2>2
  <1>6. CASE P!ReadOwn
    <2>0. UNCHANGED <<P!pool, moved>> /\ poolCall.at = "read" /\ poolCall.own = P!Unread
      BY <1>6 DEF P!ReadOwn, P!Pending
    <2>1. CASE P!Goto("error")
      BY <1>e, <1>g, <2>1
    <2>2. ASSUME NEW own, poolCall' = [poolCall EXCEPT !.own = own],
                 (own = mine /\ blind' = blind) \/ (own = 0 /\ blind' = blind \cup {"own"})
          PROVE  Exact'
      <3>1. /\ poolCall'.at = poolCall.at /\ poolCall'.op = poolCall.op /\ poolCall'.arg = poolCall.arg /\ poolCall'.own = own
            /\ poolCall'.sum = poolCall.sum /\ poolCall'.free = poolCall.free /\ poolCall'.all = poolCall.all /\ poolCall'.fee = poolCall.fee
            /\ poolCall'.sum2 = poolCall.sum2 /\ poolCall'.all2 = poolCall.all2 /\ poolCall'.worth = poolCall.worth
        BY <1>0, <2>2 DEF PoolCall
      <3>2. ("stats" \in blind' <=> "stats" \in blind) /\ ("fee" \in blind' <=> "fee" \in blind)
        BY <2>2
      <3>3. ASSUME Figures PROVE Figures'
        <4>1. "own" \notin blind
          BY <1>n, <2>0, <3>3 DEF Figures
        <4>2. IF "own" \in blind' THEN own = 0 ELSE own = mine
          BY <2>2, <4>1
        <4> QED
          BY <1>c, <2>0, <3>1, <3>2, <3>3, <4>2 DEF Figures
      <3> QED
        BY <1>5, <2>0, <3>1, <3>3
    <2> QED
      BY <1>6, <2>1, <2>2 DEF P!ReadOwn
  <1>7. CASE P!ReadStats
    <2>0. /\ UNCHANGED <<P!pool, moved, blind>> /\ poolCall.at = "read"
          /\ poolCall.sum = P!Unread /\ poolCall.free = P!Unread /\ poolCall.all = P!Unread
      BY <1>7 DEF P!ReadStats, P!Pending
    <2>1. /\ poolCall'.at = poolCall.at /\ poolCall'.op = poolCall.op /\ poolCall'.arg = poolCall.arg /\ poolCall'.own = poolCall.own
          /\ poolCall'.fee = poolCall.fee
          /\ poolCall'.sum2 = poolCall.sum2 /\ poolCall'.all2 = poolCall.all2 /\ poolCall'.worth = poolCall.worth
          /\ poolCall'.sum \in {poolCall.sum, liquidity} /\ poolCall'.free \in {poolCall.free, P!Available} /\ poolCall'.all \in {poolCall.all, shares}
      BY <1>0, <1>7 DEF P!ReadStats, PoolCall
    <2>2. Figures => Figures'
      BY <1>c, <2>0, <2>1 DEF Figures
    <2> QED
      BY <1>5, <2>0, <2>1, <2>2
  <1>8. ASSUME NEW f \in {"sum", "free", "all"}, NEW value, P!ReadFigure(f, value),
               value = CASE f = "sum" -> liquidity [] f = "free" -> P!Available [] f = "all" -> shares
        PROVE  Exact'
    <2>0. UNCHANGED <<P!pool, moved, blind>> /\ poolCall.at = "read"
      BY <1>8 DEF P!ReadFigure, P!Pending
    <2>1. /\ poolCall'.at = poolCall.at /\ poolCall'.op = poolCall.op /\ poolCall'.arg = poolCall.arg /\ poolCall'.own = poolCall.own
          /\ poolCall'.fee = poolCall.fee
          /\ poolCall'.sum2 = poolCall.sum2 /\ poolCall'.all2 = poolCall.all2 /\ poolCall'.worth = poolCall.worth
          /\ poolCall'.sum \in {poolCall.sum, liquidity} /\ poolCall'.free \in {poolCall.free, P!Available} /\ poolCall'.all \in {poolCall.all, shares}
      BY <1>0, <1>8 DEF P!ReadFigure, PoolCall
    <2>2. Figures => Figures'
      BY <1>c, <2>0, <2>1 DEF Figures
    <2> QED
      BY <1>5, <2>0, <2>1, <2>2
  <1>9. CASE P!ReadFee
    <2>0. UNCHANGED <<P!pool, moved>> /\ poolCall.at = "read" /\ poolCall.fee = P!Unread
      BY <1>9 DEF P!ReadFee, P!Pending
    <2>1. PICK fee : /\ poolCall' = [poolCall EXCEPT !.fee = fee]
                     /\ (fee = FeeBps /\ blind' = blind) \/ (fee = 0 /\ blind' = blind \cup {"fee"})
      BY <1>9 DEF P!ReadFee
    <2>2. /\ poolCall'.at = poolCall.at /\ poolCall'.op = poolCall.op /\ poolCall'.arg = poolCall.arg /\ poolCall'.own = poolCall.own
          /\ poolCall'.sum = poolCall.sum /\ poolCall'.free = poolCall.free /\ poolCall'.all = poolCall.all /\ poolCall'.fee = fee
          /\ poolCall'.sum2 = poolCall.sum2 /\ poolCall'.all2 = poolCall.all2 /\ poolCall'.worth = poolCall.worth
      BY <1>0, <2>1 DEF PoolCall
    <2>3. ("stats" \in blind' <=> "stats" \in blind) /\ ("own" \in blind' <=> "own" \in blind)
      BY <2>1
    <2>4. ASSUME Figures PROVE Figures'
      <3>1. "fee" \notin blind
        BY <1>n, <2>0, <2>4 DEF Figures
      <3>2. ("fee" \in blind' => fee = 0) /\ ("fee" \notin blind' => fee = FeeBps)
        BY <2>1, <3>1
      <3> QED
        BY <1>c, <2>0, <2>2, <2>3, <2>4, <3>2 DEF Figures
    <2> QED
      BY <1>5, <2>0, <2>2, <2>4
  <1>10. CASE P!ReadFails
    <2>0. UNCHANGED <<P!pool, moved>> /\ poolCall.at = "read"
      BY <1>10 DEF P!ReadFails
    <2>1. CASE P!Goto("error")
      BY <1>e, <1>g, <2>1
    <2>2. CASE /\ poolCall.op = "overview" /\ blind' = blind \cup {"stats"}
               /\ poolCall' = [poolCall EXCEPT !.sum = 0, !.free = 0, !.all = 0, !.fee = 0]
      <3>1. /\ poolCall'.at = poolCall.at /\ poolCall'.op = poolCall.op /\ poolCall'.arg = poolCall.arg /\ poolCall'.own = poolCall.own
            /\ poolCall'.fee = 0
            /\ poolCall'.sum2 = poolCall.sum2 /\ poolCall'.all2 = poolCall.all2 /\ poolCall'.worth = poolCall.worth
        BY <1>0, <2>2 DEF PoolCall
      <3>2. "stats" \in blind' /\ ("own" \in blind' <=> "own" \in blind)
        BY <2>2
      <3>3. Figures => Figures'
        BY <1>c, <2>0, <2>2, <3>1, <3>2 DEF Figures
      <3> QED
        BY <1>5, <2>0, <3>1, <3>3
    <2> QED
      BY <1>10, <2>1, <2>2 DEF P!ReadFails
  <1>11. CASE P!ReadAgain
    <2>0. UNCHANGED <<P!pool, moved, blind>> /\ poolCall.at \in {"read", "worth"}
      BY <1>11 DEF P!ReadAgain, P!Converts
    <2>1. CASE P!Goto("error")
      BY <1>e, <1>g, <2>1
    <2>2. CASE ~P!Goto("error")
      <3>1. /\ poolCall'.at = poolCall.at /\ poolCall'.op = poolCall.op /\ poolCall'.arg = poolCall.arg /\ poolCall'.own = poolCall.own
            /\ poolCall'.sum = poolCall.sum /\ poolCall'.free = poolCall.free /\ poolCall'.all = poolCall.all /\ poolCall'.fee = poolCall.fee
            /\ poolCall'.worth = poolCall.worth
            /\ poolCall'.sum2 \in {poolCall.sum2, liquidity} /\ poolCall'.all2 \in {poolCall.all2, shares}
        BY <1>0, <1>11, <2>2 DEF P!ReadAgain, PoolCall
      <3>2. Figures => Figures'
        BY <1>c, <2>0, <3>1 DEF Figures
      <3> QED
        BY <1>5, <2>0, <3>1, <3>2
    <2> QED
      BY <2>1, <2>2
  <1>12. CASE P!Considered
    <2>0. /\ UNCHANGED <<P!pool, moved, blind>> /\ poolCall.at = "read" /\ P!StatsRead
          /\ poolCall.op \in {"withdraw", "summary"} => poolCall.own # P!Unread
          /\ poolCall.op = "deposit" => poolCall.worth # P!Unread
      BY <1>12 DEF P!Considered, P!UsesOwn
    <2>a. poolCall'.at # "kept"
      <3>1. \/ \E pc \in {"ok", "tooFew", "worth", "build"} : P!Goto(pc)
            \/ poolCall' = [poolCall EXCEPT !.at = "ok", !.worth = 0]
            \/ poolCall' = [poolCall EXCEPT !.at = "worth", !.arg = poolCall.own]
        BY <1>12 DEF P!Considered
      <3>2. ASSUME NEW pc \in {"ok", "tooFew", "worth", "build"}, P!Goto(pc) PROVE poolCall'.at # "kept"
        BY <1>g, <3>2
      <3> QED
        BY <1>0, <3>1, <3>2 DEF PoolCall
    <2>1. SUFFICES ASSUME Underway' PROVE Exactly'
      BY <2>a DEF Exact
    <2>2. Exactly
      BY <2>0, <2>1 DEF Exact, Underway
    <2>3. /\ poolCall'.op = poolCall.op /\ poolCall'.own = poolCall.own /\ poolCall'.fee = poolCall.fee
          /\ poolCall'.sum = poolCall.sum /\ poolCall'.free = poolCall.free /\ poolCall'.all = poolCall.all
          /\ poolCall'.sum2 = poolCall.sum2 /\ poolCall'.all2 = poolCall.all2
          /\ poolCall.op # "summary" => poolCall'.worth = poolCall.worth /\ poolCall'.arg = poolCall.arg
      BY <1>0, <1>12, <1>g DEF P!Considered, PoolCall
    <2>4. Figures' /\ Decided'
      BY <1>c, <2>0, <2>2, <2>3 DEF Exactly, Figures, Decided, P!StatsRead
    <2>5. poolCall.op = "withdraw" => Withdrawal'
      <3>1. poolCall.op = "withdraw" => /\ P!TooFew => poolCall'.at = "tooFew"
                                        /\ ~P!TooFew => poolCall'.at = "worth"
        BY <1>12, <1>g DEF P!Considered
      <3>2. poolCall.op = "withdraw" => (P!TooFew' <=> P!TooFew)
        BY <2>3 DEF P!TooFew
      <3> QED
        BY <3>1, <3>2 DEF Withdrawal
    <2>6. poolCall.op = "summary" => Summary'
      <3>1. CASE poolCall.op = "summary" /\ poolCall.own = 0
        <4>1. poolCall' = [poolCall EXCEPT !.at = "ok", !.worth = 0]
          BY <1>12, <3>1 DEF P!Considered
        <4>2. poolCall'.at = "ok" /\ poolCall'.worth = 0
          BY <1>0, <4>1 DEF PoolCall
        <4> QED
          BY <1>c, <1>n, <2>0, <2>3, <3>1, <4>2 DEF Summary
      <3>2. CASE poolCall.op = "summary" /\ poolCall.own # 0
        <4>1. poolCall' = [poolCall EXCEPT !.at = "worth", !.arg = poolCall.own]
          BY <1>12, <3>2 DEF P!Considered
        <4>2. poolCall'.at = "worth" /\ poolCall'.arg = poolCall.own
          BY <1>0, <4>1 DEF PoolCall
        <4> QED
          BY <2>3, <4>2 DEF Summary
      <3> QED
        BY <3>1, <3>2
    <2>7. poolCall.op = "deposit" => Minting'
      BY <1>c, <2>0, <2>2, <2>3 DEF Exactly, Minting
    <2> QED
      BY <2>3, <2>4, <2>5, <2>6, <2>7 DEF Exactly
  \* The conversion, however it was made.
  <1>v. ASSUME NEW worth \in Nat, P!Valued(worth), UNCHANGED <<P!pool, moved, blind>>, P!Converts,
               Exactly => worth = IF poolCall.op = "deposit" THEN P!MintsFor(poolCall.arg) ELSE P!PaysFor(poolCall.arg)
        PROVE  Exact'
    <2>0. poolCall.at \in {"read", "worth"} /\ (poolCall.at = "read" => poolCall.op = "deposit")
      BY <1>v DEF P!Converts
    <2>1. /\ poolCall'.worth = worth /\ poolCall'.op = poolCall.op /\ poolCall'.arg = poolCall.arg /\ poolCall'.own = poolCall.own
          /\ poolCall'.sum = poolCall.sum /\ poolCall'.free = poolCall.free /\ poolCall'.all = poolCall.all /\ poolCall'.fee = poolCall.fee
          /\ poolCall'.sum2 = P!Unread /\ poolCall'.all2 = P!Unread
          /\ poolCall.op = "summary" => poolCall'.at = "ok"
          /\ poolCall.op = "withdraw" => poolCall'.at = IF worth > poolCall.free THEN "tooLittle" ELSE "build"
          /\ poolCall.op \notin {"summary", "withdraw"} => poolCall'.at = "read"
      BY <1>0, <1>v, ValuedEffect
    <2>2. SUFFICES ASSUME Underway' PROVE Exactly'
      BY <2>1 DEF Exact
    <2>3. Exactly /\ worth = IF poolCall.op = "deposit" THEN P!MintsFor(poolCall.arg) ELSE P!PaysFor(poolCall.arg)
      BY <1>v, <2>0, <2>2 DEF Exact, Underway
    <2>4. Figures'
      BY <1>c, <1>v, <2>1, <2>3 DEF Exactly, Figures
    <2>5. Decided'
      BY <2>0, <2>1, <2>3 DEF Exactly, Decided, P!StatsRead
    <2>6. ASSUME poolCall.op = "withdraw" PROVE Withdrawal'
      <3>1. poolCall.free = P!Available /\ ~P!TooFew
        <4>1. poolCall.free # P!Unread
          BY <2>0, <2>3, <2>6 DEF Exactly, Decided, P!StatsRead
        <4>2. "stats" \notin blind /\ ~P!TooFew
          BY <2>0, <2>3, <2>6 DEF Exactly, Figures, Withdrawal
        <4> QED
          BY <2>3, <4>1, <4>2 DEF Exactly, Figures
      <3>2. ~P!TooFew'
        BY <2>1, <3>1 DEF P!TooFew
      <3>3. poolCall'.at = IF worth > P!Available THEN "tooLittle" ELSE "build"
        BY <2>1, <2>6, <3>1
      <3>4. poolCall'.worth = worth /\ worth = P!PaysFor(poolCall.arg)' /\ P!Available' = P!Available
        BY <1>c, <1>v, <2>1, <2>3, <2>6
      <3> QED
        BY <1>n, <3>2, <3>3, <3>4 DEF Withdrawal
    <2>7. poolCall.op = "summary" => Summary'
      BY <1>c, <1>v, <2>0, <2>1, <2>3 DEF Exactly, Summary
    <2>8. poolCall.op = "deposit" => Minting'
      BY <1>c, <1>v, <2>1, <2>3 DEF Minting
    <2> QED
      BY <2>1, <2>4, <2>5, <2>6, <2>7, <2>8 DEF Exactly
  <1>13. CASE P!AskWorth
    <2>0. UNCHANGED <<P!pool, moved, blind>> /\ poolCall.at \in {"read", "worth"} /\ P!Converts
      BY <1>13 DEF P!AskWorth, P!Converts
    <2>1. CASE poolCall' = [poolCall EXCEPT !.again = TRUE]
      <3>1. /\ poolCall'.at = poolCall.at /\ poolCall'.op = poolCall.op /\ poolCall'.arg = poolCall.arg /\ poolCall'.own = poolCall.own
            /\ poolCall'.sum = poolCall.sum /\ poolCall'.free = poolCall.free /\ poolCall'.all = poolCall.all /\ poolCall'.fee = poolCall.fee
            /\ poolCall'.sum2 = poolCall.sum2 /\ poolCall'.all2 = poolCall.all2 /\ poolCall'.worth = poolCall.worth
        BY <1>0, <2>1 DEF PoolCall
      <3>2. Figures => Figures'
        BY <1>c, <2>0, <3>1 DEF Figures
      <3> QED
        BY <1>5, <2>0, <3>1, <3>2
    <2>2. CASE P!Valued(IF poolCall.op = "deposit" THEN P!MintsFor(poolCall.arg) ELSE P!PaysFor(poolCall.arg))
      BY <1>n, <1>v, <2>0, <2>2
    <2> QED
      BY <1>13, <2>1, <2>2 DEF P!AskWorth
  <1>14. CASE P!ComputeWorth
    <2>0. /\ UNCHANGED <<P!pool, moved, blind>> /\ P!Converts /\ P!Unread \notin {poolCall.sum2, poolCall.all2}
          /\ P!Valued(IF poolCall.op = "deposit" THEN P!FallbackShares ELSE P!FallbackAmount)
      BY <1>14 DEF P!ComputeWorth
    <2>1. P!FallbackAmount \in Nat /\ P!FallbackShares \in Nat
      BY <1>0, <2>0, ComputedFigures
    <2>2. Exactly => P!FallbackAmount = P!PaysFor(poolCall.arg) /\ P!FallbackShares = P!MintsFor(poolCall.arg)
      <3>1. Exactly => poolCall.sum2 = liquidity /\ poolCall.all2 = shares
        BY <2>0 DEF Exactly, Figures
      <3> QED
        BY <3>1 DEF P!FallbackAmount, P!FallbackShares, P!PaysFor, P!MintsFor
    <2> QED
      BY <1>v, <2>0, <2>1, <2>2
  <1>15. CASE P!Build
    <2>0. UNCHANGED <<P!pool, moved, blind>> /\ poolCall.at = "build"
      BY <1>15 DEF P!Build
    <2>1. CASE P!Goto("rejected")
      BY <1>e, <1>g, <2>1
    <2>2. CASE P!Goto("ok")
      <3>1. /\ poolCall'.at = "ok" /\ poolCall'.op = poolCall.op /\ poolCall'.arg = poolCall.arg /\ poolCall'.own = poolCall.own
            /\ poolCall'.sum = poolCall.sum /\ poolCall'.free = poolCall.free /\ poolCall'.all = poolCall.all /\ poolCall'.fee = poolCall.fee
            /\ poolCall'.sum2 = poolCall.sum2 /\ poolCall'.all2 = poolCall.all2 /\ poolCall'.worth = poolCall.worth
        BY <1>g, <2>2
      <3>2. SUFFICES ASSUME Underway' PROVE Exactly'
        BY <3>1 DEF Exact
      <3>3. Exactly
        BY <1>c, <2>0, <3>2 DEF Exact, Underway
      <3>4. Figures' /\ Decided'
        BY <1>c, <2>0, <3>1, <3>3 DEF Exactly, Figures, Decided, P!StatsRead
      <3>5. poolCall.op = "withdraw" => Withdrawal'
        BY <1>c, <2>0, <3>1, <3>3 DEF Exactly, Withdrawal, P!TooFew
      <3>6. poolCall.op # "summary"
        BY <2>0, <3>3 DEF Exactly, Summary
      <3>7. poolCall.op = "deposit" => Minting'
        BY <1>c, <2>0, <3>1, <3>3 DEF Exactly, Minting
      <3> QED
        BY <3>1, <3>4, <3>5, <3>6, <3>7 DEF Exactly
    <2> QED
      BY <1>15, <2>1, <2>2 DEF P!Build
  <1>16. CASE UNCHANGED P!vars
    <2>1. UNCHANGED <<P!pool, moved, blind, poolCall>>
      BY <1>16 DEF P!vars
    <2>2. poolCall' = poolCall /\ blind' = blind
      BY <2>1
    <2>3. Exactly => Figures' /\ Decided'
      BY <1>c, <2>1, <2>2 DEF Exactly, Figures, Decided, P!StatsRead
    <2>4. Exactly => Exactly'
      BY <1>c, <2>1, <2>2, <2>3 DEF Exactly, Withdrawal, Summary, Minting, P!TooFew
    <2> QED
      BY <2>1, <2>4 DEF Exact, Underway
  <1> QED
    BY <1>1, <1>2, <1>3, <1>4, <1>6, <1>7, <1>8, <1>9, <1>10, <1>11, <1>12, <1>13, <1>14, <1>15, <1>16 DEF P!Next, Moves

\* Whichever of the contract's methods answered, and whatever had to be computed: as long
\* as no transaction has landed, during the call or while its answer lay in the cache, a
\* withdrawal is offered exactly when the pool would pay it, with its amount, fee and
\* remainder, and a summary and an overview show what is there (QuoteIsExact), for a pool
\* and a fee of any size; an error counted as 0 changes the figure that it hid, and no other.
THEOREM QuoteTheorem == Spec => []QuoteIsExact
  <1>1. P!Init => Exact
    BY DEF P!Init, P!NoCall, Exact, Underway
  <1>2. P!TypeOK /\ Exact => P!QuoteIsExact
    <2> SUFFICES ASSUME P!TypeOK, Exact, P!Ended PROVE P!QuoteIsExact
      BY DEF P!QuoteIsExact
    <2>0. poolCall.at \in {"ok", "tooFew", "tooLittle"} /\ Exactly
      BY DEF P!Ended, Exact, Underway
    <2>a. Figures /\ poolCall.fee \in {P!Unread, 0, FeeBps}
      BY <2>0, PoolTypeSplit DEF Exactly, PoolCall
    <2>b. /\ mine \in Nat /\ P!Available \in Nat /\ poolCall.arg \in Nat
          /\ P!PaysFor(poolCall.arg) \in Nat /\ poolCall.own \in Int /\ 0 # P!Unread
      <3>1. PoolOK /\ poolCall.arg \in P!Figure /\ poolCall.own \in P!Read
        BY PoolTypeSplit DEF PoolCall
      <3>2. poolCall.arg \in Nat /\ poolCall.own \in Int /\ 0 # P!Unread
        BY <3>1, PoolConstants
      <3> QED
        BY <3>1, <3>2, PoolFacts, PoolConstants
    \* All that the operation uses has been read.
    <2>c. poolCall.op \in {"withdraw", "summary", "overview", "sponsorPool"} => P!StatsRead
      BY <2>0 DEF Exactly, Decided
    <2>d. poolCall.op \in {"withdraw", "summary"} => poolCall.own = IF "own" \in blind THEN 0 ELSE mine
      BY <2>0, <2>a DEF Exactly, Decided, Figures
    <2>1. poolCall.op = "withdraw" /\ "own" \notin blind
            => (poolCall.at = "ok" <=> 0 < mine /\ poolCall.arg <= mine /\ P!PaysFor(poolCall.arg) <= P!Available)
      BY <2>0, <2>b, <2>d DEF Exactly, Withdrawal, P!TooFew
    <2>2. poolCall.op = "withdraw" /\ poolCall.at # "tooFew" => poolCall.worth = P!PaysFor(poolCall.arg)
      BY <2>0 DEF Exactly, Withdrawal
    <2>3. ASSUME poolCall.op = "withdraw", poolCall.at = "ok"
          PROVE  LET fee == IF "fee" \in blind THEN 0 ELSE P!FeeOf(P!PaysFor(poolCall.arg)) IN
                 P!ShownFee = fee /\ P!ShownNet = P!PaysFor(poolCall.arg) - fee
      <3>1. poolCall.worth = P!PaysFor(poolCall.arg)
        BY <2>2, <2>3
      <3>2. poolCall.fee = IF "fee" \in blind THEN 0 ELSE FeeBps
        BY <2>a, <2>c, <2>3 DEF Figures, P!StatsRead
      <3>3. P!ShownFee = IF "fee" \in blind THEN 0 ELSE P!FeeOf(P!PaysFor(poolCall.arg))
        <4>1. CASE "fee" \in blind
          <5>1. P!ShownFee = (P!PaysFor(poolCall.arg) * 0) \div Scale
            BY <3>1, <3>2, <4>1 DEF P!ShownFee
          <5>2. P!PaysFor(poolCall.arg) * 0 = 0 * P!PaysFor(poolCall.arg)
            BY <2>b
          <5>3. (0 * P!PaysFor(poolCall.arg)) \div Scale = 0
            BY <2>b, Nothing, PoolConstants
          <5> QED
            BY <4>1, <5>1, <5>2, <5>3
        <4>2. CASE "fee" \notin blind
          BY <3>1, <3>2, <4>2 DEF P!ShownFee, P!FeeOf
        <4> QED
          BY <4>1, <4>2
      <3> QED
        BY <3>1, <3>3 DEF P!ShownNet
    <2>4. ASSUME poolCall.op = "summary", "own" \notin blind
          PROVE  poolCall.worth = P!PaysFor(mine) /\ poolCall.sum = liquidity
      <3>1. poolCall.at = "ok" /\ Summary
        BY <2>0, <2>4 DEF Exactly, Summary
      <3>2. poolCall.own = mine
        BY <2>d, <2>4
      <3>3. poolCall.sum = liquidity
        BY <2>a, <2>c, <2>4 DEF Figures, P!StatsRead
      <3> QED
        BY <3>1, <3>2, <3>3 DEF Summary
    <2>5. poolCall.op \in {"overview", "sponsorPool"} /\ "stats" \notin blind
            => poolCall.sum = liquidity /\ poolCall.free = P!Available /\ poolCall.all = shares
      BY <2>a, <2>c DEF Figures, P!StatsRead
    <2> QED
      BY <2>1, <2>2, <2>3, <2>4, <2>5 DEF P!QuoteIsExact
  <1>3. P!Spec => []P!QuoteIsExact
    BY <1>1, <1>2, ExactStep, PoolTypes, PTL DEF P!Spec
  <1> QED
    BY <1>3, ServicesAlone, PTL DEF QuoteIsExact

-----------------------------------------------------------------------------
\* A deposit gains nothing: the shares quoted are rounded down.

LEMMA Remainder ==
  ASSUME NEW x \in Nat, NEW y \in Nat \ {0}
  PROVE  x \div y \in Nat /\ y * (x \div y) <= x
  OBVIOUS

LEMMA Times == ASSUME NEW x \in Nat, NEW y \in Nat, NEW z \in Nat, x <= y PROVE z * x <= z * y
  OBVIOUS

\* What m new shares are worth next to s old ones, if they are in proportion.
LEMMA NoGain ==
  ASSUME NEW a \in Nat, NEW t \in Nat, NEW s \in Nat, NEW m \in Nat, m * t <= a * s, s + m > 0
  PROVE  (m * (t + a)) \div (s + m) <= a
  <1> DEFINE x == m * (t + a)
             y == s + m
             v == x \div y
  <1>1. x \in Nat /\ y \in Nat \ {0} /\ m * t \in Nat /\ a * s \in Nat /\ m * a \in Nat
    BY Product
  <1>2. x = m * t + m * a /\ a * y = a * s + m * a /\ y * a = a * y
    OBVIOUS
  <1>3. x <= y * a
    <2> HIDE DEF x, y
    <2> QED
      BY <1>1, <1>2
  <1> HIDE DEF x, y
  <1>4. v \in Nat /\ y * v <= x
    BY <1>1, Remainder
  <1> HIDE DEF v
  <1>5. ASSUME v >= a + 1 PROVE FALSE
    <2>1. y * (a + 1) <= y * v
      BY <1>1, <1>4, <1>5, Times
    <2>2. y * (a + 1) = y * a + y /\ y * a \in Nat /\ y * v \in Nat
      BY <1>1, <1>4, Product
    <2> QED
      BY <1>1, <1>3, <1>4, <2>1, <2>2
  <1>6. v <= a
    BY <1>4, <1>5
  <1> QED
    BY <1>6 DEF v, x, y

\* The shares of a deposit are in proportion, or there is nothing to be in proportion to.
LEMMA MintedInProportion ==
  ASSUME PoolOK, NEW a \in Nat, shares = 0 => liquidity = 0
  PROVE  P!MintsFor(a) \in Nat /\ P!MintsFor(a) * liquidity <= a * shares
  <1>0. liquidity \in Nat /\ shares \in Nat /\ P!MintsFor(a) \in Nat
    BY PoolFacts
  <1>1. CASE liquidity = 0
    <2>1. P!MintsFor(a) * liquidity = 0 /\ a * shares \in Nat
      BY <1>0, <1>1, Product
    <2> QED
      BY <1>0, <2>1
  <1>2. CASE liquidity # 0
    <2> DEFINE x == a * shares
    <2>1. x \in Nat /\ P!MintsFor(a) = x \div liquidity
      BY <1>0, <1>2, Product DEF P!MintsFor
    <2> HIDE DEF x
    <2>2. liquidity * P!MintsFor(a) <= x /\ liquidity * P!MintsFor(a) = P!MintsFor(a) * liquidity
      BY <1>0, <1>2, <2>1, Remainder
    <2> QED
      BY <1>0, <2>2 DEF x
  <1> QED
    BY <1>1, <1>2

\* The shares quoted for a deposit (depositLiquidity), by the contract or computed here, are
\* never worth more than the deposit once it is made, for a pool and a deposit of any
\* size (DepositNeverGains).
THEOREM DepositTheorem == Spec => []DepositNeverGains
  <1>1. P!Init => Exact
    BY DEF P!Init, P!NoCall, Exact, Underway
  <1>2. P!TypeOK /\ Exact => P!DepositNeverGains
    <2> SUFFICES ASSUME P!TypeOK, Exact, poolCall.op = "deposit", poolCall.at = "ok", moved = 0,
                        shares = 0 => liquidity = 0, shares + poolCall.worth > 0
                 PROVE  (poolCall.worth * (liquidity + poolCall.arg)) \div (shares + poolCall.worth) <= poolCall.arg
      BY DEF P!DepositNeverGains
    <2>1. poolCall.worth = P!MintsFor(poolCall.arg)
      BY DEF Exact, Underway, Exactly, Minting
    <2>2. PoolOK /\ poolCall.arg \in Nat
      BY PoolTypeSplit, PoolConstants DEF PoolCall
    <2>3. poolCall.worth \in Nat /\ poolCall.worth * liquidity <= poolCall.arg * shares
      BY <2>1, <2>2, MintedInProportion
    <2>4. liquidity \in Nat /\ shares \in Nat
      BY <2>2, PoolFacts
    <2> QED
      BY <2>2, <2>3, <2>4, NoGain
  <1>3. P!Spec => []P!DepositNeverGains
    BY <1>1, <1>2, ExactStep, PoolTypes, PTL DEF P!Spec
  <1> QED
    BY <1>3, ServicesAlone, PTL DEF DepositNeverGains
=======================================================================================
