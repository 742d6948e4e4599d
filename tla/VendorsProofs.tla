-------------------------------- MODULE VendorsProofs --------------------------------
(* Proofs about Vendors: the types, what a revocation is worth, when the rate        *)
(* limit is exact, and which registrations end in a violated index.                  *)
EXTENDS Vendors, TLAPS

Pc == Ends \cup {"vendor", "load", "insert", "write", "dropRecord", "dropRate", "record",
                 "negative", "deny", "recheck", "store", "rate", "count"}

CallRec == [at : Pc, op : Ops, by : Wallet \cup {Nobody}, on : Key \cup Product \cup {Nobody},
            seen : Nat, late : BOOLEAN]

\* What a call in progress has found out, and what it goes by.
CallOK(c) ==
  /\ call[c].at \notin Ends => /\ call[c].op \in {"guard", "revokeKey"} => call[c].on \in Key
                               /\ call[c].op \in {"updateProduct", "deleteProduct"} => call[c].on \in Product
                               /\ call[c].op # "guard" => call[c].by \in Wallet
  /\ At(c, "createProduct", "insert") \/ At(c, "createKey", "insert") => call[c].by \in vendor
  /\ call[c].op = "revokeKey" /\ call[c].at \in {"write", "dropRecord", "dropRate"} =>
       key[call[c].on].owner = call[c].by
  /\ call[c].op = "revokeKey" /\ call[c].at \in {"dropRecord", "dropRate"} => ~key[call[c].on].active
  /\ call[c].at = "count" => call[c].op = "guard" /\ call[c].seen < MaxRequests
  /\ At(c, "register", "vendor") => (readable /\ call[c].late => call[c].by \in vendor)
  /\ At(c, "register", "insert") => (readable => ~call[c].late)
  /\ call[c].at = "duplicate" => (readable => ~call[c].late)

TypeInv == TypeOK /\ call \in [Call -> CallRec] /\ \A c \in Call : CallOK(c)

LEMMA NoCallType == NoCall \in CallRec /\ NoKey.owner = Nobody /\ NoProduct.owner = Nobody
  BY DEF NoCall, CallRec, Pc, Ends, Ops, OwnerOps, NoKey, NoProduct

\* A call goes on as it was, or ends.
LEMMA GotoOK ==
  ASSUME call \in [Call -> CallRec], NEW c \in Call, NEW pc \in Pc, Goto(c, pc)
  PROVE  /\ call' \in [Call -> CallRec]
         /\ \A d \in Call \ {c} : call'[d] = call[d]
         /\ call'[c].at = pc /\ call'[c].late = call[c].late
         /\ pc \notin Ends => call'[c] = [call[c] EXCEPT !.at = pc]
         /\ pc \in Ends => call'[c].op = "list" /\ call'[c].on = Nobody
  <1>1. [NoCall EXCEPT !.at = pc, !.late = call[c].late] \in CallRec
    BY NoCallType DEF CallRec
  <1>2. [call[c] EXCEPT !.at = pc] \in CallRec
    BY DEF CallRec
  <1>3. NoCall.op = "list" /\ NoCall.on = Nobody /\ NoCall \in CallRec
    BY NoCallType DEF NoCall
  <1>4. CASE pc \in Ends
    <2>1. call' = [call EXCEPT ![c] = [NoCall EXCEPT !.at = pc, !.late = call[c].late]]
      BY <1>4 DEF Goto
    <2> QED
      BY <1>1, <1>3, <1>4, <2>1 DEF CallRec
  <1>5. CASE pc \notin Ends
    <2>1. call' = [call EXCEPT ![c] = [call[c] EXCEPT !.at = pc]]
      BY <1>5 DEF Goto
    <2> QED
      BY <1>2, <1>5, <2>1 DEF CallRec
  <1> QED
    BY <1>4, <1>5

\* What no step takes back: registrations, the owners of keys, and revocations.
Kept == /\ readable' = readable /\ vendor \subseteq vendor'
        /\ \A k \in Key : key[k] # NoKey => key'[k].owner = key[k].owner
                                            /\ (key'[k].active => key[k].active)

LEMMA OthersOK ==
  ASSUME TypeInv, Kept, NEW d \in Call, call'[d] = call[d]
  PROVE  CallOK(d)'
  <1>1. CallOK(d) /\ call[d].at \in Pc
    BY DEF TypeInv, CallRec
  <1>2. call[d].op = "revokeKey" /\ call[d].at \in {"write", "dropRecord", "dropRate"} =>
          key[call[d].on] # NoKey /\ call[d].on \in Key
    BY <1>1, NoCallType, ConstantsAssumption DEF CallOK, Ends
  <1> QED
    BY <1>1, <1>2 DEF CallOK, Kept, At

\* The actions that leave the tables, the cache and the history alone.
Looks(c) ==
  \/ Start(c) \/ FindVendor(c) \/ OwnProduct(c) \/ AdminAction(c) \/ FindKey(c) \/ RevokeFails(c)
  \/ Request(c) \/ Throttled(c) \/ ReadRecord(c) \/ ReadNegative(c) \/ LoadKey(c) \/ Recheck(c)

\* Their effect on the call.
LEMMA LooksCall ==
  ASSUME TypeInv, NEW c \in Call, Looks(c)
  PROVE  /\ UNCHANGED <<table, cache, hist>>
         /\ call' \in [Call -> CallRec] /\ \A d \in Call \ {c} : call'[d] = call[d]
         /\ CallOK(c)'
  <1>0. call \in [Call -> CallRec] /\ CallOK(c)
    BY DEF TypeInv
  <1>a. UNCHANGED <<table, cache, hist>>
    BY DEF Looks, Start, FindVendor, OwnProduct, AdminAction, FindKey, RevokeFails, Request,
           Throttled, ReadRecord, ReadNegative, LoadKey, Recheck
  <1>b. key' = key /\ vendor' = vendor /\ readable' = readable
    BY <1>a DEF table
  \* A call that ends as refused, done or admitted is in order whatever came before.
  <1>c. ASSUME NEW pc \in {"refused", "done", "admitted"}, Goto(c, pc)
        PROVE  call' \in [Call -> CallRec] /\ (\A d \in Call \ {c} : call'[d] = call[d]) /\ CallOK(c)'
    BY <1>0, <1>c, GotoOK DEF CallOK, Ends, Pc, At
  \* A request by key goes on with the key it came with.
  <1>d. ASSUME call[c].op = "guard", call[c].at \notin Ends,
               NEW pc \in {"negative", "load", "deny", "recheck", "store", "rate"}, Goto(c, pc)
        PROVE  call' \in [Call -> CallRec] /\ (\A d \in Call \ {c} : call'[d] = call[d]) /\ CallOK(c)'
    <2>1. /\ pc \in Pc \ Ends /\ pc \notin {"count", "duplicate"}
      BY DEF Pc, Ends
    <2>2. call' \in [Call -> CallRec] /\ (\A d \in Call \ {c} : call'[d] = call[d])
          /\ call'[c] = [call[c] EXCEPT !.at = pc]
      BY <1>0, <1>d, <2>1, GotoOK
    <2>3. call'[c].op = "guard" /\ call'[c].on = call[c].on /\ call'[c].at = pc
      BY <1>d, <2>2 DEF CallRec
    <2> QED
      BY <1>0, <1>d, <2>1, <2>2, <2>3 DEF CallOK, At
  <1>1. CASE Start(c)
    <2>1. PICK op \in Ops \ {"guard"}, w \in Wallet :
          \E on \in CASE op \in {"updateProduct", "deleteProduct"} -> Product
                      [] op = "revokeKey" -> Key
                      [] OTHER -> {Nobody} :
            call' = [call EXCEPT ![c] = [NoCall EXCEPT
                       !.at = IF op \in AdminOps THEN "load" ELSE "vendor",
                       !.op = op, !.by = w, !.on = on, !.late = op = "register" /\ w \in vendor]]
      BY <1>1 DEF Start
    <2>2. PICK on : /\ on \in Key \cup Product \cup {Nobody}
                    /\ op \in {"updateProduct", "deleteProduct"} => on \in Product
                    /\ op = "revokeKey" => on \in Key
                    /\ call' = [call EXCEPT ![c] = [NoCall EXCEPT
                         !.at = IF op \in AdminOps THEN "load" ELSE "vendor",
                         !.op = op, !.by = w, !.on = on, !.late = op = "register" /\ w \in vendor]]
      BY <2>1
    <2> DEFINE pc   == IF op \in AdminOps THEN "load" ELSE "vendor"
               late == op = "register" /\ w \in vendor
    <2>3. /\ NoCall \in CallRec /\ pc \in Pc \ Ends /\ pc \in {"load", "vendor"} /\ late \in BOOLEAN
          /\ late => w \in vendor
      BY NoCallType DEF Pc, Ends
    <2>4. call' = [call EXCEPT ![c] = [NoCall EXCEPT !.at = pc, !.op = op, !.by = w, !.on = on,
                                                     !.late = late]]
      BY <2>2
    <2> HIDE DEF pc, late
    <2> DEFINE r == [NoCall EXCEPT !.at = pc, !.op = op, !.by = w, !.on = on, !.late = late]
    <2>a. /\ r.at = pc /\ r.op = op /\ r.by = w /\ r.on = on /\ r.late = late /\ r \in CallRec
      BY <2>2, <2>3 DEF CallRec
    <2>b. call' = [call EXCEPT ![c] = r]
      BY <2>4
    <2> HIDE DEF r
    <2>5. /\ call'[c].at = pc /\ call'[c].op = op /\ call'[c].by = w /\ call'[c].on = on
          /\ call'[c].late = late /\ call'[c] \in CallRec
      BY <1>0, <2>a, <2>b
    <2>6. call' \in [Call -> CallRec] /\ \A d \in Call \ {c} : call'[d] = call[d]
      BY <1>0, <2>b, <2>5
    <2> QED
      BY <1>a, <1>b, <2>2, <2>3, <2>5, <2>6 DEF CallOK, At, Ends
  <1>2. CASE FindVendor(c)
    <2>1. PICK pc \in {AfterVendor(c), "refused"} : Goto(c, pc)
      BY <1>2 DEF FindVendor
    <2>2. call[c].at = "vendor" /\ call[c].at \notin Ends
      BY <1>2 DEF FindVendor, Ends
    <2>3. CASE pc \in {"refused", "done"}
      BY <1>a, <1>c, <2>1, <2>3
    <2>4. CASE pc \notin {"refused", "done"}
      <3>1. /\ pc \in {"insert", "load"} /\ pc = AfterVendor(c)
        BY <2>1, <2>4 DEF AfterVendor
      <3>2. pc \in Pc \ Ends
        BY <3>1 DEF Pc, Ends
      <3>3. /\ call' \in [Call -> CallRec] /\ (\A d \in Call \ {c} : call'[d] = call[d])
            /\ call'[c] = [call[c] EXCEPT !.at = pc]
        BY <1>0, <2>1, <3>2, GotoOK
      <3>4. /\ call'[c].at = pc /\ call'[c].op = call[c].op /\ call'[c].by = call[c].by
            /\ call'[c].on = call[c].on /\ call'[c].late = call[c].late
        BY <3>3 DEF CallRec
      <3>5. pc = "insert" /\ call[c].op \in {"createProduct", "createKey"} => call[c].by \in vendor
        BY <3>1 DEF AfterVendor, Visible
      <3>6. pc = "insert" /\ call[c].op = "register" => (readable => ~call[c].late)
        BY <1>0, <2>2, <3>1 DEF AfterVendor, Visible, CallOK, At
      <3> QED
        BY <1>0, <1>a, <1>b, <2>2, <3>1, <3>2, <3>3, <3>4, <3>5, <3>6 DEF CallOK, At, Ends
    <2> QED
      BY <2>3, <2>4
  <1>3. CASE OwnProduct(c) \/ AdminAction(c) \/ FindKey(c) \/ RevokeFails(c)
    <2>1. PICK pc \in {"refused", "done", "write"} :
            /\ Goto(c, pc)
            /\ pc = "write" => /\ call[c].op \in {"updateProduct", "deleteProduct", "revokeKey"}
                               /\ call[c].at = "load"
                               /\ call[c].op = "revokeKey" => key[call[c].on].owner = call[c].by
      BY <1>3 DEF OwnProduct, AdminAction, FindKey, RevokeFails, At
    <2>2. CASE pc # "write"
      BY <1>a, <1>c, <2>1, <2>2
    <2>3. CASE pc = "write"
      <3>1. /\ call' \in [Call -> CallRec] /\ (\A d \in Call \ {c} : call'[d] = call[d])
            /\ call'[c] = [call[c] EXCEPT !.at = "write"]
        BY <1>0, <2>1, <2>3, GotoOK DEF Pc, Ends
      <3>2. /\ call'[c].at = "write" /\ call'[c].op = call[c].op /\ call'[c].by = call[c].by
            /\ call'[c].on = call[c].on
        BY <3>1 DEF CallRec
      <3> QED
        BY <1>0, <1>a, <1>b, <2>1, <2>3, <3>1, <3>2 DEF CallOK, At, Ends
    <2> QED
      BY <2>2, <2>3
  <1>5. CASE Request(c)
    <2>1. PICK k \in Key :
            call' = [call EXCEPT ![c] = [NoCall EXCEPT !.at = "record", !.op = "guard", !.on = k]]
      BY <1>5 DEF Request
    <2>2. /\ call'[c].at = "record" /\ call'[c].op = "guard" /\ call'[c].on = k
          /\ call'[c] \in CallRec
      BY <1>0, <2>1, NoCallType DEF CallRec, Pc, Ops
    <2>3. call' \in [Call -> CallRec] /\ \A d \in Call \ {c} : call'[d] = call[d]
      BY <1>0, <2>1, <2>2
    <2> QED
      BY <1>a, <2>2, <2>3 DEF CallOK, At
  <1>4. CASE Throttled(c) \/ ReadRecord(c) \/ ReadNegative(c) \/ LoadKey(c) \/ Recheck(c)
    BY <1>4, <1>c, <1>d, <1>a DEF Throttled, ReadRecord, ReadNegative, LoadKey, Recheck, Validated, At, Ends
  <1> QED
    BY <1>a, <1>1, <1>2, <1>3, <1>4, <1>5 DEF Looks

\* The rest of the calls' actions.
Writes(c) ==
  \/ Register(c) \/ CreateProduct(c) \/ UpdateProduct(c) \/ DeleteProduct(c) \/ CreateApiKey(c)
  \/ RevokeKey(c) \/ DropRecord(c) \/ DropRate(c)
  \/ Deny(c) \/ StoreRecord(c) \/ ReadRate(c) \/ WriteRate(c)

LEMMA WritesCall ==
  ASSUME TypeInv, NEW c \in Call, Writes(c)
  PROVE  /\ call' \in [Call -> CallRec] /\ \A d \in Call \ {c} : call'[d] = call[d]
         /\ CallOK(c)' /\ Kept
  <1>0. call \in [Call -> CallRec] /\ CallOK(c) /\ key \in [Key -> [owner : Wallet \cup {Nobody}, active : BOOLEAN]]
    BY DEF TypeInv, TypeOK
  <1>c. ASSUME NEW pc \in {"refused", "done", "admitted"}, Goto(c, pc)
        PROVE  call' \in [Call -> CallRec] /\ (\A d \in Call \ {c} : call'[d] = call[d]) /\ CallOK(c)'
    BY <1>0, <1>c, GotoOK DEF CallOK, Ends, Pc, At
  <1>1. CASE Register(c)
    <2>1. Kept
      BY <1>1 DEF Register, Kept
    <2>2. CASE Goto(c, "duplicate")
      <3>1. readable => ~call[c].late
        BY <1>0, <1>1 DEF Register, CallOK
      <3>2. /\ call' \in [Call -> CallRec] /\ (\A d \in Call \ {c} : call'[d] = call[d])
            /\ call'[c].at = "duplicate" /\ call'[c].late = call[c].late /\ call'[c].op = "list"
        BY <1>0, <2>2, GotoOK DEF Pc, Ends
      <3> QED
        BY <2>1, <3>1, <3>2 DEF CallOK, At, Ends, Kept
    <2> QED
      BY <1>1, <1>c, <2>1, <2>2 DEF Register
  <1>2. CASE CreateProduct(c) \/ UpdateProduct(c) \/ DeleteProduct(c)
    <2>1. Kept
      BY <1>2 DEF CreateProduct, UpdateProduct, DeleteProduct, Kept
    <2> QED
      BY <1>2, <1>c, <2>1 DEF CreateProduct, UpdateProduct, DeleteProduct
  <1>3. CASE CreateApiKey(c)
    <2>1. Kept
      BY <1>0, <1>3 DEF CreateApiKey, Kept
    <2> QED
      BY <1>3, <1>c, <2>1 DEF CreateApiKey
  <1>4. CASE RevokeKey(c)
    <2>1. /\ call[c].op = "revokeKey" /\ call[c].at = "write" /\ call[c].on \in Key
          /\ key[call[c].on].owner = call[c].by
      BY <1>0, <1>4 DEF RevokeKey, At, CallOK, Ends
    <2>2. key'[call[c].on].owner = call[c].by /\ ~key'[call[c].on].active
      BY <1>0, <1>4, <2>1 DEF RevokeKey
    <2>3. Kept
      BY <1>0, <1>4, <2>1 DEF RevokeKey, Kept
    <2>4. CASE Goto(c, "dropRecord")
      <3>1. /\ call' \in [Call -> CallRec] /\ (\A d \in Call \ {c} : call'[d] = call[d])
            /\ call'[c] = [call[c] EXCEPT !.at = "dropRecord"]
        BY <1>0, <2>4, GotoOK DEF Pc, Ends
      <3>2. /\ call'[c].at = "dropRecord" /\ call'[c].op = call[c].op /\ call'[c].by = call[c].by
            /\ call'[c].on = call[c].on
        BY <1>0, <3>1 DEF CallRec
      <3> QED
        BY <1>0, <2>1, <2>2, <2>3, <3>1, <3>2 DEF CallOK, At, Ends
    <2> QED
      BY <1>4, <1>c, <2>3, <2>4 DEF RevokeKey
  <1>5. CASE DropRecord(c)
    <2>1. Kept /\ key' = key
      BY <1>5 DEF DropRecord, table, Kept
    <2>2. CASE Goto(c, "dropRate")
      <3>1. /\ call' \in [Call -> CallRec] /\ (\A d \in Call \ {c} : call'[d] = call[d])
            /\ call'[c] = [call[c] EXCEPT !.at = "dropRate"]
        BY <1>0, <2>2, GotoOK DEF Pc, Ends
      <3>2. /\ call'[c].at = "dropRate" /\ call'[c].op = call[c].op /\ call'[c].by = call[c].by
            /\ call'[c].on = call[c].on
        BY <1>0, <3>1 DEF CallRec
      <3> QED
        BY <1>0, <1>5, <2>1, <3>1, <3>2 DEF CallOK, At, Ends, DropRecord
    <2> QED
      BY <1>5, <1>c, <2>1, <2>2 DEF DropRecord
  <1>6. CASE DropRate(c) \/ Deny(c) \/ WriteRate(c)
    <2>1. Kept
      BY <1>6 DEF DropRate, Deny, WriteRate, table, Kept
    <2> QED
      BY <1>6, <1>c, <2>1 DEF DropRate, Deny, WriteRate, LetThrough
  <1>7. CASE StoreRecord(c)
    <2>1. Kept /\ At(c, "guard", "store") /\ Goto(c, "rate")
      BY <1>7 DEF StoreRecord, table, Kept
    <2>2. /\ call' \in [Call -> CallRec] /\ (\A d \in Call \ {c} : call'[d] = call[d])
          /\ call'[c] = [call[c] EXCEPT !.at = "rate"]
      BY <1>0, <2>1, GotoOK DEF Pc, Ends
    <2>3. /\ call'[c].at = "rate" /\ call'[c].op = "guard" /\ call'[c].on = call[c].on
      BY <1>0, <2>1, <2>2 DEF CallRec, At
    <2> QED
      BY <1>0, <2>1, <2>2, <2>3 DEF CallOK, At, Ends
  <1>8. CASE ReadRate(c)
    <2>1. Kept /\ At(c, "guard", "rate") /\ call[c].on \in Key
      BY <1>0, <1>8 DEF ReadRate, table, cache, Kept, CallOK, At, Ends
    <2>2. CASE ~AtLimit(rate[call[c].on])
      <3>0. rate[call[c].on] \in Nat /\ rate[call[c].on] < MaxRequests
        BY <2>1, <2>2, ConstantsAssumption DEF TypeInv, TypeOK, AtLimit
      <3>1. CASE call' = [call EXCEPT ![c].at = "count", ![c].seen = rate[call[c].on]]
        <4>1. /\ \A d \in Call \ {c} : call'[d] = call[d]
              /\ call'[c] = [call[c] EXCEPT !.at = "count", !.seen = rate[call[c].on]]
              /\ call' = [call EXCEPT ![c] = call'[c]]
          BY <1>0, <3>1
        <4>2. /\ call'[c].at = "count" /\ call'[c].op = "guard" /\ call'[c].on = call[c].on
              /\ call'[c].seen < MaxRequests /\ call'[c] \in CallRec
          BY <1>0, <2>1, <3>0, <4>1 DEF CallRec, At, Pc
        <4> QED
          BY <1>0, <2>1, <4>1, <4>2 DEF CallOK, At, Ends
      <3>2. CASE Goto(c, "admitted") \/ Goto(c, "refused")
        BY <1>c, <2>1, <3>2
      <3> QED
        BY <1>8, <2>2, <3>1, <3>2 DEF ReadRate, LetThrough
    <2> QED
      BY <1>8, <1>c, <2>1, <2>2 DEF ReadRate, LetThrough
  <1> QED
    BY <1>1, <1>2, <1>3, <1>4, <1>5, <1>6, <1>7, <1>8 DEF Writes

LEMMA NextSplit ==
  ASSUME Next
  PROVE  \/ \E c \in Call : Looks(c) \/ Writes(c)
         \/ \E k \in Key : KeyExpires(k) \/ EntryExpires(k)
  BY DEF Next, Route, Guard, Looks, Writes

\* The tables and the cache keep their types through every write.
LEMMA TablesOK ==
  ASSUME TypeInv, NEW c \in Call, Writes(c)
  PROVE  TypeOK'
  <1>0. TypeOK /\ call \in [Call -> CallRec] /\ CallOK(c)
    BY DEF TypeInv
  <1> USE ConstantsAssumption
  <1>1. CASE Register(c)
    BY <1>0, <1>1 DEF Register, TypeOK, cache, hist, CallOK, Ends, At
  <1>2. CASE CreateProduct(c)
    <2>1. call[c].by \in vendor
      BY <1>0, <1>2 DEF CreateProduct, CallOK
    <2>2. CASE UNCHANGED product
      BY <1>0, <1>2, <2>2 DEF CreateProduct, TypeOK, cache, hist
    <2>3. ASSUME NEW p \in Product, NEW row \in [Field -> Value],
                 product' = [product EXCEPT ![p] = [owner |-> call[c].by, row |-> row]]
          PROVE  TypeOK'
      <3>1. [owner |-> call[c].by, row |-> row] \in Products
        BY <1>0, <2>1 DEF Products, TypeOK
      <3>2. /\ product' \in [Product -> Products \cup {NoProduct}]
            /\ \A q \in Product : product'[q] # NoProduct => product'[q].owner \in vendor
        BY <1>0, <2>1, <2>3, <3>1 DEF TypeOK
      <3> QED
        BY <1>0, <1>2, <3>2 DEF CreateProduct, TypeOK, cache, hist
    <2> QED
      BY <1>2, <2>2, <2>3 DEF CreateProduct
  <1>3. CASE UpdateProduct(c)
    <2>0. call[c].on \in Product /\ call[c].by \in Wallet
      BY <1>0, <1>3 DEF UpdateProduct, CallOK, At, Ends
    <2>1. CASE UNCHANGED product
      BY <1>0, <1>3, <2>1 DEF UpdateProduct, TypeOK, cache, hist
    <2>2. ASSUME product[call[c].on].owner = call[c].by, NEW some \in SUBSET Field, NEW given \in [some -> Value],
                 product' = [product EXCEPT ![call[c].on].row = Patched(@, given)]
          PROVE  TypeOK'
      <3> DEFINE p == call[c].on
      <3>1. product[p] \in Products /\ product[p] # NoProduct
        BY <1>0, <2>0, <2>2, NoCallType DEF TypeOK
      <3>2. Patched(product[p].row, given) \in [Field -> Value]
        BY <3>1 DEF Patched, Products
      <3>3. [product[p] EXCEPT !.row = Patched(product[p].row, given)] \in Products
        BY <3>1, <3>2 DEF Products
      <3>4. product' = [product EXCEPT ![p] = [product[p] EXCEPT !.row = Patched(product[p].row, given)]]
        BY <2>2
      <3>5. product'[p].owner = product[p].owner
        BY <1>0, <2>0, <3>1, <3>4 DEF TypeOK, Products
      <3>6. /\ product' \in [Product -> Products \cup {NoProduct}]
            /\ \A q \in Product : product'[q] # NoProduct => product'[q].owner \in vendor
        BY <1>0, <2>0, <3>1, <3>3, <3>4, <3>5 DEF TypeOK
      <3> QED
        BY <1>0, <1>3, <3>6 DEF UpdateProduct, TypeOK, cache, hist
    <2> QED
      BY <1>3, <2>1, <2>2 DEF UpdateProduct
  <1>4. CASE DeleteProduct(c)
    <2>1. product' \in [Product -> Products \cup {NoProduct}]
          /\ \A q \in Product : product'[q] # NoProduct => product'[q] = product[q]
      BY <1>0, <1>4 DEF DeleteProduct, TypeOK
    <2> QED
      BY <1>0, <1>4, <2>1 DEF DeleteProduct, TypeOK, cache, hist
  <1>5. CASE CreateApiKey(c)
    <2>1. call[c].by \in vendor /\ call[c].by \in Wallet
      BY <1>0, <1>5 DEF CreateApiKey, CallOK, TypeOK
    <2>2. /\ key' \in [Key -> [owner : Wallet \cup {Nobody}, active : BOOLEAN]]
          /\ \A k \in Key : key'[k] # NoKey => key'[k].owner \in vendor
      <3>1. CASE UNCHANGED key
        BY <1>0, <1>5, <3>1 DEF CreateApiKey, TypeOK
      <3>2. CASE \E k \in Key : key' = [key EXCEPT ![k] = [owner |-> call[c].by, active |-> TRUE]]
        BY <1>0, <2>1, <3>2 DEF TypeOK
      <3> QED
        BY <1>5, <3>1, <3>2 DEF CreateApiKey
    <2> QED
      BY <1>0, <1>5, <2>2 DEF CreateApiKey, TypeOK, cache, hist
  <1>6. CASE RevokeKey(c)
    <2>1. call[c].on \in Key /\ key[call[c].on].owner = call[c].by /\ call[c].by \in Wallet
      BY <1>0, <1>6 DEF RevokeKey, CallOK, At, Ends
    <2>2. /\ key' \in [Key -> [owner : Wallet \cup {Nobody}, active : BOOLEAN]]
          /\ \A k \in Key : key'[k].owner = key[k].owner /\ (k # call[c].on => key'[k] = key[k])
          /\ key[call[c].on] # NoKey
      BY <1>0, <1>6, <2>1, NoCallType DEF RevokeKey, TypeOK
    <2>3. \A k \in Key : key'[k] # NoKey => key'[k].owner \in vendor
      BY <1>0, <2>1, <2>2 DEF TypeOK
    <2> QED
      BY <1>0, <1>6, <2>2, <2>3 DEF RevokeKey, TypeOK, cache, hist
  <1>7. CASE DropRecord(c) \/ Deny(c) \/ StoreRecord(c)
    <2>1. call[c].on \in Key
      BY <1>0, <1>7 DEF DropRecord, Deny, StoreRecord, CallOK, At, Ends
    <2> QED
      BY <1>0, <1>7, <2>1 DEF DropRecord, Deny, StoreRecord, TypeOK, table, cache, hist
  <1>8. CASE DropRate(c)
    <2>1. call[c].on \in Key
      BY <1>0, <1>8 DEF DropRate, CallOK, At, Ends
    <2> QED
      BY <1>0, <1>8, <2>1 DEF DropRate, NewWindow, TypeOK, table
  <1>9. CASE ReadRate(c) \/ WriteRate(c)
    <2>1. call[c].on \in Key /\ (call[c].at = "count" => call[c].seen \in Nat /\ call[c].seen < MaxRequests)
      BY <1>0, <1>9 DEF ReadRate, WriteRate, CallOK, At, Ends, CallRec
    <2>2. /\ passed' \in [Key -> 0 .. MaxRequests + 1] /\ rate' \in [Key -> 0 .. MaxRequests]
          /\ alone' \subseteq alone
      BY <1>0, <1>9, <2>1 DEF ReadRate, WriteRate, LetThrough, TypeOK, cache, At
    <2> QED
      BY <1>0, <1>9, <2>2 DEF ReadRate, WriteRate, TypeOK, table, cache
  <1> QED
    BY <1>1, <1>2, <1>3, <1>4, <1>5, <1>6, <1>7, <1>8, <1>9 DEF Writes

LEMMA TypeInit == Init => TypeInv
  <1> SUFFICES ASSUME Init PROVE TypeInv
    OBVIOUS
  <1>1. NoCall.at \in Ends /\ NoCall.at = "done" /\ NoCall.op = "list"
    BY DEF NoCall, Ends
  <1>2. call \in [Call -> CallRec] /\ \A c \in Call : CallOK(c)
    BY <1>1, NoCallType DEF Init, CallOK, At
  <1>3. NoKey \in [owner : Wallet \cup {Nobody}, active : BOOLEAN]
    BY DEF NoKey
  <1> QED
    BY <1>2, <1>3, ConstantsAssumption DEF Init, TypeInv, TypeOK

LEMMA TypeStep == TypeInv /\ [Next]_vars => TypeInv'
  <1> SUFFICES ASSUME TypeInv, [Next]_vars PROVE TypeInv'
    OBVIOUS
  <1>1. ASSUME NEW c \in Call, Looks(c) PROVE TypeInv'
    <2>1. /\ UNCHANGED <<table, cache, hist>>
          /\ call' \in [Call -> CallRec] /\ (\A d \in Call \ {c} : call'[d] = call[d]) /\ CallOK(c)'
      BY <1>1, LooksCall
    <2>2. TypeOK' /\ Kept
      BY <2>1 DEF TypeInv, TypeOK, table, cache, hist, Kept
    <2> QED
      BY <2>1, <2>2, OthersOK DEF TypeInv
  <1>2. ASSUME NEW c \in Call, Writes(c) PROVE TypeInv'
    BY <1>2, WritesCall, TablesOK, OthersOK DEF TypeInv
  <1>3. ASSUME NEW k \in Key, KeyExpires(k) \/ EntryExpires(k) PROVE TypeInv'
    <2>1. Kept /\ UNCHANGED call
      BY <1>3 DEF KeyExpires, EntryExpires, table, Kept
    <2>2. TypeOK'
      BY <1>3, ConstantsAssumption DEF KeyExpires, EntryExpires, NewWindow, TypeInv, TypeOK, table, cache, hist
    <2>3. \A d \in Call : CallOK(d)'
      BY <2>1, OthersOK
    <2> QED
      BY <2>1, <2>2, <2>3 DEF TypeInv
  <1>4. CASE UNCHANGED vars
    <2>1. Kept /\ UNCHANGED call
      BY <1>4 DEF vars, table, Kept
    <2>2. TypeOK'
      BY <1>4 DEF TypeInv, TypeOK, vars, table, cache, hist
    <2>3. \A d \in Call : CallOK(d)'
      BY <2>1, OthersOK
    <2> QED
      BY <2>1, <2>2, <2>3 DEF TypeInv
  <1> QED
    BY <1>1, <1>2, <1>3, <1>4, NextSplit

LEMMA TypeAlways == Spec => []TypeInv
  BY TypeInit, TypeStep, PTL DEF Spec

\* Types, and what every write presupposes: a product or key that is changed belongs to
\* the wallet whose call found it, and no counter is beyond the limit.
THEOREM TypeCorrect == Spec => []TypeOK
  <1>1. TypeInv => TypeOK
    BY DEF TypeInv
  <1> QED
    BY <1>1, TypeAlways, PTL

\* A registration whose wallet had a row when it began never gets as far as the index,
\* unless the tables cannot be read.
THEOREM Conflicts == Spec => []ConflictIsAnswered
  <1>1. TypeInv => ConflictIsAnswered
    BY DEF TypeInv, CallOK, ConflictIsAnswered
  <1> QED
    BY <1>1, TypeAlways, PTL

-----------------------------------------------------------------------------
\* Revocation

Carries(c, k) == call[c].op = "guard" /\ call[c].on = k
                 /\ call[c].at \in {"recheck", "store", "rate", "count"}

\* A revoked key whose record was dropped while nobody carried it cannot be taken up
\* again: the row says that it is inactive, the cache has no record, and no request
\* has either from before.
CleanInv ==
  \A k \in clean : /\ key[k] # NoKey /\ ~key[k].active /\ k \notin record
                   /\ \A c \in Call : ~Carries(c, k)

\* Where a call begins.
LEMMA StartAt ==
  ASSUME TypeInv, NEW c \in Call, Start(c) \/ Request(c)
  PROVE  call'[c].at \in {"load", "vendor", "record"}
  <1>0. call \in [Call -> CallRec]
    BY DEF TypeInv
  <1>1. CASE Start(c)
    <2>1. PICK op \in Ops \ {"guard"}, w \in Wallet :
          \E on \in CASE op \in {"updateProduct", "deleteProduct"} -> Product
                      [] op = "revokeKey" -> Key
                      [] OTHER -> {Nobody} :
            call' = [call EXCEPT ![c] = [NoCall EXCEPT
                       !.at = IF op \in AdminOps THEN "load" ELSE "vendor",
                       !.op = op, !.by = w, !.on = on, !.late = op = "register" /\ w \in vendor]]
      BY <1>1 DEF Start
    <2>2. PICK on :
            call' = [call EXCEPT ![c] = [NoCall EXCEPT
                       !.at = IF op \in AdminOps THEN "load" ELSE "vendor",
                       !.op = op, !.by = w, !.on = on, !.late = op = "register" /\ w \in vendor]]
      BY <2>1
    <2>3. call'[c].at = IF op \in AdminOps THEN "load" ELSE "vendor"
      BY <1>0, <2>2 DEF NoCall
    <2> QED
      BY <2>3
  <1>2. CASE Request(c)
    BY <1>0, <1>2 DEF Request, NoCall
  <1> QED
    BY <1>1, <1>2

\* A request takes up a key from the cached record, or from the active row.
LEMMA TakesUp ==
  ASSUME TypeInv, NEW c \in Call, Looks(c) \/ Writes(c), NEW k \in Key, Carries(c, k)'
  PROVE  Carries(c, k) \/ k \in record \/ key[k].active
  <1>0. call \in [Call -> CallRec]
    BY DEF TypeInv
  <1>1. PICK pc \in {"recheck", "store", "rate", "count"} : call'[c].at = pc
    BY DEF Carries
  <1>2. ASSUME NEW q \in Pc, Goto(c, q)
        PROVE  /\ q = pc
               /\ call'[c].op = call[c].op /\ call'[c].on = call[c].on
    <2>1. q = pc /\ pc \notin Ends
      BY <1>0, <1>1, <1>2, GotoOK DEF Ends
    <2>2. call'[c] = [call[c] EXCEPT !.at = q]
      BY <1>0, <1>2, <2>1, GotoOK
    <2> QED
      BY <1>0, <2>1, <2>2 DEF CallRec
  <1>3. CASE ReadRecord(c) \/ LoadKey(c)
    <2>1. PICK q \in Pc : /\ Goto(c, q)
                          /\ q = "recheck" => call[c].on \in record \/ key[call[c].on].active
                          /\ q \in {"recheck", "refused", "negative", "deny"}
      BY <1>3 DEF ReadRecord, LoadKey, Validated, Pc, Ends
    <2> QED
      BY <1>1, <1>2, <2>1 DEF Carries
  <1>4. CASE Recheck(c) \/ StoreRecord(c)
    <2>1. PICK q \in Pc : Goto(c, q) /\ call[c].at \in {"recheck", "store"}
      BY <1>4 DEF Recheck, StoreRecord, At, Pc
    <2> QED
      BY <1>2, <2>1 DEF Carries
  <1>5. CASE ReadRate(c)
    <2>1. CASE call' = [call EXCEPT ![c].at = "count", ![c].seen = rate[call[c].on]]
      <3>1. call'[c].op = call[c].op /\ call'[c].on = call[c].on
        BY <1>0, <2>1 DEF CallRec
      <3> QED
        BY <1>5, <3>1 DEF ReadRate, At, Carries
    <2>2. CASE Goto(c, "refused") \/ Goto(c, "admitted")
      BY <1>1, <1>2, <2>2 DEF Pc, Ends
    <2> QED
      BY <1>5, <2>1, <2>2 DEF ReadRate, LetThrough
  <1>6. CASE Start(c) \/ Request(c)
    <2>1. call'[c].at \in {"load", "vendor", "record"}
      BY <1>6, StartAt
    <2> QED
      BY <1>1, <2>1
  <1>7. ASSUME NEW q \in {"insert", "load", "done", "refused", "duplicate", "write", "dropRecord",
                          "dropRate", "negative", "admitted"}, Goto(c, q)
        PROVE  FALSE
    BY <1>1, <1>2, <1>7 DEF Pc, Ends
  <1>8. CASE FindVendor(c)
    <2>1. AfterVendor(c) \in {"refused", "insert", "done", "load"}
      BY DEF AfterVendor
    <2> QED
      BY <1>7, <1>8, <2>1 DEF FindVendor
  <1>9. CASE \/ OwnProduct(c) \/ AdminAction(c) \/ FindKey(c) \/ RevokeFails(c) \/ Throttled(c)
             \/ ReadNegative(c)
    BY <1>7, <1>9 DEF OwnProduct, AdminAction, FindKey, RevokeFails, Throttled, ReadNegative
  <1>10. CASE \/ Register(c) \/ CreateProduct(c) \/ UpdateProduct(c) \/ DeleteProduct(c)
              \/ CreateApiKey(c)
    BY <1>7, <1>10 DEF Register, CreateProduct, UpdateProduct, DeleteProduct, CreateApiKey
  <1>11. CASE \/ RevokeKey(c) \/ DropRecord(c) \/ DropRate(c) \/ Deny(c) \/ WriteRate(c)
    BY <1>7, <1>11 DEF RevokeKey, DropRecord, DropRate, Deny, WriteRate, LetThrough
  <1> QED
    BY <1>3, <1>4, <1>5, <1>6, <1>8, <1>9, <1>10, <1>11 DEF Looks, Writes

LEMMA CleanStep == TypeInv /\ CleanInv /\ [Next]_vars => CleanInv'
  <1> SUFFICES ASSUME TypeInv, CleanInv, [Next]_vars, NEW k \in clean'
               PROVE  /\ key'[k] # NoKey /\ ~key'[k].active /\ k \notin record'
                      /\ \A c \in Call : ~Carries(c, k)'
    BY DEF CleanInv
  <1>0. clean \subseteq Key /\ key \in [Key -> [owner : Wallet \cup {Nobody}, active : BOOLEAN]]
    BY DEF TypeInv, TypeOK
  \* A key that is clean already.
  <1>1. ASSUME k \in clean, NEW c \in Call, Looks(c) \/ Writes(c)
        PROVE  /\ key'[k] # NoKey /\ ~key'[k].active
               /\ \A d \in Call : ~Carries(d, k)'
    <2>1. k \in Key /\ key[k] # NoKey /\ ~key[k].active /\ k \notin record /\ \A d \in Call : ~Carries(d, k)
      BY <1>0, <1>1 DEF CleanInv
    <2>2. Kept /\ \A d \in Call \ {c} : call'[d] = call[d]
      <3>1. CASE Looks(c)
        BY <3>1, LooksCall DEF table, Kept
      <3>2. CASE Writes(c)
        BY <3>2, WritesCall
      <3> QED
        BY <1>1, <3>1, <3>2
    <2>3. ~Carries(c, k)'
      BY <1>1, <2>1, TakesUp
    <2>4. \A d \in Call : ~Carries(d, k)'
      BY <2>1, <2>2, <2>3 DEF Carries
    <2>5. key[k].owner # Nobody /\ key'[k].owner = key[k].owner /\ ~key'[k].active
      <3>1. key[k].owner # Nobody
        BY <1>0, <2>1, ConstantsAssumption DEF TypeInv, TypeOK
      <3> QED
        BY <2>1, <2>2, <3>1 DEF Kept
    <2> QED
      BY <2>4, <2>5, NoCallType
  <1>2. CASE \E c \in Call : Looks(c)
    <2>1. PICK c \in Call : Looks(c)
      BY <1>2
    <2>2. UNCHANGED <<table, cache, hist>>
      BY <2>1, LooksCall
    <2> QED
      BY <1>1, <2>1, <2>2 DEF hist, cache, CleanInv
  <1>3. ASSUME NEW c \in Call, Writes(c), ~DropRecord(c)
        PROVE  /\ key'[k] # NoKey /\ ~key'[k].active /\ k \notin record'
               /\ \A d \in Call : ~Carries(d, k)'
    <2>1. clean' = clean
      BY <1>3 DEF Writes, Register, CreateProduct, UpdateProduct, DeleteProduct, CreateApiKey, RevokeKey,
         DropRate, Deny, StoreRecord, ReadRate, WriteRate, hist
    <2>2. k \notin record'
      <3>1. k \in clean /\ k \notin record /\ ~Carries(c, k)
        BY <2>1 DEF CleanInv
      <3>2. CASE StoreRecord(c)
        BY <3>1, <3>2 DEF StoreRecord, Carries, At
      <3>3. CASE ~StoreRecord(c)
        BY <1>3, <3>1, <3>3 DEF Writes, Register, CreateProduct, UpdateProduct, DeleteProduct, CreateApiKey,
           RevokeKey, DropRate, Deny, ReadRate, WriteRate, cache
      <3> QED
        BY <3>2, <3>3
    <2> QED
      BY <1>1, <1>3, <2>1, <2>2
  <1>4. ASSUME NEW c \in Call, DropRecord(c)
        PROVE  /\ key'[k] # NoKey /\ ~key'[k].active /\ k \notin record'
               /\ \A d \in Call : ~Carries(d, k)'
    <2>1. CASE k \in clean
      <3>1. k \notin record'
        BY <1>4, <2>1 DEF DropRecord, CleanInv
      <3> QED
        BY <1>1, <1>4, <2>1, <3>1 DEF Writes
    <2>2. CASE k \notin clean
      <3>1. k = call[c].on /\ record' = record \ {k} /\ Carrying(k) = {} /\ key' = key
            /\ Goto(c, "dropRate") /\ At(c, "revokeKey", "dropRecord")
        BY <1>4, <2>2 DEF DropRecord, table
      <3>2. CallOK(c) /\ call[c].by \in Wallet /\ k \in Key
        BY <3>1 DEF TypeInv, CallOK, At, Ends
      <3>3. key[k] # NoKey /\ ~key[k].active
        BY <3>1, <3>2, ConstantsAssumption, NoCallType DEF CallOK, At
      <3>4. \A d \in Call : ~Carries(d, k)
        BY <3>1 DEF Carrying, Carries
      <3>5. (\A d \in Call \ {c} : call'[d] = call[d]) /\ call'[c].at = "dropRate"
        BY <3>1, GotoOK DEF TypeInv, Pc
      <3>6. \A d \in Call : ~Carries(d, k)'
        BY <3>4, <3>5 DEF Carries
      <3> QED
        BY <3>1, <3>3, <3>6
    <2> QED
      BY <2>1, <2>2
  <1>5. CASE (\E j \in Key : KeyExpires(j) \/ EntryExpires(j)) \/ UNCHANGED vars
    <2>1. clean' = clean /\ key' = key /\ record' \subseteq record /\ UNCHANGED call
      BY <1>5 DEF KeyExpires, EntryExpires, vars, table, cache, hist
    <2> QED
      BY <2>1 DEF CleanInv, Carries
  <1> QED
    BY <1>2, <1>3, <1>4, <1>5, NextSplit

\* A request is admitted only by a step of the rate limit, with the key in its hands.
LEMMA AdmittedCarries ==
  ASSUME TypeInv, [Next]_vars, NEW c \in Call, call[c].at # "admitted", call'[c].at = "admitted"
  PROVE  Carries(c, call[c].on)
  <1>0. call \in [Call -> CallRec] /\ CallOK(c)
    BY DEF TypeInv
  <1>1. ASSUME NEW q \in Pc, Goto(c, q) PROVE q = "admitted"
    BY <1>0, <1>1, GotoOK
  <1>2. PICK d \in Call : Looks(d) \/ Writes(d)
    <2>1. call' # call
      OBVIOUS
    <2> QED
      BY <2>1, NextSplit DEF KeyExpires, EntryExpires, vars
  <1>3. d = c
    BY <1>2, LooksCall, WritesCall
  <1>4. CASE ReadRate(c)
    BY <1>4 DEF ReadRate, Carries, At
  <1>5. CASE WriteRate(c)
    BY <1>5 DEF WriteRate, Carries, At
  <1>6. ASSUME NEW q \in {"insert", "load", "done", "refused", "duplicate", "write", "dropRecord", "rate",
                          "dropRate", "negative", "recheck", "store", "deny"}, Goto(c, q)
        PROVE  FALSE
    BY <1>1, <1>6 DEF Pc, Ends
  <1>7. CASE Looks(c)
    <2>1. CASE Start(c) \/ Request(c)
      BY <2>1, StartAt
    <2>2. CASE FindVendor(c)
      <3>1. AfterVendor(c) \in {"refused", "insert", "done", "load"}
        BY DEF AfterVendor
      <3> QED
        BY <1>6, <2>2, <3>1 DEF FindVendor
    <2>3. CASE \/ OwnProduct(c) \/ AdminAction(c) \/ FindKey(c) \/ RevokeFails(c) \/ Throttled(c)
               \/ ReadRecord(c) \/ ReadNegative(c) \/ LoadKey(c) \/ Recheck(c)
      BY <1>6, <2>3 DEF OwnProduct, AdminAction, FindKey, RevokeFails, Throttled, ReadRecord, ReadNegative,
         LoadKey, Recheck, Validated
    <2> QED
      BY <1>7, <2>1, <2>2, <2>3 DEF Looks
  <1>8. CASE \/ Register(c) \/ CreateProduct(c) \/ UpdateProduct(c) \/ DeleteProduct(c)
             \/ CreateApiKey(c) \/ RevokeKey(c) \/ DropRecord(c) \/ DropRate(c) \/ Deny(c) \/ StoreRecord(c)
    BY <1>6, <1>8 DEF Register, CreateProduct, UpdateProduct, DeleteProduct, CreateApiKey, RevokeKey,
       DropRecord, DropRate, Deny, StoreRecord
  <1> QED
    BY <1>2, <1>3, <1>4, <1>5, <1>7, <1>8 DEF Writes

\* However calls, expiries and failures interleave, no request is admitted by a key
\* that was revoked while no request carried it.
THEOREM RevocationHolds == Spec => RevokedIsRefused
  <1>1. Init => CleanInv
    BY DEF Init, CleanInv
  <1>2. TypeInv /\ CleanInv /\ [Next]_vars =>
          [\A c \in Call : call[c].at # "admitted" /\ call'[c].at = "admitted" => call[c].on \notin clean]_vars
    BY AdmittedCarries DEF CleanInv
  <1> QED
    BY <1>1, <1>2, CleanStep, TypeAlways, PTL DEF Spec, RevokedIsRefused

-----------------------------------------------------------------------------
\* The rate limit

\* As long as nothing shared a counter, it says how many requests have passed, and at
\* most one request has read it and is about to write it.
RateInv ==
  \A k \in alone :
    /\ passed[k] = rate[k]
    /\ \A c \in Call : c \in Counting(k) => call[c].seen = rate[k]
    /\ \A c, d \in Call : c \in Counting(k) /\ d \in Counting(k) => c = d

\* Only ReadRate makes a request count.
LEMMA BeginsToCount ==
  ASSUME TypeInv, NEW c \in Call, Looks(c) \/ Writes(c), call'[c].at = "count"
  PROVE  ReadRate(c)
  <1>0. call \in [Call -> CallRec]
    BY DEF TypeInv
  <1>1. ASSUME NEW q \in {"insert", "load", "done", "refused", "duplicate", "write", "dropRecord", "rate",
                          "dropRate", "negative", "recheck", "store", "deny", "admitted"}, Goto(c, q)
        PROVE  FALSE
    <2>1. q \in Pc
      BY DEF Pc, Ends
    <2> QED
      BY <1>0, <1>1, <2>1, GotoOK
  <1>2. CASE Looks(c)
    <2>1. CASE Start(c) \/ Request(c)
      BY <2>1, StartAt
    <2>2. CASE FindVendor(c)
      <3>1. AfterVendor(c) \in {"refused", "insert", "done", "load"}
        BY DEF AfterVendor
      <3> QED
        BY <1>1, <2>2, <3>1 DEF FindVendor
    <2>3. CASE \/ OwnProduct(c) \/ AdminAction(c) \/ FindKey(c) \/ RevokeFails(c) \/ Throttled(c)
               \/ ReadRecord(c) \/ ReadNegative(c) \/ LoadKey(c) \/ Recheck(c)
      BY <1>1, <2>3 DEF OwnProduct, AdminAction, FindKey, RevokeFails, Throttled, ReadRecord, ReadNegative,
         LoadKey, Recheck, Validated
    <2> QED
      BY <1>2, <2>1, <2>2, <2>3 DEF Looks
  <1>3. CASE \/ Register(c) \/ CreateProduct(c) \/ UpdateProduct(c) \/ DeleteProduct(c)
             \/ CreateApiKey(c) \/ RevokeKey(c) \/ DropRecord(c) \/ DropRate(c) \/ Deny(c) \/ StoreRecord(c)
             \/ WriteRate(c)
    BY <1>1, <1>3 DEF Register, CreateProduct, UpdateProduct, DeleteProduct, CreateApiKey, RevokeKey,
       DropRecord, DropRate, Deny, StoreRecord, WriteRate, LetThrough
  <1> QED
    BY <1>2, <1>3 DEF Writes

LEMMA RateStep == TypeInv /\ RateInv /\ [Next]_vars => RateInv'
  <1> SUFFICES ASSUME TypeInv, RateInv, [Next]_vars PROVE RateInv'
    OBVIOUS
  <1>0. /\ rate \in [Key -> 0 .. MaxRequests] /\ passed \in [Key -> 0 .. MaxRequests + 1]
        /\ alone \subseteq Key /\ call \in [Call -> CallRec]
    BY DEF TypeInv, TypeOK
  \* Steps that leave the counters alone, and of which none begins or ends counting.
  <1>a. ASSUME UNCHANGED <<rate, passed, alone>>,
               \A d \in Call : call'[d] = call[d] \/ (call'[d].at # "count" /\ call[d].at # "count")
        PROVE  RateInv'
    BY <1>a DEF RateInv, Counting, At
  \* A new window, by a step that ends none of the requests that count.
  <1>b. ASSUME NEW k \in Key, NewWindow(k),
               \A d \in Call : call'[d] = call[d] \/ (call'[d].at # "count" /\ call[d].at # "count")
        PROVE  RateInv'
    <2>1. \A j \in Key : Counting(j)' = Counting(j)
      BY <1>b DEF Counting, At
    <2>2. /\ rate' = [rate EXCEPT ![k] = 0] /\ passed' = [passed EXCEPT ![k] = 0]
          /\ k \in alone' => Counting(k) = {}
          /\ \A j \in Key \ {k} : j \in alone' => j \in alone
          /\ alone' \subseteq Key
      BY <1>0, <1>b DEF NewWindow
    <2>3. ASSUME NEW j \in alone', j # k
          PROVE  /\ passed'[j] = rate'[j]
                 /\ \A c \in Call : c \in Counting(j)' => call'[c].seen = rate'[j]
                 /\ \A c, d \in Call : c \in Counting(j)' /\ d \in Counting(j)' => c = d
      <3>1. j \in Key /\ j \in alone /\ passed'[j] = passed[j] /\ rate'[j] = rate[j]
        BY <1>0, <2>2, <2>3
      <3>2. \A c \in Counting(j) : call'[c] = call[c]
        BY <1>b DEF Counting, At
      <3> QED
        BY <2>1, <3>1, <3>2 DEF RateInv
    <2>4. ASSUME k \in alone'
          PROVE  /\ passed'[k] = rate'[k] /\ Counting(k)' = {}
      BY <1>0, <2>1, <2>2, <2>4
    <2> QED
      BY <2>3, <2>4 DEF RateInv
  <1>1. ASSUME NEW c \in Call, Looks(c) PROVE RateInv'
    <2>1. UNCHANGED <<rate, passed, alone>> /\ \A d \in Call \ {c} : call'[d] = call[d]
      BY <1>1, LooksCall DEF cache, hist
    <2>2. call[c].at # "count" /\ ~ReadRate(c)
      BY <1>1 DEF Looks, Start, FindVendor, OwnProduct, AdminAction, FindKey, RevokeFails, Request, Throttled,
         ReadRecord, ReadNegative, LoadKey, Recheck, Free, Ends, At, ReadRate, OwnerOps, AdminOps
    <2>3. call'[c].at # "count"
      BY <1>1, <2>2, BeginsToCount
    <2> QED
      BY <1>a, <2>1, <2>2, <2>3
  <1>2. ASSUME NEW c \in Call, Writes(c), ~ReadRate(c), ~WriteRate(c) PROVE RateInv'
    <2>1. \A d \in Call \ {c} : call'[d] = call[d]
      BY <1>2, WritesCall
    <2>2. call[c].at # "count" /\ call'[c].at # "count"
      <3>1. call[c].at # "count"
        BY <1>2 DEF Writes, Register, CreateProduct, UpdateProduct, DeleteProduct, CreateApiKey, RevokeKey,
           DropRecord, DropRate, Deny, StoreRecord, At
      <3> QED
        BY <1>2, <3>1, BeginsToCount
    <2>3. CASE DropRate(c)
      <3>1. call[c].on \in Key
        BY <2>3 DEF DropRate, TypeInv, CallOK, At, Ends
      <3> QED
        BY <1>a, <1>b, <2>1, <2>2, <2>3, <3>1 DEF DropRate
    <2>4. CASE ~DropRate(c)
      <3>1. UNCHANGED <<rate, passed, alone>>
        BY <1>2, <2>4 DEF Writes, Register, CreateProduct, UpdateProduct, DeleteProduct, CreateApiKey, RevokeKey,
           DropRecord, Deny, StoreRecord, cache, hist
      <3> QED
        BY <1>a, <2>1, <2>2, <3>1
    <2> QED
      BY <2>3, <2>4
  <1>3. ASSUME NEW c \in Call, ReadRate(c) PROVE RateInv'
    <2>0. PICK k \in Key : k = call[c].on
      BY <1>3 DEF ReadRate, TypeInv, CallOK, At, Ends
    <2>1. /\ rate' = rate /\ alone' \subseteq alone /\ k \in Key /\ call[c].at # "count"
          /\ \A d \in Call \ {c} : call'[d] = call[d]
      BY <1>3, WritesCall DEF ReadRate, cache, Writes, TypeInv, CallOK, At, Ends
    <2>2. CASE call'[c].at # "count"
      <3>1. UNCHANGED <<passed, alone>> \/ (alone' = alone \ {k} /\ \A j \in Key \ {k} : passed'[j] = passed[j])
        BY <1>0, <1>3, <2>0, <2>1, <2>2 DEF ReadRate, LetThrough, CallRec
      <3>2. \A j \in alone' : j \in alone /\ passed'[j] = passed[j]
        BY <1>0, <2>1, <3>1
      <3>3. \A j \in Key : Counting(j)' = Counting(j) /\ \A d \in Counting(j) : call'[d] = call[d]
        BY <2>1, <2>2 DEF Counting, At
      <3> QED
        BY <1>0, <2>1, <3>2, <3>3 DEF RateInv
    <2>3. CASE call'[c].at = "count"
      <3>1. /\ call' = [call EXCEPT ![c].at = "count", ![c].seen = rate[k]] /\ passed' = passed
            /\ alone' = IF Counting(k) = {} THEN alone ELSE alone \ {k}
        <4>1. ASSUME NEW q \in {"admitted", "refused"}, Goto(c, q) PROVE FALSE
          BY <1>0, <2>3, <4>1, GotoOK DEF Pc, Ends
        <4> QED
          BY <1>3, <2>0, <4>1 DEF ReadRate, LetThrough
      <3>2. call'[c].on = k /\ call'[c].seen = rate[k]
        BY <1>0, <2>0, <3>1 DEF CallRec
      <3>3. \A j \in Key \ {k} : Counting(j)' = Counting(j) /\ \A d \in Counting(j) : call'[d] = call[d]
        BY <2>0, <2>1, <3>2 DEF Counting, At
      <3>4. Counting(k)' \subseteq Counting(k) \cup {c}
        BY <2>1 DEF Counting, At
      <3>5. ASSUME NEW j \in alone', j # k
            PROVE  /\ passed'[j] = rate'[j]
                   /\ \A a \in Call : a \in Counting(j)' => call'[a].seen = rate'[j]
                   /\ \A a, d \in Call : a \in Counting(j)' /\ d \in Counting(j)' => a = d
        <4>1. j \in alone /\ j \in Key \ {k} /\ passed'[j] = passed[j] /\ rate'[j] = rate[j]
          BY <1>0, <2>1, <3>1, <3>5
        <4>2. Counting(j)' = Counting(j) /\ \A d \in Counting(j) : call'[d] = call[d]
          BY <3>3, <4>1
        <4> QED
          BY <4>1, <4>2 DEF RateInv
      <3>6. ASSUME k \in alone'
            PROVE  /\ passed'[k] = rate'[k]
                   /\ \A a \in Call : a \in Counting(k)' => call'[a].seen = rate'[k]
                   /\ \A a, d \in Call : a \in Counting(k)' /\ d \in Counting(k)' => a = d
        <4>1. Counting(k) = {} /\ k \in alone
          BY <3>1, <3>6
        <4>2. Counting(k)' \subseteq {c}
          BY <3>4, <4>1
        <4> QED
          BY <2>1, <3>1, <3>2, <4>1, <4>2 DEF RateInv
      <3> QED
        BY <3>5, <3>6 DEF RateInv
    <2> QED
      BY <2>2, <2>3
  <1>4. ASSUME NEW c \in Call, WriteRate(c) PROVE RateInv'
    <2>0. PICK k \in Key : k = call[c].on
      BY <1>4 DEF WriteRate, TypeInv, CallOK, At, Ends
    <2>1. /\ c \in Counting(k) /\ k \in Key /\ call[c].seen < MaxRequests /\ call[c].seen \in Nat
          /\ \A d \in Call \ {c} : call'[d] = call[d]
      BY <1>0, <1>4, <2>0, WritesCall DEF WriteRate, Writes, TypeInv, CallOK, At, Ends, CallRec, Counting
    <2>2. call'[c].at # "count"
      <3>1. ~ReadRate(c)
        BY <1>4 DEF ReadRate, WriteRate, At
      <3> QED
        BY <1>4, <3>1, BeginsToCount DEF Writes
    <2>3. \A j \in Key : Counting(j)' = Counting(j) \ {c}
      BY <2>1, <2>2 DEF Counting, At
    <2>4. /\ passed' = [passed EXCEPT ![k] = IF @ > MaxRequests THEN @ ELSE @ + 1]
          /\ \/ rate' = [rate EXCEPT ![k] = call[c].seen + 1] /\ alone' = alone
             \/ alone' = alone \ {k} /\ rate' = rate
      BY <1>4, <2>0 DEF WriteRate, LetThrough
    <2>5. ASSUME NEW j \in alone', j # k
          PROVE  /\ passed'[j] = rate'[j]
                 /\ \A a \in Call : a \in Counting(j)' => call'[a].seen = rate'[j]
                 /\ \A a, d \in Call : a \in Counting(j)' /\ d \in Counting(j)' => a = d
      <3>1. j \in alone /\ j \in Key /\ passed'[j] = passed[j] /\ rate'[j] = rate[j]
        BY <1>0, <2>4, <2>5
      <3>2. \A a \in Counting(j) \ {c} : call'[a] = call[a]
        BY <2>1 DEF Counting
      <3> QED
        BY <2>3, <3>1, <3>2 DEF RateInv
    <2>6. ASSUME k \in alone'
          PROVE  passed'[k] = rate'[k] /\ Counting(k)' = {}
      <3>1. k \in alone /\ rate' = [rate EXCEPT ![k] = call[c].seen + 1]
        BY <2>4, <2>6
      <3>2. passed[k] = rate[k] /\ call[c].seen = rate[k] /\ \A d \in Counting(k) : d = c
        BY <2>1, <3>1 DEF RateInv, Counting
      <3>3. passed[k] \in Nat /\ ~(passed[k] > MaxRequests)
        BY <1>0, <2>1, <3>2, ConstantsAssumption
      <3> QED
        BY <1>0, <2>1, <2>3, <2>4, <3>1, <3>2, <3>3
    <2> QED
      BY <2>5, <2>6 DEF RateInv
  <1>5. ASSUME NEW k \in Key, KeyExpires(k) \/ EntryExpires(k) PROVE RateInv'
    BY <1>a, <1>b, <1>5 DEF KeyExpires, EntryExpires, cache, hist
  <1>6. CASE UNCHANGED vars
    BY <1>a, <1>6 DEF vars, cache, hist
  <1> QED
    BY <1>1, <1>2, <1>3, <1>4, <1>5, <1>6, NextSplit

\* The limit is exact for every key whose requests have not overlapped between the two
\* calls that count them, and whose counter the cache has always given and taken.
THEOREM LimitHolds == Spec => []LimitWithoutOverlap
  <1>1. Init => RateInv
    BY DEF Init, RateInv, Counting, At, NoCall
  <1>2. TypeInv /\ RateInv => LimitWithoutOverlap
    <2> SUFFICES ASSUME TypeInv, RateInv, NEW k \in alone PROVE passed[k] <= MaxRequests
      BY DEF LimitWithoutOverlap
    <2>1. k \in Key /\ rate[k] \in 0 .. MaxRequests
      BY DEF TypeInv, TypeOK
    <2> QED
      BY <2>1, ConstantsAssumption DEF RateInv
  <1> QED
    BY <1>1, <1>2, RateStep, TypeAlways, PTL DEF Spec
=============================================================================
