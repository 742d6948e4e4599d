---------------------------------- MODULE Vendors ----------------------------------
(***************************************************************************)
(* What a vendor's wallet may do, VendorsService: register, keep products, make  *)
(* and revoke API keys; and ApiKeyGuard, which admits requests by those keys.    *)
(* Calls interleave at every await. Any call to the database or to the cache may *)
(* fail, and an entry of the cache may be gone at any time: each has a TTL.      *)
(* The rows are read with the anonymous client and written with the service role.*)
(***************************************************************************)
EXTENDS Naturals, FiniteSets

CONSTANTS
  Wallet, Product, Key,   \* wallets; ids of products and of API keys
  Field, Value,           \* what a product row holds
  Call,                   \* slots for concurrent calls
  MaxRequests             \* API_KEY_RATE_LIMIT_MAX_REQUESTS

Nobody == "nobody"
ASSUME ConstantsAssumption ==
  /\ MaxRequests \in Nat \ {0}
  /\ Nobody \notin Wallet

VARIABLES
  readable,   \* whether the deployment lets the anonymous client read the tables
  vendor,     \* vendors: wallets with a row
  product,    \* vendor_products: owner and fields, or NoProduct
  key,        \* api_keys: owner and is_active, or NoKey
  expired,    \* keys whose expires_at is over
  record,     \* cache: keys with an entry apikey:record
  negative,   \* cache: keys with an entry apikey:negative
  rate,       \* cache: apikey:rate, 0 when there is none
  call,       \* calls in progress
  clean,      \* history: revoked keys that no call carried when their record was dropped
  passed,     \* history: requests let through since the rate entry was last gone
  alone       \* history: keys whose counter was never shared, nor failed, since then

table == <<readable, vendor, product, key, expired>>
cache == <<record, negative, rate>>
hist  == <<clean, passed, alone>>
vars  == <<table, cache, call, hist>>

NoProduct == [owner |-> Nobody]
Products  == [owner : Wallet, row : [Field -> Value]]
NoKey     == [owner |-> Nobody, active |-> FALSE]

OwnerOps == {"createProduct", "updateProduct", "deleteProduct", "createKey", "revokeKey", "list"}
AdminOps == {"approveVendor", "suspendVendor"}
Ops      == OwnerOps \cup AdminOps \cup {"register", "guard"}

\* by: the wallet that calls (that is concerned, for an admin's call); on: the key
\* or product; seen: the counter as it was read; late: the wallet that registers had
\* a row when the call began.
NoCall == [at |-> "done", op |-> "list", by |-> Nobody, on |-> Nobody, seen |-> 0, late |-> FALSE]

Init ==
  /\ readable \in BOOLEAN
  /\ vendor = {}
  /\ product = [p \in Product |-> NoProduct]
  /\ key = [k \in Key |-> NoKey]
  /\ expired = {} /\ record = {} /\ negative = {}
  /\ rate = [k \in Key |-> 0]
  /\ call = [c \in Call |-> NoCall]
  /\ clean = {} /\ alone = Key
  /\ passed = [k \in Key |-> 0]

\* The ways a call ends: every answer of the 4xx and 5xx is "refused", but for the
\* violation of the unique index. A call that has ended leaves its slot free.
Ends    == {"done", "refused", "duplicate", "admitted"}
Free(c) == call[c].at \in Ends

At(c, op, pc) == call[c].op = op /\ call[c].at = pc
Goto(c, pc)   == call' = [call EXCEPT ![c] = IF pc \in Ends THEN [NoCall EXCEPT !.at = pc, !.late = call[c].late]
                                                            ELSE [@ EXCEPT !.at = pc]]

\* What the anonymous client finds of a wallet's row.
Visible(w) == readable /\ w \in vendor

-----------------------------------------------------------------------------
\* The owner's routes

Start(c) ==
  /\ Free(c)
  /\ \E op \in Ops \ {"guard"}, w \in Wallet :
     \E on \in CASE op \in {"updateProduct", "deleteProduct"} -> Product
                 [] op = "revokeKey" -> Key
                 [] OTHER -> {Nobody} :
       call' = [call EXCEPT ![c] = [NoCall EXCEPT
                  !.at = IF op \in AdminOps THEN "load" ELSE "vendor",
                  !.op = op, !.by = w, !.on = on, !.late = op = "register" /\ w \in vendor]]
  /\ UNCHANGED <<table, cache, hist>>

\* Mutant: a registration does not look for the row.
AfterVendorUnchecked(c) ==
  IF call[c].op # "register" /\ ~Visible(call[c].by) THEN "refused"
  ELSE CASE call[c].op \in {"register", "createProduct", "createKey"} -> "insert"
         [] call[c].op = "list" -> "done"
         [] OTHER -> "load"

\* A wallet that registers must have no row, any other must have one.
AfterVendor(c) ==
  IF (call[c].op = "register") = Visible(call[c].by) THEN "refused"
  ELSE CASE call[c].op \in {"register", "createProduct", "createKey"} -> "insert"
         [] call[c].op = "list" -> "done"
         [] OTHER -> "load"

\* findByWallet: the row, or null; any other answer of the database is an error.
FindVendor(c) ==
  /\ call[c].at = "vendor"
  /\ Goto(c, AfterVendor(c)) \/ Goto(c, "refused")
  /\ UNCHANGED <<table, cache, hist>>

\* The wallet's row is unique: the second INSERT fails.
Register(c) ==
  /\ At(c, "register", "insert")
  /\ \/ /\ call[c].by \notin vendor
        /\ vendor' = vendor \cup {call[c].by}
        /\ Goto(c, "done")
     \/ /\ call[c].by \in vendor
        /\ Goto(c, "duplicate")
        /\ UNCHANGED vendor
     \/ Goto(c, "refused") /\ UNCHANGED vendor
  /\ UNCHANGED <<readable, product, key, expired, cache, hist>>

CreateProduct(c) ==
  /\ At(c, "createProduct", "insert")
  /\ \/ /\ \E p \in Product, row \in [Field -> Value] :
             /\ product[p] = NoProduct
             /\ product' = [product EXCEPT ![p] = [owner |-> call[c].by, row |-> row]]
        /\ Goto(c, "done")
     \/ Goto(c, "refused") /\ UNCHANGED product
  /\ UNCHANGED <<readable, vendor, key, expired, cache, hist>>

\* requireOwnedProduct, before an update or a deletion.
OwnProduct(c) ==
  /\ call[c].op \in {"updateProduct", "deleteProduct"} /\ call[c].at = "load"
  /\ \/ Goto(c, CASE ~readable \/ product[call[c].on] = NoProduct -> "refused"
                  [] product[call[c].on].owner # call[c].by -> "refused"
                  [] OTHER -> "write")
     \/ Goto(c, "refused")
  /\ UNCHANGED <<table, cache, hist>>

\* The fields of the request are written, the others are left alone.
Patched(row, given) == [f \in Field |-> IF f \in DOMAIN given THEN given[f] ELSE row[f]]

UpdateProduct(c) ==
  /\ At(c, "updateProduct", "write")
  /\ \/ /\ product[call[c].on].owner = call[c].by
        /\ \E some \in SUBSET Field : \E given \in [some -> Value] :
             product' = [product EXCEPT ![call[c].on].row = Patched(@, given)]
        /\ Goto(c, "done")
     \/ Goto(c, "refused") /\ UNCHANGED product   \* also when no row matches: .single()
  /\ UNCHANGED <<readable, vendor, key, expired, cache, hist>>

\* A DELETE that matches no row is no error.
DeleteProduct(c) ==
  /\ At(c, "deleteProduct", "write")
  /\ \/ /\ product' = IF product[call[c].on].owner = call[c].by
                      THEN [product EXCEPT ![call[c].on] = NoProduct] ELSE product
        /\ Goto(c, "done")
     \/ Goto(c, "refused") /\ UNCHANGED product
  /\ UNCHANGED <<readable, vendor, key, expired, cache, hist>>

-----------------------------------------------------------------------------
\* The admin's routes: both only read the row and build a transaction, if the status
\* is the one to leave. No code writes the status, a row stays as it was inserted
\* unless an operator edits the table: any status may be found.
AdminAction(c) ==
  /\ call[c].op \in AdminOps /\ call[c].at = "load"
  /\ \/ Visible(call[c].by) /\ Goto(c, "done")
     \/ Goto(c, "refused")
  /\ UNCHANGED <<table, cache, hist>>

-----------------------------------------------------------------------------
\* API keys

CreateApiKey(c) ==
  /\ At(c, "createKey", "insert")
  /\ \/ /\ \E k \in Key :
             /\ key[k] = NoKey
             /\ key' = [key EXCEPT ![k] = [owner |-> call[c].by, active |-> TRUE]]
        /\ Goto(c, "done")
     \/ Goto(c, "refused") /\ UNCHANGED key
  /\ UNCHANGED <<readable, vendor, product, expired, cache, hist>>

FindKey(c) ==
  /\ At(c, "revokeKey", "load")
  /\ \/ key[call[c].on].owner = call[c].by /\ Goto(c, "write")
     \/ Goto(c, "refused")   \* no such key of this vendor, or an error
  /\ UNCHANGED <<table, cache, hist>>

\* The UPDATE; its answer may be lost, and then nothing is dropped from the cache.
RevokeKey(c) ==
  /\ At(c, "revokeKey", "write")
  /\ key' = [key EXCEPT ![call[c].on].active = FALSE]
  /\ Goto(c, "dropRecord") \/ Goto(c, "refused")
  /\ UNCHANGED <<readable, vendor, product, expired, cache, hist>>

RevokeFails(c) ==
  /\ At(c, "revokeKey", "write")
  /\ Goto(c, "refused")
  /\ UNCHANGED <<table, cache, hist>>

\* Requests that hold a valid record of the key already.
Carrying(k) == {c \in Call : call[c].op = "guard" /\ call[c].on = k
                             /\ call[c].at \in {"recheck", "store", "rate", "count"}}

\* Mutant: the record is looked for under the key's id instead of its hash.
DropRecordById(c) ==
  /\ At(c, "revokeKey", "dropRecord")
  /\ clean' = IF Carrying(call[c].on) = {} THEN clean \cup {call[c].on} ELSE clean
  /\ Goto(c, "dropRate")
  /\ UNCHANGED <<table, cache, passed, alone>>

DropRecord(c) ==
  /\ At(c, "revokeKey", "dropRecord")
  /\ \/ /\ record' = record \ {call[c].on}
        /\ clean' = IF Carrying(call[c].on) = {} THEN clean \cup {call[c].on} ELSE clean
        /\ Goto(c, "dropRate")
     \/ Goto(c, "done") /\ UNCHANGED <<record, clean>>   \* logged
  /\ UNCHANGED <<table, negative, rate, passed, alone>>

\* Requests between the two calls that count them.
Counting(k) == {c \in Call : At(c, "guard", "count") /\ call[c].on = k}

\* The counter starts again; a request that has read it goes on with the old value.
NewWindow(k) ==
  /\ rate' = [rate EXCEPT ![k] = 0]
  /\ passed' = [passed EXCEPT ![k] = 0]
  /\ alone' = IF Counting(k) = {} THEN alone \cup {k} ELSE alone \ {k}

DropRate(c) ==
  /\ At(c, "revokeKey", "dropRate")
  /\ NewWindow(call[c].on) \/ UNCHANGED <<rate, passed, alone>>
  /\ Goto(c, "done")
  /\ UNCHANGED <<table, record, negative, clean>>

-----------------------------------------------------------------------------
\* ApiKeyGuard.canActivate

Request(c) ==
  /\ Free(c)
  /\ \E k \in Key :
       call' = [call EXCEPT ![c] = [NoCall EXCEPT !.at = "record", !.op = "guard", !.on = k]]
  /\ UNCHANGED <<table, cache, hist>>

\* No header, or too many requests of one address (enforceIpRateLimit): the limit is
\* asked before every look-up of an unknown key and may refuse any of them.
Throttled(c) ==
  /\ call[c].op = "guard" /\ call[c].at \in {"record", "negative", "load"}
  /\ Goto(c, "refused")
  /\ UNCHANGED <<table, cache, hist>>

\* is_active and expires_at, of the row or of the cached record, which was active.
Validated(c, active) == Goto(c, IF active /\ call[c].on \notin expired THEN "recheck" ELSE "refused")

ReadRecord(c) ==
  /\ At(c, "guard", "record")
  /\ \/ call[c].on \in record /\ Validated(c, TRUE)
     \/ call[c].on \notin record /\ Goto(c, "negative")
     \/ Goto(c, "negative")   \* the cache does not answer
  /\ UNCHANGED <<table, cache, hist>>

ReadNegative(c) ==
  /\ At(c, "guard", "negative")
  /\ \/ call[c].on \in negative /\ Goto(c, "refused")
     \/ call[c].on \notin negative /\ Goto(c, "load")
     \/ Goto(c, "load")
  /\ UNCHANGED <<table, cache, hist>>

LoadKey(c) ==
  /\ At(c, "guard", "load")
  /\ \/ key[call[c].on] # NoKey /\ Validated(c, key[call[c].on].active)
     \/ Goto(c, "deny")   \* no such row, or an error
  /\ UNCHANGED <<table, cache, hist>>

Deny(c) ==
  /\ At(c, "guard", "deny")
  /\ negative' = negative \cup {call[c].on} \/ UNCHANGED negative
  /\ Goto(c, "refused")
  /\ UNCHANGED <<table, record, rate, hist>>

Recheck(c) ==
  /\ At(c, "guard", "recheck")
  /\ \/ Goto(c, IF call[c].on \in record THEN "rate" ELSE "store")
     \/ Goto(c, "rate")   \* the cache does not answer
  /\ UNCHANGED <<table, cache, hist>>

StoreRecord(c) ==
  /\ At(c, "guard", "store")
  /\ record' = record \cup {call[c].on} \/ UNCHANGED record
  /\ Goto(c, "rate")
  /\ UNCHANGED <<table, negative, rate, hist>>

\* Let through by the limit: admitted, or forbidden for want of a permission.
\* (The history stops counting once the limit is exceeded.)
LetThrough(c) ==
  /\ passed' = [passed EXCEPT ![call[c].on] = IF @ > MaxRequests THEN @ ELSE @ + 1]
  /\ Goto(c, "admitted") \/ Goto(c, "refused")

\* Mutant: one request too many.
BeyondLimit(n) == n > MaxRequests

AtLimit(n) == n >= MaxRequests

ReadRate(c) ==
  LET k == call[c].on IN
  /\ At(c, "guard", "rate")
  /\ \/ /\ AtLimit(rate[k])
        /\ Goto(c, "refused")
        /\ UNCHANGED <<passed, alone>>
     \/ /\ ~AtLimit(rate[k])
        /\ call' = [call EXCEPT ![c].at = "count", ![c].seen = rate[k]]
        /\ alone' = IF Counting(k) = {} THEN alone ELSE alone \ {k}
        /\ UNCHANGED passed
     \/ /\ LetThrough(c)   \* the cache does not answer
        /\ alone' = alone \ {k}
  /\ UNCHANGED <<table, cache, clean>>

WriteRate(c) ==
  LET k == call[c].on IN
  /\ At(c, "guard", "count")
  /\ LetThrough(c)
  /\ \/ /\ rate' = [rate EXCEPT ![k] = call[c].seen + 1]
        /\ UNCHANGED alone
     \/ alone' = alone \ {k} /\ UNCHANGED rate
  /\ UNCHANGED <<table, record, negative, clean>>

-----------------------------------------------------------------------------
\* The clock

KeyExpires(k) ==
  /\ key[k] # NoKey /\ k \notin expired
  /\ expired' = expired \cup {k}
  /\ UNCHANGED <<readable, vendor, product, key, cache, call, hist>>

EntryExpires(k) ==
  /\ \/ /\ k \in record /\ record' = record \ {k}
        /\ UNCHANGED <<negative, rate, passed, alone>>
     \/ /\ k \in negative /\ negative' = negative \ {k}
        /\ UNCHANGED <<record, rate, passed, alone>>
     \/ /\ rate[k] > 0 /\ NewWindow(k)
        /\ UNCHANGED <<record, negative>>
  /\ UNCHANGED <<table, call, clean>>

Route(c) ==
  \/ Start(c) \/ FindVendor(c) \/ Register(c) \/ CreateProduct(c) \/ OwnProduct(c)
  \/ UpdateProduct(c) \/ DeleteProduct(c) \/ AdminAction(c) \/ CreateApiKey(c)
  \/ FindKey(c) \/ RevokeKey(c) \/ RevokeFails(c) \/ DropRecord(c) \/ DropRate(c)

Guard(c) ==
  \/ Request(c) \/ Throttled(c) \/ ReadRecord(c) \/ ReadNegative(c) \/ LoadKey(c)
  \/ Deny(c) \/ Recheck(c) \/ StoreRecord(c) \/ ReadRate(c) \/ WriteRate(c)

Next ==
  \/ \E c \in Call : Route(c) \/ Guard(c)
  \/ \E k \in Key : KeyExpires(k) \/ EntryExpires(k)

Spec == Init /\ [][Next]_vars

-----------------------------------------------------------------------------
\* Properties

\* Every variable has its type. A counter is never beyond the limit, and every key
\* and product belongs to a wallet that has registered.
TypeOK ==
  /\ readable \in BOOLEAN
  /\ vendor \subseteq Wallet
  /\ product \in [Product -> Products \cup {NoProduct}]
  /\ key \in [Key -> [owner : Wallet \cup {Nobody}, active : BOOLEAN]]
  /\ expired \cup record \cup clean \cup alone \subseteq Key /\ negative \subseteq Key
  /\ rate \in [Key -> 0 .. MaxRequests] /\ passed \in [Key -> 0 .. MaxRequests + 1]
  /\ \A p \in Product : product[p] # NoProduct => product[p].owner \in vendor
  /\ \A k \in Key : key[k] # NoKey => key[k].owner \in vendor

\* revokeApiKey promises that the next request observes the revocation. It does when
\* no request was under way with the key in its hands while the record was dropped:
\* from then on no request is admitted, whatever the cache loses or the calls do. (One
\* that was under way puts the record back, and one that finds it there just before
\* it expires puts it back again.)
RevokedIsRefused ==
  [][\A c \in Call : call[c].at # "admitted" /\ call'[c].at = "admitted"
                       => call[c].on \notin clean]_vars

\* The rate limit is read and written in separate calls, with no lock. It is exact as
\* long as the requests that count do not overlap and the cache answers: no more than
\* MaxRequests pass before the counter is gone.
LimitWithoutOverlap == \A k \in alone : passed[k] <= MaxRequests

\* "A second attempt returns 409": a registration fails on the unique index only when
\* another one was made while it ran -- or when the tables cannot be read, since the
\* row is looked up with the anonymous client.
ConflictIsAnswered == \A c \in Call : call[c].at = "duplicate" => ~readable \/ ~call[c].late
=============================================================================
