---------------------------------- MODULE Challenge ----------------------------------
(***************************************************************************)
(* What a wallet signs to log in and how the signature is checked: generateNonce's    *)
(* answer and the four schemes of verifySignature (AuthService). That a nonce serves    *)
(* once is in Sessions; here a check may be made at any time, after the settings have   *)
(* changed, with what was answered for this nonce or for another of the wallet's.      *)
(***************************************************************************)
EXTENDS Naturals

CONSTANTS
  Nonce, Domain, Network,
  TTL,      \* NONCE_EXPIRATION_SECONDS, in ticks
  Second,   \* ticks to a second: timebounds are in whole seconds
  Sunset,   \* AUTH_LEGACY_SIGNATURES_SUNSET
  LastTick  \* bound on the clock

VARIABLES
  now,
  config,   \* domain (and URI) of the challenges, network passphrase, and whether
            \* AUTH_ALLOW_LEGACY_RAW_SIGNATURES is set
  row       \* nonces: what is stored, with what was answered; or NoRow

vars == <<now, config, row>>

Configs == [domain : Domain, network : Network, legacy : BOOLEAN]
NoHash  == <<"none">>
NoRow   == [issued |-> FALSE]

Init ==
  /\ now = 0
  /\ config \in Configs
  /\ row = [n \in Nonce |-> NoRow]

\* buildChallengeMessage
Envelope(c, n, expires) == [domain |-> c.domain, network |-> c.network, nonce |-> n, expires |-> expires]
Digest(message)         == <<"sha256", message>>

\* buildChallengeTransaction: of the wallet, with sequence 0 and a single manageData.
Transaction(c, hash, expires) == [value |-> hash, maxTime |-> expires \div Second, network |-> c.network]

\* A row made before message_hash was added to the table has none.
Issue(n) ==
  /\ ~row[n].issued
  /\ LET message == Envelope(config, n, now + TTL) IN
     \E hash \in {Digest(message), NoHash} :
       row' = [row EXCEPT ![n] = [issued |-> TRUE, expires |-> now + TTL, hash |-> hash, message |-> message,
                                  transaction |-> Transaction(config, hash, now + TTL)]]
  /\ UNCHANGED <<now, config>>

\* A deployment with other settings.
Deploy ==
  /\ config' \in Configs \ {config}
  /\ UNCHANGED <<now, row>>

Tick ==
  /\ now < LastTick
  /\ now' = now + 1
  /\ UNCHANGED <<config, row>>

Next == (\E n \in Nonce : Issue(n)) \/ Deploy \/ Tick

Spec == Init /\ [][Next]_vars

-----------------------------------------------------------------------------
\* The schemes. A signature verifies if it was made by the wallet over the very bytes.

\* Mutant: the timebound is compared without its unit.
LivesUnscaled(transaction) == transaction.maxTime > now

Lives(transaction) == transaction.maxTime * Second > now

\* Mutant: the value of the operation is not compared.
CarriesAny(transaction, r) == r.hash # NoHash

Carries(transaction, r) == r.hash # NoHash /\ transaction.value = r.hash

\* verifySep0010Challenge: the hash that is signed is the network's own.
Sep0010(n, signed) ==
  /\ Carries(signed, row[n])
  /\ Lives(signed)
  /\ signed.network = config.network

\* assertChallengeBinding
Bound(n, message) ==
  /\ row[n].hash # NoHash /\ Digest(message) = row[n].hash
  /\ message.domain = config.domain /\ message.network = config.network
  /\ message.nonce = n /\ message.expires > now

\* resolveChallengeMessage: the one that is sent along, or the one made again.
Canonical(n, signed, echoed) ==
  LET message == IF echoed THEN signed ELSE Envelope(config, n, row[n].expires)
  IN Bound(n, message) /\ signed = message

\* verifyLegacyRawSignature: over the nonce alone.
Raw(n, signed) == config.legacy /\ now < Sunset /\ signed = n

Schemes == {"sep0010", "sep0043", "envelope", "raw"}

\* verifySignature, of a client that holds the answer for the nonce m. The two schemes
\* that sign the message differ in the bytes they hash.
Accepts(n, m, scheme, echoed) ==
  /\ row[n].issued /\ row[n].expires >= now
  /\ CASE scheme = "sep0010" -> Sep0010(n, row[m].transaction)
       [] scheme = "raw"     -> Raw(n, m)
       [] OTHER              -> Canonical(n, row[m].message, echoed)

-----------------------------------------------------------------------------
\* Properties

Answered == {n \in Nonce : row[n].issued}

\* Whatever the scheme, only the challenge of this nonce is accepted, and none after it
\* has expired; and if it is not the bare nonce, only one made for this network -- and,
\* but for the transaction, which names no domain, for this domain.
AcceptedIsBound ==
  \A n, m \in Answered, scheme \in Schemes, echoed \in BOOLEAN :
    Accepts(n, m, scheme, echoed) =>
      /\ m = n /\ now <= row[n].expires
      /\ scheme # "raw" => row[n].message.network = config.network
      /\ scheme \notin {"raw", "sep0010"} => row[n].message.domain = config.domain

\* A client that signs what it was sent is accepted by every scheme, with or without
\* the message, until the last whole second of the nonce -- as long as the settings
\* are those of the answer; the bare nonce, while it is still allowed.
FreshIsAccepted ==
  \A n \in Answered, scheme \in Schemes, echoed \in BOOLEAN :
    /\ now < (row[n].expires \div Second) * Second
    /\ IF scheme = "raw" THEN config.legacy /\ now < Sunset
       ELSE row[n].hash # NoHash /\ row[n].message = Envelope(config, n, row[n].expires)
    => Accepts(n, n, scheme, echoed)
=============================================================================
