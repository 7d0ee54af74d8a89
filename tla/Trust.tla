------------------------------- MODULE Trust -------------------------------
(***************************************************************************)
(* Tier tokens: trust-api processes mint them (StartSession), say whether  *)
(* they are valid (IntrospectTierToken) and give out their public key      *)
(* (GetPublicKeys); game servers cache the key and verify tokens offline   *)
(* (VerifyTierTokenOffline).  The processes get their key from KeyStore.   *)
(*                                                                         *)
(* A token is a wrapper (the fields in the clear) and an envelope: a key   *)
(* id, a payload and signature bytes.  Signatures cannot be forged: bytes  *)
(* that verify are those some process has made.                            *)
(***************************************************************************)
EXTENDS KeyStore

CONSTANTS
    GameServers,
    Refs,         \* session references with a session id and a match id
    Nonces,       \* the nonces drawn; bounds the sessions
    TTL,          \* lifetime of a token: ten minutes
    MaxTime,      \* bound of the clock
    None,         \* a time or a signature that is not there
    Garbage       \* signature bytes that nobody has made

ASSUME TimeAssumption == TTL \in Nat /\ MaxTime \in Nat /\ None \notin Nat

VARIABLES
    clock,
    signed,       \* every signature made
    returned,     \* tokens given to game servers
    cache         \* cache[g]: the keys game server g has fetched

trustVars == <<clock, signed, returned, cache>>
allVars == <<keyVars, trustVars>>

Tiers == {"UNSPECIFIED", "OPEN", "VERIFIED"}
Times == Nat \cup {None}
Fields == [ref : Refs, tier : Tiers, nonce : Nonces, issued : Times, expires : Times]

\* What the payload bytes are: none at all, not a TierToken, a token with a
\* signature inside, a token encoded in another way than Marshal does, or the
\* canonical encoding of a token without signature.
Forms == {"none", "junk", "signature inside", "not canonical", "canonical"}
Payloads == [form : Forms, fields : Fields]
Signatures == [key : Keys, payload : Payloads]

\* Unforgeability: neither value is a signature.
ASSUME BytesAssumption == None \notin Signatures /\ Garbage \notin Signatures

Envelopes == [keyId : MaybeKey, payload : Payloads, signature : Signatures \cup {None, Garbage}]
Tokens == [fields : Fields, envelope : Envelopes]

TypeOK ==
    /\ KeyTypeOK
    /\ clock \in 0..MaxTime
    /\ signed \subseteq Signatures
    /\ returned \subseteq Tokens
    /\ cache \in [GameServers -> SUBSET Keys]

Init ==
    /\ KeyInit
    /\ clock = 0
    /\ signed = {} /\ returned = {}
    /\ cache = [g \in GameServers |-> {}]

-----------------------------------------------------------------------------
(* The two verifiers *)

Verify(k, payload, signature) == signature = [key |-> k, payload |-> payload]

Missing(e) == e.payload.form = "none" \/ e.signature = None
Decoded(t) == t.envelope.payload.fields

\* Seeded fault: the wrapper is not compared with the signed payload.
IntrospectPayloadOnly(k, t, now) ==
    LET e == t.envelope
    IN  IF Missing(e) THEN "missing_signature"
        ELSE IF e.keyId # k THEN "unknown_key_id"
        ELSE IF e.payload.form # "canonical" THEN "payload_not_canonical"
        ELSE IF Decoded(t).expires = None \/ now > Decoded(t).expires THEN "expired"
        ELSE IF ~Verify(k, e.payload, e.signature) THEN "bad_signature"
        ELSE "ok"

\* Seeded fault: a token is refused in the last instant of its life.
IntrospectStrictly(k, t, now) ==
    LET e == t.envelope
    IN  IF Missing(e) THEN "missing_signature"
        ELSE IF e.keyId # k THEN "unknown_key_id"
        ELSE IF e.payload.form = "junk" THEN "bad_payload"
        ELSE IF e.payload.form # "canonical" THEN "payload_not_canonical"
        ELSE IF t.fields # Decoded(t) THEN "wrapper_mismatch"
        ELSE IF t.fields.expires = None \/ now >= t.fields.expires THEN "expired"
        ELSE IF ~Verify(k, e.payload, e.signature) THEN "bad_signature"
        ELSE "ok"

\* IntrospectTierToken by a process with key k.  The reasons that name one
\* field are one reason here, as are those for what is missing.
IntrospectTierToken(k, t, now) ==
    LET e == t.envelope
        mismatch == \E f \in DOMAIN t.fields : t.fields[f] # Decoded(t)[f]
    IN  IF Missing(e) THEN "missing_signature"
        ELSE IF e.keyId # k THEN "unknown_key_id"
        ELSE IF e.payload.form = "junk" THEN "bad_payload"
        ELSE IF e.payload.form # "canonical" THEN "payload_not_canonical"
        ELSE IF mismatch THEN "wrapper_mismatch"
        ELSE IF t.fields.expires = None THEN "missing_expires_at"
        ELSE IF now > t.fields.expires THEN "expired"
        ELSE IF ~Verify(k, e.payload, e.signature) THEN "bad_signature"
        ELSE "ok"

\* Seeded fault: whether the token has expired is asked first.
VerifyExpiryFirst(t, keys, now) ==
    LET e == t.envelope
    IN  IF Missing(e) THEN "ErrMissingSignature"
        ELSE IF t.fields.expires = None \/ now > t.fields.expires THEN "ErrExpired"
        ELSE IF e.keyId \notin keys THEN "ErrUnknownKeyID"
        ELSE IF e.payload.form = "junk" THEN "ErrBadPayload"
        ELSE IF e.payload.form # "canonical" THEN "ErrNotCanonical"
        ELSE IF t.fields # Decoded(t) THEN "ErrWrapperMismatch"
        ELSE IF ~Verify(e.keyId, e.payload, e.signature) THEN "ErrBadSignature"
        ELSE "nil"

\* VerifyTierTokenOffline with the key set `keys'.
VerifyTierTokenOffline(t, keys, now) ==
    LET e == t.envelope
    IN  IF Missing(e) THEN "ErrMissingSignature"
        ELSE IF e.keyId \notin keys THEN "ErrUnknownKeyID"
        ELSE IF e.payload.form = "junk" THEN "ErrBadPayload"
        ELSE IF e.payload.form # "canonical" THEN "ErrNotCanonical"
        ELSE IF t.fields # Decoded(t) THEN "ErrWrapperMismatch"
        ELSE IF t.fields.expires = None THEN "ErrExpired"
        ELSE IF now > t.fields.expires THEN "ErrExpired"
        ELSE IF ~Verify(e.keyId, e.payload, e.signature) THEN "ErrBadSignature"
        ELSE "nil"

-----------------------------------------------------------------------------
(* The service *)

NonceOf(s) == s.payload.fields.nonce

\* A token is signed before requested_tier is looked at: a request for a tier
\* other than OPEN and VERIFIED gets an error and leaves a signature behind.
\* Whatever was requested, the token is for OPEN.
StartSession(p, ref, requested) ==
    \E n \in Nonces \ {NonceOf(s) : s \in signed} :
        LET fields == [ref |-> ref, tier |-> "OPEN", nonce |-> n,
                       issued |-> clock, expires |-> clock + TTL]
            payload == [form |-> "canonical", fields |-> fields]
            signature == [key |-> key[p], payload |-> payload]
            envelope == [keyId |-> key[p], payload |-> payload, signature |-> signature]
        IN  /\ Serving(p)
            /\ signed' = signed \cup {signature}
            /\ returned' = IF requested \in {"OPEN", "VERIFIED"}
                           THEN returned \cup {[fields |-> fields, envelope |-> envelope]}
                           ELSE returned
            /\ UNCHANGED <<keyVars, clock, cache>>

\* Seeded fault: the answer is given before the key is loaded.
GetPublicKeysEarly(g, p) ==
    /\ pc[p] # "down"
    /\ cache' = [cache EXCEPT ![g] = {key[p]}]
    /\ UNCHANGED <<keyVars, clock, signed, returned>>

\* GetPublicKeys answers with the one key of the process.  Nothing in the code
\* makes a game server forget it at CacheUntil.
GetPublicKeys(g, p) ==
    /\ Serving(p)
    /\ cache' = [cache EXCEPT ![g] = {key[p]}]
    /\ UNCHANGED <<keyVars, clock, signed, returned>>

\* One clock for all processes and game servers: their clocks agree.
Tick ==
    /\ clock < MaxTime
    /\ clock' = clock + 1
    /\ UNCHANGED <<keyVars, signed, returned, cache>>

Next ==
    \/ \E p \in Processes : KeyStep(p) /\ UNCHANGED trustVars
    \/ \E p \in Processes, ref \in Refs, tier \in Tiers : StartSession(p, ref, tier)
    \/ \E g \in GameServers, p \in Processes : GetPublicKeys(g, p)
    \/ Tick

Spec == Init /\ [][Next]_allVars

-----------------------------------------------------------------------------
(* Properties *)

Unexpired(t) == clock <= t.fields.expires
Valid(p, t) == IntrospectTierToken(key[p], t, clock) = "ok"
Passes(g, t) == VerifyTierTokenOffline(t, cache[g], clock) = "nil"

\* "servers can verify TierTokens offline using cached public keys"
\* (README.md:129): until it expires, a token that was given out is valid to
\* every process, the one that minted it or another, before and after crashes
\* and restarts, and to every game server that has ever fetched the key,
\* unless creations of the key overlapped.
UnexpiredIsAccepted ==
    overlapped \/ \A t \in returned : Unexpired(t) =>
        /\ \A p \in Processes : Serving(p) => Valid(p, t)
        /\ \A g \in GameServers : cache[g] # {} => Passes(g, t)

\* Tokens put together from what has been signed: wrapper, payload, key id and
\* signature bytes taken from different tokens, altered or left out.
Altered ==
    UNION {{f,
            [f EXCEPT !.tier = "VERIFIED", !.expires = MaxTime + TTL],
            [f EXCEPT !.expires = None]} : f \in {s.payload.fields : s \in signed}}

Presented ==
    [fields : Altered,
     envelope : [keyId : {s.key : s \in signed} \cup {NoKey},
                 payload : [form : {"canonical"}, fields : Altered] \cup
                           [form : Forms, fields : {s.payload.fields : s \in signed}],
                 signature : signed \cup {None, Garbage}]]

\* Only what StartSession signed is accepted, and only in its lifetime: an
\* accepted token, however it was put together, shows in the clear a session,
\* an OPEN tier and times that one signature covers.
AcceptedWasSigned ==
    \A t \in Presented :
        (\/ \E p \in Processes : Serving(p) /\ Valid(p, t)
         \/ \E g \in GameServers : Passes(g, t))
            => /\ \E s \in signed : s.key = t.envelope.keyId /\ s.payload.fields = t.fields
               /\ t.fields.tier = "OPEN"
               /\ clock \in t.fields.issued..(t.fields.issued + TTL)

\* The sentinel errors of the offline verifier and the reasons of the service
\* stand for each other.
ErrorOf ==
    [missing_signature |-> "ErrMissingSignature", unknown_key_id |-> "ErrUnknownKeyID",
     bad_payload |-> "ErrBadPayload", payload_not_canonical |-> "ErrNotCanonical",
     wrapper_mismatch |-> "ErrWrapperMismatch", missing_expires_at |-> "ErrExpired",
     expired |-> "ErrExpired", bad_signature |-> "ErrBadSignature", ok |-> "nil"]

\* A game server with the key of a process and that process give the same
\* verdict on every token, and the same reason.
VerdictsAgree ==
    \A t \in Presented, p \in Processes, g \in GameServers :
        Serving(p) /\ cache[g] = {key[p]} =>
            VerifyTierTokenOffline(t, cache[g], clock)
                = ErrorOf[IntrospectTierToken(key[p], t, clock)]
=============================================================================
