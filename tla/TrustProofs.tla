---------------------------- MODULE TrustProofs ----------------------------
(***************************************************************************)
(* Theorems about the signing key and the tier tokens, for any number of   *)
(* processes and game servers.                                             *)
(***************************************************************************)
EXTENDS Trust, TLAPS

(* The key file.  Unless creations overlapped: at most one process creates a
   key, and none while there is a key file; and the process that creates it is
   the only one whose hands are on the temporary file. *)
OneCreates ==
    \A p, q \in Processes : pc[p] \in Creating /\ pc[q] \in Creating => p = q
NobodyCreatesAgain == path # NoKey => \A p \in Processes : pc[p] \notin Creating
TmpIsMine ==
    \A p \in Processes :
        /\ pc[p] = "write" => fd[p] = tmp /\ tmp \in Keys
        /\ pc[p] = "rename" => tmp \in Keys /\ body[tmp] = key[p]
KeyInMemory == \A p \in Processes : pc[p] \in Creating \cup {"serving"} => key[p] \in Keys

KeyInv ==
    /\ KeyTypeOK
    /\ KeyInMemory
    /\ ~overlapped =>
          /\ OneCreates
          /\ NobodyCreatesAgain
          /\ TmpIsMine
          /\ ServingKeyIsPersisted
          /\ path # NoKey => body[path] \in Keys

USE NoKeyAssumption

LEMMA KeyInvInit == KeyInit => KeyInv
BY DEF KeyInit, KeyInv, KeyTypeOK, KeyInMemory, OneCreates, NobodyCreatesAgain,
       TmpIsMine, ServingKeyIsPersisted, Serving, MaybeKey, Creating


LEMMA KeyInvStep == ASSUME KeyInv, NEW p \in Processes, KeyStep(p) PROVE KeyInv'
<1> USE DEF KeyInv, KeyTypeOK, KeyInMemory, OneCreates, NobodyCreatesAgain,
            TmpIsMine, ServingKeyIsPersisted, Serving, MaybeKey, Creating, Exit, Serve, Fails
<1>1. CASE Start(p)
  BY <1>1 DEF Start
<1>2. CASE LoadOrGenerate(p)
  <2>1. /\ pc[p] = "load" /\ UNCHANGED <<path, tmp, body>>
    BY <1>2 DEF LoadOrGenerate
  <2>2. CASE path = NoKey /\ Generate(p)
    <3>1. PICK k \in Keys \ generated :
            /\ generated' = generated \cup {k} /\ key' = [key EXCEPT ![p] = k]
            /\ pc' = [pc EXCEPT ![p] = "open"] /\ UNCHANGED fd
            /\ overlapped' = (overlapped \/ \E q \in Processes : pc[q] \in Creating)
      BY <2>2 DEF Generate
    <3>2. KeyTypeOK' /\ KeyInMemory'
      BY <2>1, <3>1
    <3>3. ~overlapped' => ~overlapped /\ \A q \in Processes : pc[q] \notin Creating
      BY <3>1
    <3>4. ~overlapped' => OneCreates' /\ NobodyCreatesAgain' /\ TmpIsMine'
                          /\ ServingKeyIsPersisted'
      BY <2>1, <2>2, <3>1, <3>3
    <3>5. QED
      BY <2>1, <2>2, <3>2, <3>3, <3>4
  <2>3. CASE path # NoKey /\ Serve(p, body[path]) /\ body[path] # NoKey
             /\ UNCHANGED <<generated, overlapped>>
    BY <2>1, <2>3
  <2>4. CASE Exit(p) /\ UNCHANGED <<generated, overlapped>>
    BY <2>1, <2>4
  <2>5. QED
    BY <1>2, <2>2, <2>3, <2>4 DEF LoadOrGenerate
<1>3. CASE OpenTmp(p)
  BY <1>3 DEF OpenTmp
<1>4. CASE WriteTmp(p)
  BY <1>4 DEF WriteTmp
<1>5. CASE RenameTmp(p)
  BY <1>5 DEF RenameTmp
<1>6. CASE Crash(p)
  BY <1>6 DEF Crash
<1>7. QED
  BY <1>1, <1>2, <1>3, <1>4, <1>5, <1>6 DEF KeyStep

LEMMA KeyInvStutter == ASSUME KeyInv, UNCHANGED keyVars PROVE KeyInv'
BY DEF KeyInv, KeyTypeOK, KeyInMemory, OneCreates, NobodyCreatesAgain, TmpIsMine,
       ServingKeyIsPersisted, Serving, keyVars

LEMMA KeepsTheKey ==
    ASSUME KeyInv, ~overlapped', path # NoKey, NEW p \in Processes, KeyStep(p)
    PROVE  path' # NoKey /\ body'[path'] = body[path]
BY DEF KeyInv, KeyTypeOK, NobodyCreatesAgain, Creating, MaybeKey, KeyStep, Start,
       LoadOrGenerate, Generate, OpenTmp, WriteTmp, RenameTmp, Crash, Exit, Serve, Fails

-----------------------------------------------------------------------------
(* Tokens.  A signature covers what StartSession put together; what was given
   out is what was signed; and unless creations overlapped, everything was
   signed with, and everybody has cached, the key that is on disk. *)
SignedByService ==
    \A s \in signed :
        /\ s.payload.form = "canonical"
        /\ s.payload.fields.tier = "OPEN"
        /\ s.payload.fields.issued \in 0..clock
        /\ s.payload.fields.expires = s.payload.fields.issued + TTL

ReturnedIsSigned ==
    \A t \in returned : \E s \in signed :
        t = [fields |-> s.payload.fields,
             envelope |-> [keyId |-> s.key, payload |-> s.payload, signature |-> s]]

OneKey ==
    ~overlapped =>
        /\ \A s \in signed : path # NoKey /\ s.key = body[path]
        /\ \A g \in GameServers : \A k \in cache[g] : path # NoKey /\ k = body[path]

Inv == KeyInv /\ TypeOK /\ SignedByService /\ ReturnedIsSigned /\ OneKey

USE TimeAssumption

LEMMA InvInit == Init => Inv
BY KeyInvInit DEF Init, Inv, KeyInv, TypeOK, SignedByService, ReturnedIsSigned, OneKey

LEMMA InvNext == Inv /\ [Next]_allVars => Inv'
<1> SUFFICES ASSUME Inv, [Next]_allVars PROVE Inv'
  OBVIOUS
<1> USE DEF Inv
<1>1. ASSUME NEW p \in Processes, KeyStep(p), UNCHANGED trustVars PROVE Inv'
  <2>1. KeyInv'
    BY <1>1, KeyInvStep
  <2>2. TypeOK' /\ SignedByService' /\ ReturnedIsSigned'
    BY <1>1, <2>1 DEF TypeOK, trustVars, SignedByService, ReturnedIsSigned, KeyInv
  <2>3. overlapped => overlapped'
    BY <1>1 DEF KeyStep, Start, LoadOrGenerate, Generate, OpenTmp, WriteTmp, RenameTmp, Crash, KeyInv, KeyTypeOK
  <2>4. OneKey'
    BY <1>1, <2>3, KeepsTheKey DEF OneKey, trustVars
  <2>5. QED
    BY <2>1, <2>2, <2>4
<1>2. ASSUME NEW p \in Processes, NEW ref \in Refs, NEW tier \in Tiers,
             StartSession(p, ref, tier)
      PROVE  Inv'
  <2>1. PICK n \in Nonces :
          LET fields == [ref |-> ref, tier |-> "OPEN", nonce |-> n,
                         issued |-> clock, expires |-> clock + TTL]
              payload == [form |-> "canonical", fields |-> fields]
              signature == [key |-> key[p], payload |-> payload]
              envelope == [keyId |-> key[p], payload |-> payload, signature |-> signature]
          IN  /\ signed' = signed \cup {signature}
              /\ returned' \in {returned, returned \cup
                                   {[fields |-> fields, envelope |-> envelope]}}
    BY <1>2 DEF StartSession
  <2> DEFINE fields == [ref |-> ref, tier |-> "OPEN", nonce |-> n,
                        issued |-> clock, expires |-> clock + TTL]
             payload == [form |-> "canonical", fields |-> fields]
             signature == [key |-> key[p], payload |-> payload]
             token == [fields |-> fields,
                       envelope |-> [keyId |-> key[p], payload |-> payload,
                                     signature |-> signature]]
  <2>2. /\ signed' = signed \cup {signature}
        /\ returned' \in {returned, returned \cup {token}}
    BY <2>1
  <2>3. /\ Serving(p) /\ key[p] \in Keys
        /\ clock \in Nat /\ UNCHANGED <<keyVars, clock, cache>>
    BY <1>2 DEF StartSession, Serving, KeyInv, KeyInMemory, TypeOK
  <2>4. KeyInv'
    BY <2>3, KeyInvStutter
  <2>5. fields \in Fields /\ payload \in Payloads /\ signature \in Signatures
    BY <2>3 DEF Fields, Payloads, Signatures, Forms, Tiers, Times
  <2>6. token \in Tokens
    BY <2>3, <2>5 DEF Tokens, Envelopes, MaybeKey
  <2> HIDE DEF fields, payload, signature, token
  <2>7. TypeOK'
    BY <2>2, <2>3, <2>4, <2>5, <2>6 DEF TypeOK, KeyInv
  <2>8. SignedByService'
    BY <2>2, <2>3 DEF SignedByService, signature, payload, fields
  <2>9. token = [fields |-> signature.payload.fields,
                 envelope |-> [keyId |-> signature.key, payload |-> signature.payload,
                               signature |-> signature]]
    BY DEF token, signature, payload
  <2>10. ReturnedIsSigned'
    BY <2>2, <2>9 DEF ReturnedIsSigned
  <2>11. OneKey'
    BY <2>2, <2>3 DEF OneKey, KeyInv, ServingKeyIsPersisted, keyVars, signature
  <2>12. QED
    BY <2>4, <2>7, <2>8, <2>10, <2>11
<1>3. ASSUME NEW g \in GameServers, NEW p \in Processes, GetPublicKeys(g, p) PROVE Inv'
  <2>1. KeyInv' /\ key[p] \in Keys
    BY <1>3, KeyInvStutter DEF GetPublicKeys, Serving, KeyInv, KeyInMemory
  <2>2. QED
    BY <1>3, <2>1 DEF GetPublicKeys, TypeOK, KeyInv, SignedByService, ReturnedIsSigned,
                      OneKey, ServingKeyIsPersisted, keyVars
<1>4. CASE Tick
  <2>1. KeyInv'
    BY <1>4, KeyInvStutter DEF Tick
  <2>2. QED
    BY <1>4, <2>1 DEF Tick, TypeOK, KeyInv, SignedByService, ReturnedIsSigned, OneKey, keyVars
<1>5. CASE UNCHANGED allVars
  <2>1. KeyInv'
    BY <1>5, KeyInvStutter DEF allVars
  <2>2. QED
    BY <1>5, <2>1 DEF allVars, trustVars, keyVars, TypeOK, KeyInv, SignedByService,
                      ReturnedIsSigned, OneKey
<1>6. QED
  BY <1>1, <1>2, <1>3, <1>4, <1>5 DEF Next

LEMMA Invariance == Spec => []Inv
BY InvInit, InvNext, PTL DEF Spec

-----------------------------------------------------------------------------
\* Keys in files and memory, times, signatures and tokens are what they should
\* be (crypto/keystore.go, trust/service.go).
THEOREM TypeCorrect == Spec => []TypeOK
BY Invariance, PTL DEF Inv

\* A process serves with the key that is on disk, through crashes, I/O errors
\* and restarts, if no two creations overlapped (keystore.go:26).
THEOREM KeyIsPersisted == Spec => []PersistedUnlessOverlapped
<1>1. Inv => PersistedUnlessOverlapped
  BY DEF Inv, KeyInv, PersistedUnlessOverlapped
<1>2. QED
  BY <1>1, Invariance, PTL

\* Then, too, no crash leaves a key file that does not parse (keystore.go:75).
THEOREM KeyFileStaysWhole == Spec => []KeyFileIsWhole
<1>1. Inv => KeyFileIsWhole
  BY DEF Inv, KeyInv, KeyFileIsWhole
<1>2. QED
  BY <1>1, Invariance, PTL

\* Then, too, the key is never replaced.
THEOREM KeyStaysTheSame == Spec => KeyIsStable
<1> DEFINE Keeps == ~overlapped' /\ path # NoKey => path' # NoKey /\ body'[path'] = body[path]
<1>1. Inv /\ [Next]_allVars => [Keeps]_keyVars
  <2> SUFFICES ASSUME Inv, [Next]_allVars, ~ UNCHANGED keyVars PROVE Keeps
    OBVIOUS
  <2>1. PICK p \in Processes : KeyStep(p)
    BY DEF Next, StartSession, GetPublicKeys, Tick, allVars
  <2>2. QED
    BY <2>1, KeepsTheKey DEF Inv
<1>2. QED
  BY <1>1, Invariance, PTL DEF Spec, KeyIsStable

-----------------------------------------------------------------------------
(* The register.  The rename is the write: until then path is NoKey, and the
   temporary file that becomes the key file is the renaming process's own. *)

LEMMA RegisterInit == KeyInit => Register!Init
BY DEF KeyInit, Register!Init, Register!Nobody, Serving

\* After overlapping creations nothing is promised.
LEMMA VoidStays ==
    ASSUME overlapped, overlapped'
    PROVE  UNCHANGED Register!vars
BY DEF Register!vars

LEMMA RegisterStep ==
    ASSUME KeyInv, NEW p \in Processes, KeyStep(p)
    PROVE  [Register!Next]_Register!vars
<1> DEFINE r == IF overlapped \/ path = NoKey THEN NoKey ELSE body[path]
           s == [q \in Processes |-> IF ~overlapped /\ Serving(q) THEN key[q] ELSE NoKey]
<1> USE DEF Register!vars
<1> SUFFICES ASSUME ~overlapped PROVE [Register!Next]_Register!vars
  <2>1. overlapped => overlapped'
    BY DEF KeyStep, Start, LoadOrGenerate, Generate, OpenTmp, WriteTmp, RenameTmp, Crash,
           KeyInv, KeyTypeOK
  <2>2. QED
    BY <2>1, VoidStays
<1>1. /\ pc \in [Processes -> {"down", "load", "serving"} \cup Creating]
      /\ key \in [Processes -> MaybeKey] /\ path \in MaybeKey /\ tmp \in MaybeKey
      /\ body \in [Keys -> MaybeKey]
      /\ KeyInMemory /\ OneCreates /\ NobodyCreatesAgain /\ TmpIsMine /\ ServingKeyIsPersisted
      /\ path # NoKey => body[path] \in Keys
      /\ overlapped = FALSE
  BY DEF KeyInv, KeyTypeOK
\* A process that ends forgets; one that was not serving had nothing to forget.
<1>2. ASSUME Exit(p), UNCHANGED <<path, overlapped>>, r' = r
      PROVE  Register!Forget(p)
  <2>1. s' = [s EXCEPT ![p] = NoKey]
    BY <1>1, <1>2 DEF Exit, Serving
  <2>2. QED
    BY <1>2, <2>1 DEF Register!Forget
<1>3. CASE Start(p)
  BY <1>1, <1>3 DEF Start, Serving
<1>4. CASE LoadOrGenerate(p)
  <2>1. pc[p] = "load" /\ UNCHANGED <<path, tmp, body>>
    BY <1>4 DEF LoadOrGenerate
  <2>2. CASE path = NoKey /\ Generate(p)
    <3>1. PICK k \in Keys \ generated :
            /\ key' = [key EXCEPT ![p] = k]
            /\ pc' = [pc EXCEPT ![p] = "open"]
            /\ overlapped' = (overlapped \/ \E q \in Processes : pc[q] \in Creating)
      BY <2>2 DEF Generate
    <3>2. s = Register!Nobody
      BY <1>1, <2>2 DEF ServingKeyIsPersisted, Register!Nobody
    <3>3. s' = Register!Nobody /\ r = NoKey /\ r' = NoKey
      <4>1. \A q \in Processes : ~Serving(q)'
        BY <1>1, <2>2, <3>1 DEF ServingKeyIsPersisted, Serving
      <4>2. QED
        BY <2>1, <2>2, <4>1 DEF Register!Nobody
    <3>4. CASE \E q \in Processes : pc[q] \in Creating
      <4>1. overlapped' = TRUE
        BY <3>1, <3>4
      <4>2. Register!GiveUp
        BY <3>2, <3>3, <4>1 DEF Register!GiveUp
      <4>3. QED
        BY <4>2 DEF Register!Next
    <3>5. CASE ~ \E q \in Processes : pc[q] \in Creating
      <4>1. overlapped' = overlapped
        BY <1>1, <3>1, <3>5
      <4>2. QED
        BY <3>2, <3>3, <4>1
    <3>6. QED
      BY <3>4, <3>5
  <2>3. CASE path # NoKey /\ body[path] # NoKey /\ Serve(p, body[path])
             /\ UNCHANGED <<generated, overlapped>>
    <3>1. r # NoKey /\ r' = r /\ r = body[path]
      BY <2>1, <2>3
    <3>2. s' = [s EXCEPT ![p] = r]
      BY <1>1, <2>1, <2>3 DEF Serve, Serving
    <3>3. QED
      BY <2>3, <3>1, <3>2 DEF Register!Next, Register!Read
  <2>4. CASE Exit(p) /\ UNCHANGED <<generated, overlapped>>
    BY <1>2, <2>1, <2>4 DEF Register!Next
  <2>5. QED
    BY <1>4, <2>2, <2>3, <2>4 DEF LoadOrGenerate, Fails
<1>5. CASE OpenTmp(p)
  <2>1. path = NoKey /\ path' = NoKey /\ UNCHANGED overlapped /\ pc[p] = "open"
    BY <1>1, <1>5 DEF OpenTmp, NobodyCreatesAgain, Creating
  <2>2. CASE Exit(p)
    BY <1>2, <2>1, <2>2 DEF Register!Next
  <2>3. CASE pc' = [pc EXCEPT ![p] = "write"] /\ UNCHANGED key
    BY <1>1, <2>1, <2>3 DEF Serving
  <2>4. QED
    BY <1>5, <2>2, <2>3 DEF OpenTmp, Fails
<1>6. CASE WriteTmp(p)
  <2>1. path = NoKey /\ path' = NoKey /\ UNCHANGED overlapped /\ pc[p] = "write"
    BY <1>1, <1>6 DEF WriteTmp, NobodyCreatesAgain, Creating
  <2>2. CASE Exit(p)
    BY <1>2, <2>1, <2>2 DEF Register!Next
  <2>3. CASE pc' = [pc EXCEPT ![p] = "rename"] /\ UNCHANGED key
    BY <1>1, <2>1, <2>3 DEF Serving
  <2>4. QED
    BY <1>6, <2>2, <2>3 DEF WriteTmp, Fails
<1>7. CASE RenameTmp(p)
  <2>1. /\ path = NoKey /\ pc[p] = "rename" /\ UNCHANGED <<body, generated, overlapped>>
        /\ tmp \in Keys /\ body[tmp] = key[p] /\ key[p] \in Keys
    BY <1>1, <1>7 DEF RenameTmp, NobodyCreatesAgain, TmpIsMine, KeyInMemory, Creating
  <2>2. CASE Exit(p) /\ UNCHANGED <<path, tmp>>
    BY <1>2, <2>1, <2>2 DEF Register!Next
  <2>3. CASE path' = tmp /\ Serve(p, key[p])
    <3> PICK k \in Keys : k = key[p]
      BY <2>1
    <3>1. r = NoKey /\ r' = k
      <4>1. path' # NoKey /\ body'[path'] = key[p] /\ ~overlapped'
        BY <1>1, <2>1, <2>3, NoKeyAssumption
      <4>2. QED
        BY <2>1, <4>1
    <3>2. s' = [s EXCEPT ![p] = k]
      BY <1>1, <2>1, <2>3 DEF Serve, Serving
    <3>3. Register!Write(p, k)
      BY <2>1, <3>1, <3>2 DEF Register!Write
    <3>4. QED
      BY <3>3 DEF Register!Next
  <2>4. QED
    BY <1>7, <2>1, <2>2, <2>3 DEF RenameTmp, Fails
<1>8. CASE Crash(p)
  BY <1>2, <1>8 DEF Crash, Register!Next
<1>9. QED
  BY <1>3, <1>4, <1>5, <1>6, <1>7, <1>8 DEF KeyStep

LEMMA RegisterNext == Inv /\ [Next]_allVars => [Register!Next]_Register!vars
<1> SUFFICES ASSUME Inv, [Next]_allVars PROVE [Register!Next]_Register!vars
  OBVIOUS
<1>1. CASE \E p \in Processes : KeyStep(p)
  BY <1>1, RegisterStep DEF Inv
<1>2. CASE UNCHANGED keyVars
  BY <1>2 DEF keyVars, Serving, Register!vars
<1>3. QED
  BY <1>1, <1>2 DEF Next, StartSession, GetPublicKeys, Tick, allVars

\* The key store implements a register that is written once, for any number of
\* processes that start, crash and fail, as long as two do not create the key
\* at the same time; and that cannot happen once there is a key.
THEOREM KeyStoreIsRegister == Spec => ImplementsKeyRegister
<1>1. Init => Register!Init
  BY RegisterInit DEF Init
<1>2. QED
  BY <1>1, RegisterNext, Invariance, PTL DEF Spec, ImplementsKeyRegister, Register!Spec

-----------------------------------------------------------------------------
(* Verdicts *)

\* What a process that accepts has established, for any token whatever.
LEMMA AcceptedByService ==
    ASSUME NEW k, NEW t, NEW now, IntrospectTierToken(k, t, now) = "ok",
           t.fields \in Fields, t.envelope.payload.fields \in Fields
    PROVE  /\ t.envelope.keyId = k
           /\ t.envelope.signature = [key |-> k, payload |-> t.envelope.payload]
           /\ t.fields = t.envelope.payload.fields
           /\ t.fields.expires # None /\ ~(now > t.fields.expires)
<1>1. /\ t.envelope.keyId = k
      /\ t.envelope.signature = [key |-> k, payload |-> t.envelope.payload]
      /\ \A f \in DOMAIN t.fields : t.fields[f] = t.envelope.payload.fields[f]
      /\ t.fields.expires # None /\ ~(now > t.fields.expires)
  BY DEF IntrospectTierToken, Verify, Decoded
<1>2. t.fields = t.envelope.payload.fields
  BY <1>1 DEF Fields
<1>3. QED
  BY <1>1, <1>2

\* Presented tokens are tokens, with bytes that were signed or do not verify.
LEMMA PresentedIsToken ==
    ASSUME Inv, NEW t \in Presented
    PROVE  /\ t.fields \in Fields
           /\ t.envelope.payload \in Payloads
           /\ t.envelope.signature \in signed \cup {None, Garbage}
<1>1. \A s \in signed : s.payload.fields \in Fields
  BY DEF Inv, TypeOK, Signatures, Payloads
<1>2. Altered \subseteq Fields
  <2>1. MaxTime + TTL \in Times /\ None \in Times
    BY DEF Times
  <2>2. ASSUME NEW f \in Fields
        PROVE  /\ [f EXCEPT !.tier = "VERIFIED", !.expires = MaxTime + TTL] \in Fields
               /\ [f EXCEPT !.expires = None] \in Fields
    BY <2>1 DEF Fields, Tiers
  <2>3. ASSUME NEW x \in Altered PROVE x \in Fields
    <3>1. PICK f \in {s.payload.fields : s \in signed} :
            x \in {f, [f EXCEPT !.tier = "VERIFIED", !.expires = MaxTime + TTL],
                   [f EXCEPT !.expires = None]}
      BY DEF Altered
    <3>2. f \in Fields
      BY <1>1
    <3>3. QED
      BY <2>2, <3>1, <3>2
  <2>4. QED
    BY <2>3
<1>3. /\ t.fields \in Altered
      /\ t.envelope.signature \in signed \cup {None, Garbage}
      /\ t.envelope.payload \in [form : {"canonical"}, fields : Altered] \cup
                               [form : Forms, fields : {s.payload.fields : s \in signed}]
  BY DEF Presented
<1>4. t.envelope.payload \in Payloads
  BY <1>1, <1>2, <1>3 DEF Payloads, Forms
<1>5. QED
  BY <1>2, <1>3, <1>4

\* Only what was signed is accepted, by any process and any game server, even
\* if creations of the key overlapped (service.go:146, tier_token.go:29).
THEOREM OnlySignedIsAccepted == Spec => []AcceptedWasSigned
<1>1. Inv => AcceptedWasSigned
  <2> SUFFICES ASSUME Inv, NEW t \in Presented,
                      \/ \E p \in Processes : Serving(p) /\ Valid(p, t)
                      \/ \E g \in GameServers : Passes(g, t)
               PROVE  /\ \E s \in signed : s.key = t.envelope.keyId
                                           /\ s.payload.fields = t.fields
                      /\ t.fields.tier = "OPEN"
                      /\ clock \in t.fields.issued..(t.fields.issued + TTL)
    BY DEF AcceptedWasSigned
  <2>1. PICK k \in Keys :
          /\ t.envelope.keyId = k
          /\ t.envelope.signature = [key |-> k, payload |-> t.envelope.payload]
          /\ t.fields = t.envelope.payload.fields
          /\ ~(clock > t.fields.expires)
    <3>1. CASE \E p \in Processes : Serving(p) /\ Valid(p, t)
      <4>1. PICK p \in Processes : Serving(p) /\ Valid(p, t)
        BY <3>1
      <4>2. key[p] \in Keys
        BY <4>1 DEF Inv, KeyInv, KeyInMemory, Serving
      <4>3. t.fields \in Fields /\ t.envelope.payload.fields \in Fields
        BY PresentedIsToken DEF Payloads
      <4>4. IntrospectTierToken(key[p], t, clock) = "ok"
        BY <4>1 DEF Valid
      <4>5. QED
        BY <4>2, <4>3, <4>4, AcceptedByService
    <3>2. CASE \E g \in GameServers : Passes(g, t)
      <4>1. PICK g \in GameServers : VerifyTierTokenOffline(t, cache[g], clock) = "nil"
        BY <3>2 DEF Passes
      <4>2. cache[g] \subseteq Keys
        BY DEF Inv, TypeOK
      <4>3. /\ t.envelope.keyId \in cache[g]
            /\ t.envelope.signature =
                   [key |-> t.envelope.keyId, payload |-> t.envelope.payload]
            /\ t.fields = t.envelope.payload.fields
            /\ ~(clock > t.fields.expires)
        BY <4>1 DEF VerifyTierTokenOffline, Verify, Decoded
      <4>4. QED
        BY <4>2, <4>3
    <3>3. QED
      BY <3>1, <3>2
  <2>2. t.envelope.signature \in Signatures
    BY <2>1, PresentedIsToken DEF Signatures
  <2>3. t.envelope.signature \in signed
    BY <2>2, PresentedIsToken, BytesAssumption
  <2>4. QED
    BY <2>1, <2>3 DEF Inv, SignedByService, TypeOK
<1>2. QED
  BY <1>1, Invariance, PTL

\* A token that was given out is accepted everywhere until it expires, unless
\* creations of the key overlapped (service.go:127).
THEOREM UnexpiredStaysAccepted == Spec => []UnexpiredIsAccepted
<1>1. Inv => UnexpiredIsAccepted
  <2> SUFFICES ASSUME Inv, ~overlapped, NEW t \in returned, Unexpired(t)
               PROVE  /\ \A p \in Processes : Serving(p) => Valid(p, t)
                      /\ \A g \in GameServers : cache[g] # {} => Passes(g, t)
    BY DEF UnexpiredIsAccepted
  <2>1. PICK s \in signed :
          t = [fields |-> s.payload.fields,
               envelope |-> [keyId |-> s.key, payload |-> s.payload, signature |-> s]]
    BY DEF Inv, ReturnedIsSigned
  <2>2. /\ s \in Signatures /\ s # None
        /\ s = [key |-> s.key, payload |-> s.payload]
        /\ s.payload.form = "canonical"
        /\ s.payload.fields.expires \in Nat
    BY BytesAssumption DEF Inv, TypeOK, SignedByService, Signatures
  <2>3. /\ s.payload.fields.expires # None
        /\ ~(clock > s.payload.fields.expires)
    BY <2>1, <2>2 DEF Unexpired, Inv, TypeOK
  <2>4. ASSUME NEW p \in Processes, Serving(p) PROVE Valid(p, t)
    <3>1. key[p] = s.key
      BY <2>4 DEF Inv, KeyInv, ServingKeyIsPersisted, OneKey
    <3>2. QED
      BY <2>1, <2>2, <2>3, <3>1
      DEF Valid, IntrospectTierToken, Missing, Verify, Decoded
  <2>5. ASSUME NEW g \in GameServers, cache[g] # {} PROVE Passes(g, t)
    <3>1. s.key \in cache[g]
      BY <2>5 DEF Inv, OneKey
    <3>2. QED
      BY <2>1, <2>2, <2>3, <3>1
      DEF Passes, VerifyTierTokenOffline, Missing, Verify, Decoded
  <2>6. QED
    BY <2>4, <2>5
<1>2. QED
  BY <1>1, Invariance, PTL

\* The online and the offline verifier give the same verdict, for the same
\* reason, on any token (service.go:146, tier_token.go:29).
THEOREM VerifiersAgree == Spec => []VerdictsAgree
<1>1. Inv => VerdictsAgree
  <2> SUFFICES ASSUME Inv, NEW t \in Presented, NEW k, NEW now
               PROVE  VerifyTierTokenOffline(t, {k}, now)
                          = ErrorOf[IntrospectTierToken(k, t, now)]
    BY DEF VerdictsAgree
  <2>1. t.fields = Decoded(t) <=> \A f \in DOMAIN t.fields : t.fields[f] = Decoded(t)[f]
    BY PresentedIsToken DEF Decoded, Fields, Payloads
  <2>2. QED
    BY <2>1 DEF VerifyTierTokenOffline, IntrospectTierToken, ErrorOf
<1>2. QED
  BY <1>1, Invariance, PTL
=============================================================================
