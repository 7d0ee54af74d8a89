------------------------------ MODULE KeyStore ------------------------------
(***************************************************************************)
(* The signing key of trust-api on disk: LoadOrCreateEd25519               *)
(* (crypto/keystore.go), called once by every process that starts          *)
(* (crypto.go, trust/service.go), one action per file-system call.         *)
(*                                                                         *)
(* Processes that share the key path also share the name of the temporary  *)
(* file, KeyPath.tmp.  A file is an inode that `path' and `tmp' may name   *)
(* and that a process may hold open; an inode is known by the key whose    *)
(* creation made it.  The key id is a prefix of the public key: a key      *)
(* stands for its id, too.                                                 *)
(***************************************************************************)
EXTENDS Naturals, FiniteSets

CONSTANTS
    Processes,    \* trust-api processes with the same key path
    Keys,         \* the keys GenerateKey may return; bounds the creations
    NoKey,
    Disruptions   \* "crash": a process dies anywhere; "io": calls may fail

ASSUME NoKeyAssumption == NoKey \notin Keys

VARIABLES
    path, tmp,    \* the inodes KeyPath and KeyPath.tmp name, or NoKey
    body,         \* body[i]: the key in inode i; NoKey: it does not parse
    generated,    \* keys that GenerateKey has returned
    pc, key, fd,  \* per process: step, key in memory, inode being written
    overlapped    \* history: a key was generated while another was on its way

keyVars == <<path, tmp, body, generated, pc, key, fd, overlapped>>

MaybeKey == Keys \cup {NoKey}
Creating == {"open", "write", "rename"}

KeyTypeOK ==
    /\ path \in MaybeKey /\ tmp \in MaybeKey
    /\ body \in [Keys -> MaybeKey]
    /\ generated \subseteq Keys
    /\ pc \in [Processes -> {"down", "load", "serving"} \cup Creating]
    /\ key \in [Processes -> MaybeKey]
    /\ fd \in [Processes -> MaybeKey]
    /\ overlapped \in BOOLEAN

KeyInit ==
    /\ path = NoKey /\ tmp = NoKey
    /\ body = [i \in Keys |-> NoKey]
    /\ generated = {}
    /\ pc = [p \in Processes |-> "down"]
    /\ key = [p \in Processes |-> NoKey]
    /\ fd = [p \in Processes |-> NoKey]
    /\ overlapped = FALSE

-----------------------------------------------------------------------------
\* The process ends, by a crash or because main calls log.Fatalf.
Exit(p) ==
    /\ pc' = [pc EXCEPT ![p] = "down"]
    /\ key' = [key EXCEPT ![p] = NoKey]
    /\ fd' = [fd EXCEPT ![p] = NoKey]

Serve(p, k) ==
    /\ pc' = [pc EXCEPT ![p] = "serving"]
    /\ key' = [key EXCEPT ![p] = k]
    /\ fd' = [fd EXCEPT ![p] = NoKey]

Fails(p) == "io" \in Disruptions /\ Exit(p)

Start(p) ==
    /\ pc[p] = "down"
    /\ pc' = [pc EXCEPT ![p] = "load"]
    /\ UNCHANGED <<path, tmp, body, generated, key, fd, overlapped>>

Generate(p) ==
    \E k \in Keys \ generated :
        /\ generated' = generated \cup {k}
        /\ key' = [key EXCEPT ![p] = k]
        /\ pc' = [pc EXCEPT ![p] = "open"]
        /\ overlapped' = (overlapped \/ \E q \in Processes : pc[q] \in Creating)
        /\ UNCHANGED fd

\* Seeded fault: any error of ReadFile means that there is no key yet.
LoadOrGenerateAnyError(p) ==
    /\ pc[p] = "load"
    /\ \/ path = NoKey /\ Generate(p)
       \/ "io" \in Disruptions /\ Generate(p)
       \/ /\ path # NoKey /\ body[path] # NoKey
          /\ Serve(p, body[path]) /\ UNCHANGED <<generated, overlapped>>
       \/ Fails(p) /\ UNCHANGED <<generated, overlapped>>
    /\ UNCHANGED <<path, tmp, body>>

\* ReadFile: a whole file is used, a missing one is the reason to generate a
\* key, anything else (does not parse, cannot be read) ends the process.
LoadOrGenerate(p) ==
    /\ pc[p] = "load"
    /\ \/ path = NoKey /\ Generate(p)
       \/ /\ path # NoKey /\ body[path] # NoKey
          /\ Serve(p, body[path]) /\ UNCHANGED <<generated, overlapped>>
       \/ path # NoKey /\ body[path] = NoKey /\ Exit(p) /\ UNCHANGED <<generated, overlapped>>
       \/ Fails(p) /\ UNCHANGED <<generated, overlapped>>
    /\ UNCHANGED <<path, tmp, body>>

\* Seeded fault: the key is written to its final name.
OpenTmpInPlace(p) ==
    /\ pc[p] = "open"
    /\ path' = key[p] /\ tmp' = key[p]
    /\ fd' = [fd EXCEPT ![p] = key[p]]
    /\ pc' = [pc EXCEPT ![p] = "write"]
    /\ UNCHANGED <<body, generated, key, overlapped>>

\* os.WriteFile opens with O_CREATE and O_TRUNC: a temporary file that is
\* there already is emptied, whoever is writing to it ...
OpenTmp(p) ==
    LET inode == IF tmp = NoKey THEN key[p] ELSE tmp
    IN  /\ pc[p] = "open"
        /\ \/ /\ tmp' = inode
              /\ body' = [body EXCEPT ![inode] = NoKey]
              /\ fd' = [fd EXCEPT ![p] = inode]
              /\ pc' = [pc EXCEPT ![p] = "write"]
              /\ UNCHANGED key
           \/ Fails(p) /\ UNCHANGED <<tmp, body>>
        /\ UNCHANGED <<path, generated, overlapped>>

\* ... and writes from offset 0.  All key files have the same length, so the
\* last of several writes to an inode is what it holds.
WriteTmp(p) ==
    /\ pc[p] = "write"
    /\ \/ /\ body' = [body EXCEPT ![fd[p]] = key[p]]
          /\ pc' = [pc EXCEPT ![p] = "rename"]
          /\ UNCHANGED <<key, fd>>
       \/ Fails(p) /\ body' \in {body, [body EXCEPT ![fd[p]] = NoKey]}
    /\ UNCHANGED <<path, tmp, generated, overlapped>>

\* Seeded fault: the process serves although the rename has failed.
RenameTmpUnchecked(p) ==
    /\ pc[p] = "rename"
    /\ \/ tmp # NoKey /\ path' = tmp /\ tmp' = NoKey
       \/ "io" \in Disruptions /\ UNCHANGED <<path, tmp>>
    /\ Serve(p, key[p])
    /\ UNCHANGED <<body, generated, overlapped>>

\* Rename fails if another process has renamed the temporary file already.
RenameTmp(p) ==
    /\ pc[p] = "rename"
    /\ \/ /\ tmp # NoKey
          /\ path' = tmp /\ tmp' = NoKey
          /\ Serve(p, key[p])
       \/ tmp = NoKey /\ Exit(p) /\ UNCHANGED <<path, tmp>>
       \/ Fails(p) /\ UNCHANGED <<path, tmp>>
    /\ UNCHANGED <<body, generated, overlapped>>

Crash(p) ==
    /\ "crash" \in Disruptions
    /\ pc[p] # "down"
    /\ Exit(p)
    /\ UNCHANGED <<path, tmp, body, generated, overlapped>>

KeyStep(p) ==
    \/ Start(p) \/ LoadOrGenerate(p) \/ OpenTmp(p) \/ WriteTmp(p) \/ RenameTmp(p)
    \/ Crash(p)

-----------------------------------------------------------------------------
Serving(p) == pc[p] = "serving"

\* "loads or creates a persisted Ed25519 signing key at keyPath"
\* (crypto.go:45): the key a process signs with is the one it, and any other
\* process, would load after a restart.
ServingKeyIsPersisted ==
    \A p \in Processes : Serving(p) => path # NoKey /\ body[path] = key[p]

\* The same, unless a key was generated while another one was on its way from
\* memory to KeyPath: whatever crashes or fails, and however many start when.
\* (Otherwise the two creations share KeyPath.tmp: one truncates the inode that
\* the other renames, and a process serves a key whose file is empty.)
PersistedUnlessOverlapped == overlapped \/ ServingKeyIsPersisted

\* "Atomic write" (keystore.go:75): unless two creations overlapped, there is
\* at no moment a key file that a starting process cannot use.
KeyFileIsWhole == overlapped \/ path = NoKey \/ body[path] \in Keys

\* Without the files: KeyPath is a register that is written once, and what a
\* process serves is what it, or another, wrote there.  Two creations can
\* overlap only as long as there is no key.
Register == INSTANCE KeyRegister WITH
    register <- IF overlapped \/ path = NoKey THEN NoKey ELSE body[path],
    served <- [p \in Processes |-> IF ~overlapped /\ Serving(p) THEN key[p] ELSE NoKey],
    void <- overlapped
ImplementsKeyRegister == Register!Spec

\* Once there is a key, no start, crash, error or retry replaces it.
KeyIsStable ==
    [][~overlapped' /\ path # NoKey => path' # NoKey /\ body'[path'] = body[path]]_keyVars
=============================================================================
