---------------------------- MODULE TelemetrySink ----------------------------
(***************************************************************************)
(* The telemetry files: how SubmitMatchAggregates appends to them          *)
(* (telemetry/service.go) and how the risk worker reads them back          *)
(* (telemetry/store/match_protojsonl.go).                                  *)
(*                                                                         *)
(* A submission appends its line in two writes, the timestamp prefix and   *)
(* then the JSON body with the newline, with no lock: requests run         *)
(* concurrently and the file is shared per match.  A file is the sequence  *)
(* of those fragments.                                                     *)
(***************************************************************************)
EXTENDS Naturals, Sequences

CONSTANTS
    Submissions,  \* calls of SubmitMatchAggregates that passed validation
    Files,        \* telemetry files, one per match
    FileOf,       \* FileOf[s]: the file submission s appends to
    Disruptions   \* "io" \in Disruptions: opens and writes may fail

VARIABLES
    sink,   \* sink[f]: the fragments in file f, in the order they were written
    call    \* call[s]: how far submission s has got

\* A body is "cut" if all of it has been written but the newline.
Parts == {"stamp", "body", "cut"}
Fragment == [of : Submissions, part : Parts]

TypeOK ==
    /\ sink \in [Files -> Seq(Fragment)]
    /\ call \in [Submissions -> {"new", "stamped", "written", "cut", "failed"}]

Init ==
    /\ sink = [f \in Files |-> <<>>]
    /\ call = [s \in Submissions |-> "new"]

WriteFragment(s, part) ==
    sink' = [sink EXCEPT ![FileOf[s]] = Append(@, [of |-> s, part |-> part])]

\* OpenFile with O_APPEND and the write of the prefix.
Stamp(s) ==
    /\ call[s] = "new"
    /\ call' = [call EXCEPT ![s] = "stamped"]
    /\ WriteFragment(s, "stamp")

\* The write of the JSON body and its newline.
Body(s) ==
    /\ call[s] = "stamped"
    /\ call' = [call EXCEPT ![s] = "written"]
    /\ WriteFragment(s, "body")

\* An open or a write fails and the call returns an error.  A prefix, or a
\* part of a body, that has been written stays in the file.
SinkError(s) ==
    /\ "io" \in Disruptions
    /\ call[s] \in {"new", "stamped"}
    /\ call' = [call EXCEPT ![s] = "failed"]
    /\ UNCHANGED sink

\* The second write fails one byte short: the call returns an error, too, but
\* the line is as good as any for as long as it is the last one.
CutShort(s) ==
    /\ "io" \in Disruptions
    /\ call[s] = "stamped"
    /\ call' = [call EXCEPT ![s] = "cut"]
    /\ WriteFragment(s, "cut")

Submit(s) == Stamp(s) \/ Body(s) \/ SinkError(s) \/ CutShort(s)

Next == \E s \in Submissions : Submit(s)

Spec == Init /\ [][Next]_<<sink, call>>

-----------------------------------------------------------------------------
(* Reading a file back *)

\* The submissions whose lines make up file content f, when f is readable;
\* otherwise only the lines before the first broken one mean anything.
Lines(f) == [i \in 1..(Len(f) \div 2) |-> f[2 * i].of]

\* LoadMatchRequestsJSONL parses every line or fails: a prefix that is not
\* followed by its own body breaks the line it is on, and so does whatever
\* follows a body without newline.
Readable(f) ==
    /\ Len(f) % 2 = 0
    /\ \A i \in 1..(Len(f) \div 2) :
          /\ f[2 * i - 1] = [of |-> f[2 * i].of, part |-> "stamp"]
          /\ f[2 * i].part = "body" \/ (f[2 * i].part = "cut" /\ 2 * i = Len(f))

\* "append JSON line per request" (service.go:122): once every call of a file
\* has returned without an error, the file can be read back.
SubmittedIsReadable ==
    \A f \in Files :
        (\A s \in Submissions : FileOf[s] = f => call[s] \in {"new", "written"})
            => Readable(sink[f])
=============================================================================
