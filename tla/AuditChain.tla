----------------------------- MODULE AuditChain -----------------------------
(***************************************************************************)
(* The audit file of src/src/audit/audit-sink.ts: one JSON line per event, *)
(* each with the hash of the line before it.  The content API and the ops  *)
(* application are separate processes that append to the file named by     *)
(* AUDIT_SINK_PATH.  emit() has no await, so within a process events       *)
(* follow one another; between its read of the last hash and its append    *)
(* the other process may append.  A write may fail, or be cut short.       *)
(*                                                                         *)
(* SHA-256 is modelled as an injective function: the hash over an event    *)
(* and the previous hash is the sequence of the events chained up to it.   *)
(***************************************************************************)
EXTENDS Integers, Sequences, FiniteSets

CONSTANTS
    Writers,      \* the processes that share the file
    Events,       \* audit events, each emitted at most once
    Faults,       \* which of "skip", "tear", "misread" may happen
    NoEvent

ASSUME ChainConstants ==
    /\ NoEvent \notin Events
    /\ Faults \subseteq {"skip", "tear", "misread"}
    /\ IsFiniteSet(Events)

VARIABLES
    file,     \* the lines of the file
    open,     \* whether the last line still lacks its newline
    pc,       \* pc[w]: "idle", or "append" after lastHash() returned
    event,    \* event[w]: the event w is emitting
    prev,     \* prev[w]: the hash w chains it to
    fate,     \* what became of an event: "none", "pending", "written", "skipped", "torn"
    misread   \* the events for which the file could not be read (history)

vars == <<file, open, pc, event, prev, fate, misread>>

-----------------------------------------------------------------------------
ZeroHash   == << >>
Hash(e, p) == Append(p, e)
(* Variant: no hash is stored. *)
Line_NoHash(e, p)  == [event |-> e, prev |-> p, hash |-> NoEvent]

Line(e, p) == [event |-> e, prev |-> p, hash |-> Hash(e, p)]

(* A line that JSON.parse rejects. *)
Unreadable == [event |-> NoEvent, prev |-> << >>, hash |-> << >>]
Readable(n) == file[n] # Unreadable

(* Variants: the line before the last is taken, or the first.              *)
LastHash_OffByOne == IF Len(file) < 2 THEN ZeroHash ELSE file[Len(file) - 1].hash
LastHash_First    == IF file = << >> THEN ZeroHash ELSE file[1].hash

LastHash == IF file = << >> THEN ZeroHash
            ELSE IF ~Readable(Len(file)) THEN ZeroHash
            ELSE file[Len(file)].hash

-----------------------------------------------------------------------------
Init ==
    /\ file = << >> /\ open = FALSE
    /\ pc = [w \in Writers |-> "idle"]
    /\ event = [w \in Writers |-> NoEvent]
    /\ prev = [w \in Writers |-> ZeroHash]
    /\ fate = [e \in Events |-> "none"]
    /\ misread = {}

(* lastHash(): any error, a file that cannot be read included, gives the   *)
(* hash an empty file has.                                                 *)
ReadLast(w, e) ==
    /\ pc[w] = "idle" /\ fate[e] = "none"
    /\ pc' = [pc EXCEPT ![w] = "append"]
    /\ event' = [event EXCEPT ![w] = e]
    /\ \/ prev' = [prev EXCEPT ![w] = LastHash] /\ UNCHANGED misread
       \/ /\ "misread" \in Faults
          /\ prev' = [prev EXCEPT ![w] = ZeroHash]
          /\ misread' = misread \cup {e}
    /\ fate' = [fate EXCEPT ![e] = "pending"]
    /\ UNCHANGED <<file, open>>

Finish(w, f) ==
    /\ pc[w] = "append"
    /\ pc' = [pc EXCEPT ![w] = "idle"]
    /\ fate' = [fate EXCEPT ![event[w]] = f]
    /\ UNCHANGED <<event, prev, misread>>

(* Variant: the file is written anew, not appended to. *)
Put_Rewrites(line) == file' = <<line>>

(* Bytes go behind an unterminated line, which they make unreadable, or on *)
(* a line of their own.                                                    *)
Put(line) ==
    file' = IF open THEN [file EXCEPT ![Len(file)] = Unreadable]
                    ELSE Append(file, line)

AppendLine(w) ==
    /\ Finish(w, "written")
    /\ Put(Line(event[w], prev[w]))
    /\ open' = FALSE

(* appendFileSync throws before it writes, or the process dies there.      *)
Skip(w) ==
    /\ "skip" \in Faults
    /\ Finish(w, "skipped")
    /\ UNCHANGED <<file, open>>

(* A disk that fills up, or a crash, leaves a part of the line; the part   *)
(* that lacks nothing but the newline can still be parsed.                 *)
Tear(w) ==
    /\ "tear" \in Faults
    /\ Finish(w, "torn")
    /\ \/ Put(Unreadable)
       \/ Put(Line(event[w], prev[w]))
    /\ open' = TRUE

Next == \E w \in Writers :
    \/ \E e \in Events : ReadLast(w, e)
    \/ AppendLine(w) \/ Skip(w) \/ Tear(w)

Spec == Init /\ [][Next]_vars

-----------------------------------------------------------------------------
(* verifyChain(): reads the lines in order and stops at the first that it  *)
(* cannot parse (it throws) or that does not continue the chain (false).   *)
Chained(n) ==
    /\ Readable(n)
    /\ file[n].prev = IF n = 1 THEN ZeroHash ELSE file[n - 1].hash
    /\ file[n].hash = Hash(file[n].event, file[n].prev)

VerifyTrue == \A n \in DOMAIN file : Chained(n)
VerifyFalse ==
    \E n \in DOMAIN file :
       Readable(n) /\ ~Chained(n) /\ \A m \in 1..(n - 1) : Chained(m)

-----------------------------------------------------------------------------
Fates == {"none", "pending", "written", "skipped", "torn"}
LineType == [event : Events \cup {NoEvent}, prev : Seq(Events), hash : Seq(Events)]

(* Type correctness of the file and of the emitters. *)
TypeOK ==
    /\ file \in Seq(LineType)
    /\ open \in BOOLEAN /\ (open => file # << >>)
    /\ pc \in [Writers -> {"idle", "append"}]
    /\ event \in [Writers -> Events \cup {NoEvent}]
    /\ \A w \in Writers : pc[w] = "append" => event[w] \in Events
    /\ prev \in [Writers -> Seq(Events)]
    /\ fate \in [Events -> Fates]
    /\ misread \subseteq Events

(* No event reached the file that was chained without a look at it. *)
ReadBeforeWrite == \A e \in misread : fate[e] \in {"pending", "skipped"}

(* With one writing process, unless it wrote an event whose lastHash()     *)
(* could not read the file, verifyChain never finds a broken chain,        *)
(* whatever writes fail or are cut short (it may throw, which is no        *)
(* verdict), and accepts the file if no write was cut short.               *)
ChainVerifies ==
    ReadBeforeWrite => /\ ~VerifyFalse
                       /\ (\A e \in Events : fate[e] # "torn") => VerifyTrue

(* With one writing process the chain starts anew behind a line that a     *)
(* torn write made unreadable, and with an event for which lastHash()      *)
(* could not read the file; it goes on from there, and breaks nowhere else. *)
RestartsAfterTear ==
    \A n \in DOMAIN file :
       Readable(n) =>
          file[n].prev = IF n > 1 /\ Readable(n - 1) /\ file[n].event \notin misread
                         THEN file[n - 1].hash ELSE ZeroHash

(* A torn write costs its own event and at most the next one written: of   *)
(* the events written in full at most one per torn write cannot be read.   *)
LossBounded ==
    LET written == {e \in Events : fate[e] = "written"}
        torn    == {e \in Events : fate[e] = "torn"}
        read    == {file[n].event : n \in DOMAIN file}
    IN  Cardinality(written \ read) <= Cardinality(torn)

(* "A broken chain is evidence of tampering" (audit-sink.ts:2): as nothing *)
(* but emit() touches the file here, verifyChain never finds a broken one. *)
(* Not true of two processes; of one it is, as ChainVerifies says, unless  *)
(* it wrote without having been able to read.                              *)
BrokenMeansTampered == ~VerifyFalse
=============================================================================
