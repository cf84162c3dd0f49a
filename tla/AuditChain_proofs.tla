------------------------- MODULE AuditChain_proofs --------------------------
(***************************************************************************)
(* The audit chain: of a single process, for any number of events, failed  *)
(* reads, failed and torn writes, where it may start anew and when         *)
(* verifyChain accepts it; and what torn writes cost any number of         *)
(* processes.                                                              *)
(***************************************************************************)
EXTENDS AuditChain, FiniteSetTheorems, TLAPS

(* One process writes the file.                                            *)
OneWriter == \A v, w \in Writers : v = w

(* A pending event is chained to what is still the last line, as nobody    *)
(* else appends, unless the file could not be read; and it has no other    *)
(* fate yet.                                                               *)
Pending ==
    \A w \in Writers : pc[w] = "append" =>
       /\ prev[w] = IF event[w] \in misread THEN ZeroHash ELSE LastHash
       /\ fate[event[w]] = "pending"

SelfHashed ==
    \A n \in DOMAIN file : Readable(n) => file[n].hash = Hash(file[n].event, file[n].prev)

(* Only a torn write leaves an unterminated or an unreadable line.         *)
OnlyTorn ==
    (open \/ \E n \in DOMAIN file : ~Readable(n)) => \E e \in Events : fate[e] = "torn"

(* Events that have been emitted, and no others, are in the file.          *)
Emitted ==
    /\ \A n \in DOMAIN file : Readable(n) =>
          file[n].event \in Events /\ fate[file[n].event] \in {"written", "torn"}
    /\ \A e \in misread : fate[e] # "none"

IInv == TypeOK /\ Pending /\ SelfHashed /\ OnlyTorn /\ Emitted /\ RestartsAfterTear

LEMMA UnreadableTyped == Unreadable \in LineType
  <1>1. << >> \in Seq(Events)
    OBVIOUS
  <1> QED BY <1>1 DEF Unreadable, LineType

LEMMA LineTyped ==
  ASSUME NEW e \in Events, NEW p \in Seq(Events)
  PROVE  /\ Line(e, p) \in LineType
         /\ Line(e, p) # Unreadable
         /\ Line(e, p).prev = p
         /\ Line(e, p).hash = Hash(e, p)
         /\ Line(e, p).event = e
  <1>1. Append(p, e) \in Seq(Events)
    OBVIOUS
  <1>2. e # NoEvent
    BY ChainConstants
  <1> QED BY <1>1, <1>2 DEF Line, Hash, LineType, Unreadable

LEMMA LastHashTyped ==
  ASSUME TypeOK
  PROVE  LastHash \in Seq(Events)
  <1>1. << >> \in Seq(Events)
    OBVIOUS
  <1>2. CASE file = << >>
    BY <1>1, <1>2 DEF LastHash, ZeroHash
  <1>3. CASE file # << >>
    <2>1. file[Len(file)] \in LineType
      BY <1>3 DEF TypeOK
    <2> QED BY <1>1, <1>3, <2>1 DEF LastHash, ZeroHash, LineType
  <1> QED BY <1>2, <1>3

(* What a write does to the file: the lines before the last keep, and the  *)
(* last is either the new line or an unreadable one.                       *)
LEMMA PutKeeps ==
  ASSUME TypeOK, RestartsAfterTear, SelfHashed, NEW line \in LineType, Put(line),
         \/ line = Unreadable
         \/ /\ line # Unreadable
            /\ line.prev = IF line.event \in misread THEN ZeroHash ELSE LastHash
            /\ line.hash = Hash(line.event, line.prev),
         UNCHANGED misread
  PROVE  /\ file' \in Seq(LineType)
         /\ file' # << >>
         /\ RestartsAfterTear'
         /\ SelfHashed'
         /\ \A n \in DOMAIN file' : file'[n] \notin {Unreadable, line} =>
               n \in DOMAIN file /\ file'[n] = file[n]
  <1>1. CASE open
    <2>1. file' = [file EXCEPT ![Len(file)] = Unreadable]
      BY <1>1 DEF Put
    <2>2. /\ file \in Seq(LineType) /\ file # << >> /\ Len(file) \in Nat
          /\ Len(file) \in DOMAIN file
      BY <1>1 DEF TypeOK
    <2>3. file' \in Seq(LineType) /\ Len(file') = Len(file) /\ DOMAIN file' = DOMAIN file
      BY <2>1, <2>2, UnreadableTyped
    <2>4. \A n \in DOMAIN file : n # Len(file) => file'[n] = file[n]
      BY <2>1, <2>2
    <2>5. file'[Len(file)] = Unreadable
      BY <2>1, <2>2
    <2>6. RestartsAfterTear'
      BY <2>2, <2>3, <2>4, <2>5 DEF RestartsAfterTear, Readable
    <2>7. SelfHashed'
      BY <2>2, <2>3, <2>4, <2>5 DEF SelfHashed, Readable
    <2> QED BY <2>2, <2>3, <2>4, <2>5, <2>6, <2>7
  <1>2. CASE ~open
    <2>1. file' = Append(file, line)
      BY <1>2 DEF Put
    <2>2. file \in Seq(LineType) /\ Len(file) \in Nat
      BY DEF TypeOK
    <2>3. /\ file' \in Seq(LineType) /\ Len(file') = Len(file) + 1
          /\ DOMAIN file' = 1..(Len(file) + 1) /\ file'[Len(file) + 1] = line
          /\ \A n \in 1..Len(file) : file'[n] = file[n]
      BY <2>1, <2>2
    <2>4. LastHash = IF Len(file) > 0 /\ Readable(Len(file)) THEN file[Len(file)].hash
                                                           ELSE ZeroHash
      BY <2>2 DEF LastHash
    <2>5. RestartsAfterTear'
      <3>1. SUFFICES ASSUME NEW n \in 1..(Len(file) + 1), file'[n] # Unreadable
                     PROVE  file'[n].prev =
                              IF n > 1 /\ file'[n - 1] # Unreadable /\ file'[n].event \notin misread
                              THEN file'[n - 1].hash ELSE ZeroHash
        BY <2>3 DEF RestartsAfterTear, Readable
      <3>2. CASE n = Len(file) + 1
        BY <2>2, <2>3, <2>4, <3>1, <3>2 DEF Readable
      <3>3. CASE n \in 1..Len(file)
        BY <2>2, <2>3, <3>1, <3>3 DEF RestartsAfterTear, Readable
      <3> QED BY <2>2, <3>2, <3>3
    <2>6. SelfHashed'
      BY <2>2, <2>3 DEF SelfHashed, Readable
    <2> QED BY <2>2, <2>3, <2>5, <2>6
  <1> QED BY <1>1, <1>2 DEF TypeOK

LEMMA ChainInit == Init => IInv
  <1> SUFFICES ASSUME Init PROVE IInv
    OBVIOUS
  <1>1. << >> \in Seq(LineType) /\ << >> \in Seq(Events)
    OBVIOUS
  <1>2. TypeOK
    BY <1>1 DEF Init, TypeOK, ZeroHash, Fates
  <1> QED BY <1>2 DEF Init, IInv, Pending, SelfHashed, OnlyTorn, Emitted, RestartsAfterTear

LEMMA ChainStep ==
  ASSUME OneWriter
  PROVE  IInv /\ [Next]_vars => IInv'
  <1> SUFFICES ASSUME IInv, [Next]_vars PROVE IInv'
    OBVIOUS
  <1> USE DEF IInv
  <1>1. ASSUME NEW w \in Writers, NEW e \in Events, ReadLast(w, e)
        PROVE  IInv'
    <2>1. /\ pc' = [pc EXCEPT ![w] = "append"] /\ event' = [event EXCEPT ![w] = e]
          /\ fate' = [fate EXCEPT ![e] = "pending"] /\ fate[e] = "none"
          /\ UNCHANGED <<file, open>>
      BY <1>1 DEF ReadLast
    <2>2. PICK h \in Seq(Events) : /\ prev' = [prev EXCEPT ![w] = h]
                                   /\ h = IF e \in misread' THEN ZeroHash ELSE LastHash
                                   /\ misread' \in {misread, misread \cup {e}}
      <3>1. << >> \in Seq(Events)
        OBVIOUS
      <3>2. e \notin misread
        BY <2>1 DEF Emitted
      <3> QED BY <1>1, <3>1, <3>2, LastHashTyped DEF ReadLast, ZeroHash
    <2>3. TypeOK'
      BY <2>1, <2>2 DEF TypeOK, Fates
    <2>4. LastHash' = LastHash
      BY <2>1 DEF LastHash, Readable
    <2>5. Pending'
      BY <2>1, <2>2, <2>4 DEF Pending, TypeOK, OneWriter
    <2>6. Emitted'
      BY <2>1, <2>2 DEF Emitted, TypeOK, Readable
    <2>7. OnlyTorn'
      BY <2>1 DEF OnlyTorn, TypeOK, Readable
    <2>8. SelfHashed' /\ RestartsAfterTear'
      BY <2>1, <2>2 DEF SelfHashed, RestartsAfterTear, Readable, Emitted
    <2> QED BY <2>3, <2>5, <2>6, <2>7, <2>8
  <1>2. ASSUME NEW w \in Writers, AppendLine(w)
        PROVE  IInv'
    <2> DEFINE line == Line(event[w], prev[w])
    <2>1. /\ pc[w] = "append" /\ event[w] \in Events /\ prev[w] \in Seq(Events)
          /\ prev[w] = IF event[w] \in misread THEN ZeroHash ELSE LastHash
          /\ fate[event[w]] = "pending" /\ UNCHANGED misread
      BY <1>2 DEF AppendLine, Finish, TypeOK, Pending
    <2>2. /\ line \in LineType /\ line # Unreadable
          /\ line.prev = IF line.event \in misread THEN ZeroHash ELSE LastHash
          /\ line.event = event[w] /\ line.hash = Hash(line.event, line.prev)
      BY <2>1, LineTyped
    <2>3. Put(line)
      BY <1>2 DEF AppendLine
    <2> HIDE DEF line
    <2>4. /\ file' \in Seq(LineType) /\ file' # << >> /\ RestartsAfterTear' /\ SelfHashed'
          /\ \A n \in DOMAIN file' : file'[n] \notin {Unreadable, line} =>
                n \in DOMAIN file /\ file'[n] = file[n]
      BY <2>1, <2>2, <2>3, PutKeeps
    <2>5. /\ pc' = [pc EXCEPT ![w] = "idle"] /\ UNCHANGED <<event, prev>>
          /\ fate' = [fate EXCEPT ![event[w]] = "written"] /\ open' = FALSE
      BY <1>2 DEF AppendLine, Finish
    <2>6. TypeOK'
      BY <2>1, <2>4, <2>5 DEF TypeOK, Fates
    <2>7. Pending'
      BY <2>5 DEF Pending, TypeOK, OneWriter
    <2>8. OnlyTorn'
      <3>1. (\E n \in DOMAIN file' : file'[n] = Unreadable) =>
                open \/ \E n \in DOMAIN file : ~Readable(n)
        <4>1. CASE open
          BY <4>1
        <4>2. CASE ~open
          <5>1. file' = Append(file, line) /\ file \in Seq(LineType)
            BY <2>3, <4>2 DEF Put, TypeOK
          <5> QED BY <5>1, <2>2 DEF Readable
        <4> QED BY <4>1, <4>2
      <3>2. \A e \in Events : fate[e] = "torn" => fate'[e] = "torn"
        BY <2>1, <2>5 DEF TypeOK
      <3> QED BY <2>5, <3>1, <3>2 DEF OnlyTorn, Readable
    <2>9. Emitted'
      BY <2>1, <2>2, <2>4, <2>5 DEF Emitted, TypeOK, Readable
    <2> QED BY <2>4, <2>6, <2>7, <2>8, <2>9
  <1>3. ASSUME NEW w \in Writers, Skip(w)
        PROVE  IInv'
    <2>1. /\ pc[w] = "append" /\ event[w] \in Events /\ fate[event[w]] = "pending"
          /\ pc' = [pc EXCEPT ![w] = "idle"] /\ UNCHANGED <<event, prev, file, open, misread>>
          /\ fate' = [fate EXCEPT ![event[w]] = "skipped"]
      BY <1>3 DEF Skip, Finish, TypeOK, Pending
    <2>2. TypeOK'
      BY <2>1 DEF TypeOK, Fates
    <2>3. Pending'
      BY <2>1 DEF Pending, TypeOK, OneWriter
    <2>4. OnlyTorn'
      BY <2>1 DEF OnlyTorn, TypeOK, Readable
    <2>5. SelfHashed' /\ RestartsAfterTear'
      BY <2>1 DEF SelfHashed, RestartsAfterTear, Readable
    <2>6. Emitted'
      BY <2>1 DEF Emitted, TypeOK, Readable
    <2> QED BY <2>2, <2>3, <2>4, <2>5, <2>6
  <1>4. ASSUME NEW w \in Writers, Tear(w)
        PROVE  IInv'
    <2> DEFINE line == Line(event[w], prev[w])
    <2>1. /\ pc[w] = "append" /\ event[w] \in Events /\ prev[w] \in Seq(Events)
          /\ prev[w] = IF event[w] \in misread THEN ZeroHash ELSE LastHash
          /\ fate[event[w]] = "pending" /\ UNCHANGED misread
      BY <1>4 DEF Tear, Finish, TypeOK, Pending
    <2>2. /\ line \in LineType /\ line # Unreadable
          /\ line.prev = IF line.event \in misread THEN ZeroHash ELSE LastHash
          /\ line.event = event[w] /\ line.hash = Hash(line.event, line.prev)
      BY <2>1, LineTyped
    <2>3. Put(line) \/ Put(Unreadable)
      BY <1>4 DEF Tear
    <2> HIDE DEF line
    <2>4. /\ file' \in Seq(LineType) /\ file' # << >> /\ RestartsAfterTear' /\ SelfHashed'
          /\ \A n \in DOMAIN file' : file'[n] \notin {Unreadable, line} =>
                n \in DOMAIN file /\ file'[n] = file[n]
      BY <2>1, <2>2, <2>3, PutKeeps, UnreadableTyped
    <2>5. /\ pc' = [pc EXCEPT ![w] = "idle"] /\ UNCHANGED <<event, prev>>
          /\ fate' = [fate EXCEPT ![event[w]] = "torn"] /\ open' = TRUE
      BY <1>4 DEF Tear, Finish
    <2>6. TypeOK'
      BY <2>1, <2>4, <2>5 DEF TypeOK, Fates
    <2>7. Pending'
      BY <2>5 DEF Pending, TypeOK, OneWriter
    <2>8. OnlyTorn'
      BY <2>1, <2>5 DEF OnlyTorn, TypeOK
    <2>9. Emitted'
      BY <2>1, <2>2, <2>4, <2>5 DEF Emitted, TypeOK, Readable
    <2> QED BY <2>4, <2>6, <2>7, <2>8, <2>9
  <1>5. CASE UNCHANGED vars
    BY <1>5 DEF vars, TypeOK, Pending, SelfHashed, OnlyTorn, Emitted, RestartsAfterTear, Readable,
               LastHash
  <1> QED BY <1>1, <1>2, <1>3, <1>4, <1>5 DEF Next

LEMMA ChainSafe == IInv => ChainVerifies
  <1> SUFFICES ASSUME IInv, ReadBeforeWrite
               PROVE  /\ ~VerifyFalse
                      /\ (\A e \in Events : fate[e] # "torn") => VerifyTrue
    BY DEF ChainVerifies
  <1>1. file \in Seq(LineType) /\ Len(file) \in Nat /\ DOMAIN file = 1..Len(file)
    BY DEF IInv, TypeOK
  <1>2. \A n \in DOMAIN file : Readable(n) => file[n].event \notin misread
    BY DEF IInv, Emitted, ReadBeforeWrite
  <1>3. ASSUME \A e \in Events : fate[e] # "torn", NEW n \in DOMAIN file
        PROVE  Chained(n)
    <2>1. \A m \in DOMAIN file : Readable(m)
      BY <1>3 DEF IInv, OnlyTorn
    <2> QED BY <1>1, <1>2, <1>3, <2>1 DEF IInv, Chained, RestartsAfterTear, SelfHashed
  <1>4. ASSUME NEW n \in DOMAIN file, Readable(n), ~Chained(n),
               \A m \in 1..(n - 1) : Chained(m)
        PROVE  FALSE
    <2>1. n > 1 => Readable(n - 1)
      BY <1>1, <1>4 DEF Chained
    <2> QED BY <1>1, <1>2, <1>4, <2>1 DEF IInv, Chained, RestartsAfterTear, SelfHashed
  <1> QED BY <1>3, <1>4 DEF VerifyTrue, VerifyFalse

(* With one writing process the chain starts anew behind unreadable lines  *)
(* and with events whose lastHash() could not read the file, and nowhere   *)
(* else, whatever reads and writes fail or are cut short.                  *)
THEOREM ChainRestarts ==
  ASSUME OneWriter
  PROVE  Spec => []RestartsAfterTear
  <1>1. IInv /\ [Next]_vars => IInv'
    BY ChainStep
  <1>2. IInv => RestartsAfterTear
    BY DEF IInv
  <1> QED BY <1>1, <1>2, ChainInit, PTL DEF Spec

(* With one writing process that never wrote an event without having been  *)
(* able to read the file, verifyChain never reports a broken chain, torn   *)
(* writes included, and accepts the file while no write was torn.          *)
THEOREM ChainVerified ==
  ASSUME OneWriter
  PROVE  Spec => []ChainVerifies
  <1>1. IInv /\ [Next]_vars => IInv'
    BY ChainStep
  <1> QED BY <1>1, ChainInit, ChainSafe, PTL DEF Spec

-----------------------------------------------------------------------------
(* What torn writes cost, for any number of processes and all faults.      *)

Written  == {e \in Events : fate[e] = "written"}
Torn     == {e \in Events : fate[e] = "torn"}
Lost     == Written \ {file[n].event : n \in DOMAIN file}

(* Two processes never emit one event. *)
OwnEvent ==
    \A v \in Writers : pc[v] = "append" =>
       /\ fate[event[v]] = "pending"
       /\ \A w \in Writers \ {v} : pc[w] = "append" => event[w] # event[v]

(* The unterminated line is that of a torn event, or nobody's, and the     *)
(* loss it will cause is provided for.                                     *)
LossInv ==
    /\ open => file[Len(file)].event \notin Written
    /\ Cardinality(Lost) + (IF open THEN 1 ELSE 0) <= Cardinality(Torn)

LInv == TypeOK /\ OwnEvent /\ LossInv

LEMMA EventsFinite ==
    /\ IsFiniteSet(Torn) /\ Cardinality(Torn) \in Nat
    /\ IsFiniteSet(Lost) /\ Cardinality(Lost) \in Nat
  <1>1. Torn \subseteq Events /\ Lost \subseteq Events
    BY DEF Torn, Lost, Written
  <1> QED BY <1>1, ChainConstants, FS_Subset, FS_CardinalityType

(* What a write does to the events that can be read. *)
LEMMA PutReads ==
  ASSUME TypeOK, NEW line \in LineType, Put(line)
  PROVE  /\ file' \in Seq(LineType) /\ file' # << >>
         /\ open => /\ \A n \in DOMAIN file : n # Len(file) =>
                          n \in DOMAIN file' /\ file'[n].event = file[n].event
                    /\ file'[Len(file')].event = NoEvent
         /\ ~open => /\ \A n \in DOMAIN file :
                           n \in DOMAIN file' /\ file'[n].event = file[n].event
                     /\ Len(file') \in DOMAIN file' /\ file'[Len(file')] = line
  <1>1. CASE open
    <2>1. file' = [file EXCEPT ![Len(file)] = Unreadable]
      BY <1>1 DEF Put
    <2>2. file \in Seq(LineType) /\ file # << >> /\ Len(file) \in DOMAIN file
      BY <1>1 DEF TypeOK
    <2>3. file' \in Seq(LineType) /\ Len(file') = Len(file) /\ DOMAIN file' = DOMAIN file
      BY <2>1, <2>2, UnreadableTyped
    <2>4. file'[Len(file)] = Unreadable /\ Unreadable.event = NoEvent
      BY <2>1, <2>2 DEF Unreadable
    <2> QED BY <1>1, <2>1, <2>2, <2>3, <2>4
  <1>2. CASE ~open
    <2>1. file' = Append(file, line) /\ file \in Seq(LineType)
      BY <1>2 DEF Put, TypeOK
    <2> QED BY <1>2, <2>1
  <1> QED BY <1>1, <1>2

LEMMA LossInit == Init => LInv
  <1> SUFFICES ASSUME Init PROVE LInv
    OBVIOUS
  <1>1. << >> \in Seq(LineType) /\ << >> \in Seq(Events)
    OBVIOUS
  <1>2. TypeOK /\ OwnEvent
    BY <1>1 DEF Init, TypeOK, ZeroHash, Fates, OwnEvent
  <1>3. Lost = {} /\ Torn = {} /\ open = FALSE
    BY DEF Init, Lost, Written, Torn
  <1> QED BY <1>2, <1>3, FS_EmptySet DEF LInv, LossInv

LEMMA LossStep == LInv /\ [Next]_vars => LInv'
  <1> SUFFICES ASSUME LInv, [Next]_vars PROVE LInv'
    OBVIOUS
  <1> USE DEF LInv
  <1>1. ASSUME NEW w \in Writers, NEW e \in Events, ReadLast(w, e)
        PROVE  LInv'
    <2>1. /\ pc' = [pc EXCEPT ![w] = "append"] /\ event' = [event EXCEPT ![w] = e]
          /\ fate' = [fate EXCEPT ![e] = "pending"] /\ fate[e] = "none"
          /\ UNCHANGED <<file, open>>
      BY <1>1 DEF ReadLast
    <2>2. misread' \subseteq Events /\ \E h \in Seq(Events) : prev' = [prev EXCEPT ![w] = h]
      <3>1. << >> \in Seq(Events)
        OBVIOUS
      <3> QED BY <1>1, <3>1, LastHashTyped DEF ReadLast, ZeroHash, TypeOK
    <2>3. TypeOK'
      BY <2>1, <2>2 DEF TypeOK, Fates
    <2>4. OwnEvent'
      BY <2>1 DEF OwnEvent, TypeOK
    <2>5. Written' = Written /\ Torn' = Torn
      BY <2>1 DEF Written, Torn, TypeOK
    <2> QED BY <2>1, <2>3, <2>4, <2>5 DEF LossInv, Lost
  <1>2. ASSUME NEW w \in Writers, NEW f \in Fates, Finish(w, f), f \in {"written", "skipped", "torn"}
        PROVE  /\ event[w] \in Events /\ prev[w] \in Seq(Events) /\ fate[event[w]] = "pending"
               /\ pc' \in [Writers -> {"idle", "append"}]
               /\ event' \in [Writers -> Events \cup {NoEvent}]
               /\ \A v \in Writers : pc'[v] = "append" => event'[v] \in Events
               /\ prev' \in [Writers -> Seq(Events)]
               /\ fate' \in [Events -> Fates] /\ misread' \subseteq Events
               /\ OwnEvent'
               /\ Written' = IF f = "written" THEN Written \cup {event[w]} ELSE Written
               /\ Torn' = IF f = "torn" THEN Torn \cup {event[w]} ELSE Torn
               /\ event[w] \notin Torn /\ event[w] \notin Written
    <2>1. /\ pc[w] = "append" /\ pc' = [pc EXCEPT ![w] = "idle"]
          /\ fate' = [fate EXCEPT ![event[w]] = f] /\ UNCHANGED <<event, prev, misread>>
      BY <1>2 DEF Finish
    <2>2. event[w] \in Events /\ prev[w] \in Seq(Events) /\ fate[event[w]] = "pending"
      BY <2>1 DEF TypeOK, OwnEvent
    <2>3. OwnEvent'
      BY <2>1, <2>2 DEF OwnEvent, TypeOK
    <2>4. /\ Written' = IF f = "written" THEN Written \cup {event[w]} ELSE Written
          /\ Torn' = IF f = "torn" THEN Torn \cup {event[w]} ELSE Torn
          /\ event[w] \notin Torn /\ event[w] \notin Written
      BY <1>2, <2>1, <2>2 DEF Written, Torn, TypeOK
    <2> QED BY <2>1, <2>2, <2>3, <2>4, <1>2 DEF TypeOK
  <1>3. ASSUME NEW w \in Writers, AppendLine(w)
        PROVE  LInv'
    <2> DEFINE line == Line(event[w], prev[w])
               e == event[w]
    <2>1. Finish(w, "written") /\ Put(line) /\ open' = FALSE
      BY <1>3 DEF AppendLine
    <2>2. /\ e \in Events /\ OwnEvent' /\ Written' = Written \cup {e} /\ Torn' = Torn
          /\ e \notin Written
          /\ prev[w] \in Seq(Events)
      BY <1>2, <2>1 DEF Fates
    <2>3. line \in LineType /\ line.event = e
      BY <2>2, LineTyped
    <2>4. TypeOK'
      BY <1>2, <2>1, <2>3, PutReads DEF Fates, TypeOK
    <2>5. Cardinality(Lost') <= Cardinality(Torn)
      <3>1. CASE open
        <4>1. Lost' \subseteq Lost \cup {e}
          <5> SUFFICES ASSUME NEW d \in Written, d # e, d \notin Lost
                       PROVE  d \notin Lost'
            BY <2>2 DEF Lost
          <5>1. PICK n \in DOMAIN file : file[n].event = d
            BY DEF Lost
          <5>2. n # Len(file)
            BY <3>1, <5>1 DEF LossInv
          <5>3. n \in DOMAIN file' /\ file'[n].event = d
            BY <3>1, <5>1, <5>2, <2>1, <2>3, PutReads
          <5> QED BY <5>3 DEF Lost
        <4>2. /\ IsFiniteSet(Lost \cup {e})
              /\ Cardinality(Lost \cup {e}) <= Cardinality(Lost) + 1
          <5>1. IsFiniteSet(Lost) /\ Cardinality(Lost) \in Nat
            BY EventsFinite
          <5>2. Cardinality(Lost \cup {e}) = IF e \in Lost THEN Cardinality(Lost)
                                             ELSE Cardinality(Lost) + 1
            BY <5>1, FS_AddElement
          <5> QED BY <5>1, <5>2, FS_AddElement
        <4>3. Cardinality(Lost') <= Cardinality(Lost \cup {e}) /\ Cardinality(Lost') \in Nat
              /\ Cardinality(Lost \cup {e}) \in Nat
          BY <4>1, <4>2, FS_Subset, FS_CardinalityType
        <4> QED BY <3>1, <4>2, <4>3, EventsFinite DEF LossInv
      <3>2. CASE ~open
        <4>1. Lost' \subseteq Lost
          <5> SUFFICES ASSUME NEW d \in Written', d \notin Lost
                       PROVE  d \notin Lost'
            BY DEF Lost
          <5>1. CASE d = e
            BY <5>1, <3>2, <2>1, <2>3, PutReads DEF Lost
          <5>2. CASE d # e
            <6>1. PICK n \in DOMAIN file : file[n].event = d
              BY <5>2, <2>2 DEF Lost
            <6> QED BY <6>1, <3>2, <2>1, <2>3, PutReads DEF Lost
          <5> QED BY <5>1, <5>2
        <4>2. Cardinality(Lost') <= Cardinality(Lost) /\ Cardinality(Lost') \in Nat
          BY <4>1, EventsFinite, FS_Subset, FS_CardinalityType
        <4> QED BY <3>2, <4>2, EventsFinite DEF LossInv
      <3> QED BY <3>1, <3>2
    <2>6. Cardinality(Lost') \in Nat
      <3>1. Lost' \subseteq Events
        BY <2>2 DEF Lost, Written
      <3> QED BY <3>1, ChainConstants, FS_Subset, FS_CardinalityType
    <2> QED BY <2>1, <2>2, <2>4, <2>5, <2>6 DEF LossInv
  <1>4. ASSUME NEW w \in Writers, Skip(w)
        PROVE  LInv'
    <2>1. Finish(w, "skipped") /\ UNCHANGED <<file, open>>
      BY <1>4 DEF Skip
    <2>2. OwnEvent' /\ Written' = Written /\ Torn' = Torn
      BY <1>2, <2>1 DEF Fates
    <2>3. TypeOK'
      BY <1>2, <2>1 DEF Fates, TypeOK
    <2> QED BY <2>1, <2>2, <2>3 DEF LossInv, Lost
  <1>5. ASSUME NEW w \in Writers, Tear(w)
        PROVE  LInv'
    <2> DEFINE e == event[w]
    <2>1. Finish(w, "torn") /\ open' = TRUE
      BY <1>5 DEF Tear
    <2>2. /\ e \in Events /\ OwnEvent' /\ Written' = Written /\ Torn' = Torn \cup {e}
          /\ e \notin Torn /\ e \notin Written /\ prev[w] \in Seq(Events)
      BY <1>2, <2>1 DEF Fates
    <2>3. PICK line \in LineType : Put(line) /\ line.event \in {e, NoEvent}
      <3>1. Unreadable.event = NoEvent
        BY DEF Unreadable
      <3> QED BY <1>5, <2>2, <3>1, LineTyped, UnreadableTyped DEF Tear
    <2>4. TypeOK'
      BY <1>2, <2>1, <2>3, PutReads DEF Fates, TypeOK
    <2>5. file'[Len(file')].event \notin Written'
      <3>1. NoEvent \notin Written
        BY ChainConstants DEF Written
      <3> QED BY <3>1, <2>2, <2>3, PutReads
    <2>6. Lost' \subseteq Lost
      <3> SUFFICES ASSUME NEW d \in Written, d \notin Lost
                   PROVE  d \notin Lost'
        BY <2>2 DEF Lost
      <3>1. PICK n \in DOMAIN file : file[n].event = d
        BY DEF Lost
      <3>2. open => n # Len(file)
        BY <3>1 DEF LossInv
      <3>3. n \in DOMAIN file' /\ file'[n].event = d
        BY <3>1, <3>2, <2>3, PutReads
      <3> QED BY <3>3 DEF Lost
    <2>7. Cardinality(Lost') <= Cardinality(Lost) /\ Cardinality(Lost') \in Nat
      BY <2>6, EventsFinite, FS_Subset, FS_CardinalityType
    <2>8. Cardinality(Torn') = Cardinality(Torn) + 1
      BY <2>2, EventsFinite, FS_AddElement
    <2>9. LossInv'
      BY <2>1, <2>5, <2>7, <2>8, EventsFinite DEF LossInv
    <2> QED BY <2>2, <2>4, <2>9
  <1>6. CASE UNCHANGED vars
    BY <1>6 DEF vars, TypeOK, OwnEvent, LossInv, Lost, Written, Torn
  <1> QED BY <1>1, <1>3, <1>4, <1>5, <1>6 DEF Next

(* The file and its writers keep their types, with any number of processes *)
(* and all faults.                                                         *)
THEOREM ChainTypeCorrect == Spec => []TypeOK
  <1>1. LInv => TypeOK
    BY DEF LInv
  <1> QED BY <1>1, LossInit, LossStep, PTL DEF Spec

(* Whatever the number of processes and faults, a torn write costs at most *)
(* one event that was written in full.                                     *)
THEOREM ChainLoss == Spec => []LossBounded
  <1>1. LInv => LossBounded
    BY EventsFinite DEF LInv, LossInv, LossBounded, Lost, Written, Torn
  <1> QED BY <1>1, LossInit, LossStep, PTL DEF Spec
=============================================================================
