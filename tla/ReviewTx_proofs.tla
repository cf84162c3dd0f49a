--------------------------- MODULE ReviewTx_proofs --------------------------
(***************************************************************************)
(* ReviewTx implements ReviewSpec for every number of requests, ingests    *)
(* and tracks and every size of the pool; the safety invariants checked on *)
(* the finite instances follow.                                            *)
(***************************************************************************)
EXTENDS ReviewTables_proofs, SequenceTheorems, FiniteSetTheorems

-----------------------------------------------------------------------------
(* The inductive invariant.                                                *)

(* Where a handler waits fixes how far its transaction got on the server.  *)
WritesTrack(r) == req[r].action \in {"approve", "revoke"}

Phase ==
    \A r \in Requests :
       /\ pc[r] # "new" => req[r] \in [ingest : Ingests, action : RouteActions]
       /\ pc[r] \in {"new", "connect", "begin", "ack", "release", "requery", "detail", "done"}
             => tx[r] = "none"
       /\ pc[r] \in {"readTrack", "fetch", "cas"} => tx[r] = "open"
       /\ pc[r] = "review" => tx[r] = "cas"
       /\ pc[r] = "project" => tx[r] = "review" /\ WritesTrack(r)
       /\ pc[r] = "commit" => tx[r] = IF WritesTrack(r) THEN "proj" ELSE "review"
       /\ tx[r] = "proj" => WritesTrack(r)

(* From the CAS to the end of the transaction, the state the handler read  *)
(* permits its action, is still the committed state of the ingest, and no  *)
(* other transaction has updated that ingest.                              *)
RowStable ==
    \A r \in Requests :
       /\ pc[r] = "cas" \/ HoldsRow(r) =>
             seen[r] \in States /\ req[r].action \in Allowed[seen[r]]
       /\ HoldsRow(r) => /\ ingest[req[r].ingest] = seen[r]
                         /\ ~RowLocked(r)

(* An uncommitted tracks row clashes neither with a committed one nor with *)
(* another uncommitted one; a row being deleted has no lyrics.             *)
SameKey(i, j) ==
    TrackOf[i] = TrackOf[j] \/ (IsrcOf[i] # NoIsrc /\ IsrcOf[i] = IsrcOf[j])

KeyStable ==
    \A r \in Requests :
       /\ Projects(r, "approve") =>
             LET i == req[r].ingest IN
             /\ Abs!Clashing(TrackOf[i], IsrcOf[i]) = {}
             /\ \A o \in Requests \ {r} :
                   Projects(o, "approve") => ~SameKey(req[o].ingest, i)
       /\ Projects(r, "revoke") => TrackOf[req[r].ingest] \notin lyrics

(* A request has a review row only once its COMMIT was executed, and then  *)
(* its answer is not 404 or 409; a handler that got the acknowledgement    *)
(* has a row.                                                              *)
Once ==
    \A r \in Requests :
       /\ r \in Abs!Deciders => /\ pc[r] \in {"ack", "rollback", "release", "detail", "done"}
                                /\ tx[r] = "none"
                                /\ result[r] \notin {"not_found", "invalid"}
       /\ result[r] = "ok" => pc[r] \in {"detail", "done"} /\ r \in Abs!Deciders
       /\ pc[r] = "ack" => r \in Abs!Deciders
       /\ pc[r] \notin {"rollback", "release", "requery", "detail", "done"} => result[r] = "none"

IInv == TypeOK /\ Phase /\ RowStable /\ KeyStable /\ Once

-----------------------------------------------------------------------------
(* Statements that leave the tables alone leave what is read off them. *)
LEMMA TablesFrame ==
    ASSUME UNCHANGED db
    PROVE  /\ Abs!TypeOK => Abs!TypeOK'
           /\ Abs!Deciders' = Abs!Deciders
           /\ \A i \in Ingests : Abs!Clashing(TrackOf[i], IsrcOf[i])'
                                 = Abs!Clashing(TrackOf[i], IsrcOf[i])
BY DEF db, Abs!TypeOK, Abs!Deciders, Abs!Clashing, Abs!RowIsrc

(* A step in which no transaction newly writes tracks keeps the keys apart. *)
LEMMA KeyFrame ==
    ASSUME KeyStable, Phase, UNCHANGED db,
           \A o \in Requests : tx'[o] = "proj" =>
              /\ tx[o] = "proj" /\ req'[o] = req[o]
              /\ req[o].ingest \in Ingests
    PROVE  KeyStable'
<1> SUFFICES ASSUME NEW r \in Requests
             PROVE  /\ Projects(r, "approve")' =>
                         /\ Abs!Clashing(TrackOf[req[r].ingest], IsrcOf[req[r].ingest])' = {}
                         /\ \A o \in Requests \ {r} :
                               Projects(o, "approve")' => ~SameKey(req[o].ingest, req[r].ingest)'
                    /\ Projects(r, "revoke")' => (TrackOf[req[r].ingest] \notin lyrics)'
  BY DEF KeyStable
<1>1. \A o \in Requests, a \in {"approve", "revoke"} :
         Projects(o, a)' => Projects(o, a) /\ req'[o] = req[o] /\ req[o].ingest \in Ingests
  BY DEF Projects
<1>2. ASSUME Projects(r, "approve")'
      PROVE  Abs!Clashing(TrackOf[req[r].ingest], IsrcOf[req[r].ingest])' = {}
  <2>1. /\ Projects(r, "approve") /\ req'[r] = req[r] /\ req[r].ingest \in Ingests
    BY <1>1, <1>2
  <2>2. Abs!Clashing(TrackOf[req[r].ingest], IsrcOf[req[r].ingest]) = {}
    BY <2>1 DEF KeyStable
  <2> QED BY <2>1, <2>2, TablesFrame DEF Abs!Clashing, Abs!RowIsrc, db
<1>3. ASSUME Projects(r, "approve")', NEW o \in Requests \ {r}, Projects(o, "approve")'
      PROVE  ~SameKey(req[o].ingest, req[r].ingest)'
  BY <1>1, <1>3 DEF KeyStable, SameKey
<1>4. ASSUME Projects(r, "revoke")'
      PROVE  (TrackOf[req[r].ingest] \notin lyrics)'
  BY <1>1, <1>4 DEF KeyStable, db
<1> QED BY <1>2, <1>3, <1>4

(* The handler's own steps other than COMMIT touch no committed table.     *)
LEMMA QuietStep ==
    ASSUME IInv, NEW r \in Requests, Step(r) \/ Fault(r), ~Commit(r)
    PROVE  IInv'
<1> USE TxConstants, ReviewConstants
<1>1. ASSUME Connect(r) PROVE IInv'
  <2>0. UNCHANGED db
    BY <1>1 DEF Connect
  <2>1. TypeOK'
    BY <1>1, <2>0, TablesFrame DEF Connect, Goto, IInv, TypeOK, local, PcValues
  <2>2. Phase'
    BY <1>1 DEF Connect, Goto, IInv, TypeOK, Phase, WritesTrack, local
  <2>3. RowStable'
    BY <1>1, <2>0 DEF Connect, Goto, IInv, TypeOK, Phase, RowStable, HoldsRow, RowLocked, local, db
  <2>4. KeyStable'
    BY <1>1, <2>0, KeyFrame DEF Connect, Goto, IInv, TypeOK, Phase, local
  <2>5. Once'
    BY <1>1, <2>0, TablesFrame DEF Connect, Goto, IInv, TypeOK, Phase, Once, local
  <2> QED BY <2>1, <2>2, <2>3, <2>4, <2>5 DEF IInv
<1>2. ASSUME Begin(r) PROVE IInv'
  <2>0. UNCHANGED db
    BY <1>2 DEF Begin
  <2>1. TypeOK'
    BY <1>2, <2>0, TablesFrame DEF Begin, Goto, IInv, TypeOK, local, PcValues
  <2>2. Phase'
    BY <1>2 DEF Begin, Goto, IInv, TypeOK, Phase, WritesTrack, local
  <2>3. RowStable'
    BY <1>2, <2>0 DEF Begin, Goto, IInv, TypeOK, Phase, RowStable, HoldsRow, RowLocked, local, db
  <2>4. KeyStable'
    BY <1>2, <2>0, KeyFrame DEF Begin, Goto, IInv, TypeOK, Phase, local
  <2>5. Once'
    BY <1>2, <2>0, TablesFrame DEF Begin, Goto, IInv, TypeOK, Phase, Once, local
  <2> QED BY <2>1, <2>2, <2>3, <2>4, <2>5 DEF IInv
<1>3. ASSUME FetchIngestTrackId(r) PROVE IInv'
  <2>0. UNCHANGED db
    BY <1>3 DEF FetchIngestTrackId
  <2>6. req[r].ingest \in Ingests /\ ingest[req[r].ingest] \in States \cup {"absent"}
    BY <1>3 DEF FetchIngestTrackId, Goto, IInv, TypeOK, Abs!TypeOK, Phase, Abs!States, States
  <2>1. TypeOK'
    BY <1>3, <2>0, <2>6, TablesFrame DEF FetchIngestTrackId, Goto, IInv, TypeOK, local, PcValues
  <2>2. Phase'
    BY <1>3 DEF FetchIngestTrackId, Goto, IInv, TypeOK, Phase, WritesTrack, local
  <2>3. RowStable'
    BY <1>3, <2>0, <2>6 DEF FetchIngestTrackId, Goto, IInv, TypeOK, Phase, RowStable, HoldsRow, RowLocked, local, db
  <2>4. KeyStable'
    BY <1>3, <2>0, KeyFrame DEF FetchIngestTrackId, Goto, IInv, TypeOK, Phase, local
  <2>5. Once'
    BY <1>3, <2>0, TablesFrame DEF FetchIngestTrackId, Goto, IInv, TypeOK, Phase, Once, local
  <2> QED BY <2>1, <2>2, <2>3, <2>4, <2>5 DEF IInv
<1>4. ASSUME FetchIngest(r) PROVE IInv'
  <2>0. UNCHANGED db
    BY <1>4 DEF FetchIngest
  <2>6. req[r].ingest \in Ingests /\ ingest[req[r].ingest] \in States \cup {"absent"}
    BY <1>4 DEF FetchIngest, Goto, Throw, IInv, TypeOK, Abs!TypeOK, Phase, Abs!States, States
  <2>1. TypeOK'
    BY <1>4, <2>0, <2>6, TablesFrame DEF FetchIngest, Goto, Throw, IInv, TypeOK, local, PcValues
  <2>2. Phase'
    BY <1>4 DEF FetchIngest, Goto, Throw, IInv, TypeOK, Phase, WritesTrack, local
  <2>3. RowStable'
    BY <1>4, <2>0, <2>6 DEF FetchIngest, Goto, Throw, IInv, TypeOK, Phase, RowStable, HoldsRow, RowLocked, local, db
  <2>4. KeyStable'
    BY <1>4, <2>0, KeyFrame DEF FetchIngest, Goto, Throw, IInv, TypeOK, Phase, local
  <2>5. Once'
    BY <1>4, <2>0, TablesFrame DEF FetchIngest, Goto, Throw, IInv, TypeOK, Phase, Once, local
  <2> QED BY <2>1, <2>2, <2>3, <2>4, <2>5 DEF IInv
<1>5. ASSUME CasHit(r) PROVE IInv'
  <2>0. UNCHANGED db
    BY <1>5 DEF CasHit
  <2>1. TypeOK'
    BY <1>5, <2>0, TablesFrame DEF CasHit, Goto, IInv, TypeOK, local, PcValues
  <2>2. Phase'
    BY <1>5 DEF CasHit, Goto, IInv, TypeOK, Phase, WritesTrack, local
  <2>3. RowStable'
    BY <1>5, <2>0 DEF CasHit, Goto, IInv, TypeOK, Phase, RowStable, HoldsRow, RowLocked, local, db
  <2>4. KeyStable'
    BY <1>5, <2>0, KeyFrame DEF CasHit, Goto, IInv, TypeOK, Phase, local
  <2>5. Once'
    BY <1>5, <2>0, TablesFrame DEF CasHit, Goto, IInv, TypeOK, Phase, Once, local
  <2> QED BY <2>1, <2>2, <2>3, <2>4, <2>5 DEF IInv
<1>6. ASSUME CasMiss(r) PROVE IInv'
  <2>0. UNCHANGED db
    BY <1>6 DEF CasMiss
  <2>1. TypeOK'
    BY <1>6, <2>0, TablesFrame DEF CasMiss, Goto, Throw, IInv, TypeOK, local, PcValues
  <2>2. Phase'
    BY <1>6 DEF CasMiss, Goto, Throw, IInv, TypeOK, Phase, WritesTrack, local
  <2>3. RowStable'
    BY <1>6, <2>0 DEF CasMiss, Goto, Throw, IInv, TypeOK, Phase, RowStable, HoldsRow, RowLocked, local, db
  <2>4. KeyStable'
    BY <1>6, <2>0, KeyFrame DEF CasMiss, Goto, Throw, IInv, TypeOK, Phase, local
  <2>5. Once'
    BY <1>6, <2>0, TablesFrame DEF CasMiss, Goto, Throw, IInv, TypeOK, Phase, Once, local
  <2> QED BY <2>1, <2>2, <2>3, <2>4, <2>5 DEF IInv
<1>7. ASSUME InsertReview(r) PROVE IInv'
  <2>0. UNCHANGED db
    BY <1>7 DEF InsertReview
  <2>1. TypeOK'
    BY <1>7, <2>0, TablesFrame DEF InsertReview, Goto, IInv, TypeOK, local, PcValues
  <2>2. Phase'
    BY <1>7 DEF InsertReview, Goto, IInv, TypeOK, Phase, WritesTrack, local
  <2>3. RowStable'
    BY <1>7, <2>0 DEF InsertReview, Goto, IInv, TypeOK, Phase, RowStable, HoldsRow, RowLocked, local, db
  <2>4. KeyStable'
    BY <1>7, <2>0, KeyFrame DEF InsertReview, Goto, IInv, TypeOK, Phase, local
  <2>5. Once'
    BY <1>7, <2>0, TablesFrame DEF InsertReview, Goto, IInv, TypeOK, Phase, Once, local
  <2> QED BY <2>1, <2>2, <2>3, <2>4, <2>5 DEF IInv
<1>8. ASSUME Publish(r) PROVE IInv'
  <2>0. UNCHANGED db
    BY <1>8 DEF Publish
  <2>1. TypeOK'
    BY <1>8, <2>0, TablesFrame DEF Publish, Goto, IInv, TypeOK, local, PcValues
  <2>2. Phase'
    BY <1>8 DEF Publish, Goto, IInv, TypeOK, Phase, WritesTrack, local
  <2>3. RowStable'
    BY <1>8, <2>0 DEF Publish, Goto, IInv, TypeOK, Phase, RowStable, HoldsRow, RowLocked, local, db
  <2>4. KeyStable'
    <3> DEFINE i == req[r].ingest
    <3>1. /\ i \in Ingests /\ req' = req /\ lyrics' = lyrics /\ req[r].action = "approve"
          /\ Abs!Clashing(TrackOf[i], IsrcOf[i])' = {}
          /\ \A o \in Requests \ {r} : tx'[o] = tx[o]
      BY <1>8, <2>0, TablesFrame DEF Publish, Goto, IInv, TypeOK, Phase, local, db
    <3>2. \A o \in Requests \ {r} : Projects(o, "approve")' => ~SameKey(req[o].ingest, i)
      BY <1>8, <3>1 DEF Publish, KeyLocked, Projects, SameKey
    <3>3. \A o \in Requests \ {r} :
             /\ Projects(o, "approve")' <=> Projects(o, "approve")
             /\ Projects(o, "revoke")' <=> Projects(o, "revoke")
             /\ Projects(o, "approve") => req[o].ingest \in Ingests
      BY <3>1 DEF Projects, IInv, Phase, TypeOK
    <3>4. ASSUME NEW o \in Requests \ {r}, Projects(o, "approve")
          PROVE  Abs!Clashing(TrackOf[req[o].ingest], IsrcOf[req[o].ingest])' = {}
      <4>1. Abs!Clashing(TrackOf[req[o].ingest], IsrcOf[req[o].ingest]) = {}
        BY <3>4 DEF IInv, KeyStable
      <4> QED BY <4>1, <2>0, <3>1 DEF Abs!Clashing, Abs!RowIsrc, db
    <3>5. \A o, q \in Requests : Projects(o, "approve")' /\ Projects(q, "approve")' /\ o # q
                                    => ~SameKey(req[o].ingest, req[q].ingest)
      BY <3>2, <3>3 DEF IInv, KeyStable, SameKey
    <3>6. ~Projects(r, "revoke")'
      BY <3>1 DEF Projects
    <3> QED BY <3>1, <3>3, <3>4, <3>5, <3>6 DEF KeyStable, IInv, SameKey
  <2>5. Once'
    BY <1>8, <2>0, TablesFrame DEF Publish, Goto, IInv, TypeOK, Phase, Once, local
  <2> QED BY <2>1, <2>2, <2>3, <2>4, <2>5 DEF IInv
<1>9. ASSUME PublishConflict(r) PROVE IInv'
  <2>0. UNCHANGED db
    BY <1>9 DEF PublishConflict
  <2>1. TypeOK'
    BY <1>9, <2>0, TablesFrame DEF PublishConflict, Goto, Throw, IInv, TypeOK, local, PcValues
  <2>2. Phase'
    BY <1>9 DEF PublishConflict, Goto, Throw, IInv, TypeOK, Phase, WritesTrack, local
  <2>3. RowStable'
    BY <1>9, <2>0 DEF PublishConflict, Goto, Throw, IInv, TypeOK, Phase, RowStable, HoldsRow, RowLocked, local, db
  <2>4. KeyStable'
    BY <1>9, <2>0, KeyFrame DEF PublishConflict, Goto, Throw, IInv, TypeOK, Phase, local
  <2>5. Once'
    BY <1>9, <2>0, TablesFrame DEF PublishConflict, Goto, Throw, IInv, TypeOK, Phase, Once, local
  <2> QED BY <2>1, <2>2, <2>3, <2>4, <2>5 DEF IInv
<1>10. ASSUME Unpublish(r) PROVE IInv'
  <2>0. UNCHANGED db
    BY <1>10 DEF Unpublish
  <2>1. TypeOK'
    BY <1>10, <2>0, TablesFrame DEF Unpublish, Goto, IInv, TypeOK, local, PcValues
  <2>2. Phase'
    BY <1>10 DEF Unpublish, Goto, IInv, TypeOK, Phase, WritesTrack, local
  <2>3. RowStable'
    BY <1>10, <2>0 DEF Unpublish, Goto, IInv, TypeOK, Phase, RowStable, HoldsRow, RowLocked, local, db
  <2>4. KeyStable'
    BY <1>10, <2>0, TablesFrame DEF Unpublish, Goto, IInv, TypeOK, Phase, KeyStable, Projects, KeyLocked, SameKey, local, db
  <2>5. Once'
    BY <1>10, <2>0, TablesFrame DEF Unpublish, Goto, IInv, TypeOK, Phase, Once, local
  <2> QED BY <2>1, <2>2, <2>3, <2>4, <2>5 DEF IInv
<1>11. ASSUME UnpublishRefused(r) PROVE IInv'
  <2>0. UNCHANGED db
    BY <1>11 DEF UnpublishRefused
  <2>1. TypeOK'
    BY <1>11, <2>0, TablesFrame DEF UnpublishRefused, Goto, Throw, IInv, TypeOK, local, PcValues
  <2>2. Phase'
    BY <1>11 DEF UnpublishRefused, Goto, Throw, IInv, TypeOK, Phase, WritesTrack, local
  <2>3. RowStable'
    BY <1>11, <2>0 DEF UnpublishRefused, Goto, Throw, IInv, TypeOK, Phase, RowStable, HoldsRow, RowLocked, local, db
  <2>4. KeyStable'
    BY <1>11, <2>0, KeyFrame DEF UnpublishRefused, Goto, Throw, IInv, TypeOK, Phase, local
  <2>5. Once'
    BY <1>11, <2>0, TablesFrame DEF UnpublishRefused, Goto, Throw, IInv, TypeOK, Phase, Once, local
  <2> QED BY <2>1, <2>2, <2>3, <2>4, <2>5 DEF IInv
<1>12. ASSUME Acknowledged(r) PROVE IInv'
  <2>0. UNCHANGED db
    BY <1>12 DEF Acknowledged
  <2>1. TypeOK'
    <3>1. AuditEvents(r) \in Seq(AuditEvent)
      <4>1. tid[r] \in Tracks \cup {NoTrack}
        BY DEF IInv, TypeOK
      <4>2. CASE tid[r] = NoTrack \/ req[r].action = "resubmit"
        BY <4>2 DEF AuditEvents
      <4>3. CASE ~(tid[r] = NoTrack \/ req[r].action = "resubmit")
        <5>1. [eventType |-> AuditKind(req[r].action), target |-> tid[r], by |-> r] \in AuditEvent
          BY <4>1, <4>3 DEF AuditEvent, AuditKind
        <5> QED BY <4>3, <5>1 DEF AuditEvents
      <4> QED BY <4>2, <4>3
    <3>2. audit' \in Seq(AuditEvent)
      <4>1. audit \in Seq(AuditEvent) /\ audit' \in {audit \o AuditEvents(r), audit}
        BY <1>12 DEF Acknowledged, IInv, TypeOK
      <4>2. audit \o AuditEvents(r) \in Seq(AuditEvent)
        BY <3>1, <4>1, ConcatProperties
      <4> QED BY <4>1, <4>2
    <3> QED BY <1>12, <2>0, <3>2, TablesFrame DEF Acknowledged, Goto, IInv, TypeOK, local, PcValues
  <2>2. Phase'
    BY <1>12 DEF Acknowledged, Goto, IInv, TypeOK, Phase, WritesTrack, local
  <2>3. RowStable'
    BY <1>12, <2>0 DEF Acknowledged, Goto, IInv, TypeOK, Phase, RowStable, HoldsRow, RowLocked, local, db
  <2>4. KeyStable'
    BY <1>12, <2>0, KeyFrame DEF Acknowledged, Goto, IInv, TypeOK, Phase, local
  <2>5. Once'
    BY <1>12, <2>0, TablesFrame DEF Acknowledged, Goto, IInv, TypeOK, Phase, Once, local
  <2> QED BY <2>1, <2>2, <2>3, <2>4, <2>5 DEF IInv
<1>13. ASSUME AckLost(r) PROVE IInv'
  <2>0. UNCHANGED db
    BY <1>13 DEF AckLost
  <2>1. TypeOK'
    BY <1>13, <2>0, TablesFrame DEF AckLost, Goto, Throw, IInv, TypeOK, local, PcValues
  <2>2. Phase'
    BY <1>13 DEF AckLost, Goto, Throw, IInv, TypeOK, Phase, WritesTrack, local
  <2>3. RowStable'
    BY <1>13, <2>0 DEF AckLost, Goto, Throw, IInv, TypeOK, Phase, RowStable, HoldsRow, RowLocked, local, db
  <2>4. KeyStable'
    BY <1>13, <2>0, KeyFrame DEF AckLost, Goto, Throw, IInv, TypeOK, Phase, local
  <2>5. Once'
    BY <1>13, <2>0, TablesFrame DEF AckLost, Goto, Throw, IInv, TypeOK, Phase, Once, local
  <2> QED BY <2>1, <2>2, <2>3, <2>4, <2>5 DEF IInv
<1>14. ASSUME StatementFails(r) PROVE IInv'
  <2>0. UNCHANGED db
    BY <1>14 DEF StatementFails
  <2>1. TypeOK'
    BY <1>14, <2>0, TablesFrame DEF StatementFails, Goto, Throw, IInv, TypeOK, local, PcValues
  <2>2. Phase'
    BY <1>14 DEF StatementFails, Goto, Throw, IInv, TypeOK, Phase, WritesTrack, local
  <2>3. RowStable'
    BY <1>14, <2>0 DEF StatementFails, Goto, Throw, IInv, TypeOK, Phase, RowStable, HoldsRow, RowLocked, local, db
  <2>4. KeyStable'
    BY <1>14, <2>0, KeyFrame DEF StatementFails, Goto, Throw, IInv, TypeOK, Phase, local
  <2>5. Once'
    BY <1>14, <2>0, TablesFrame DEF StatementFails, Goto, Throw, IInv, TypeOK, Phase, Once, local
  <2> QED BY <2>1, <2>2, <2>3, <2>4, <2>5 DEF IInv
<1>15. ASSUME Rollback(r) PROVE IInv'
  <2>0. UNCHANGED db
    BY <1>15 DEF Rollback
  <2>1. TypeOK'
    BY <1>15, <2>0, TablesFrame DEF Rollback, Goto, IInv, TypeOK, local, PcValues
  <2>2. Phase'
    BY <1>15 DEF Rollback, Goto, IInv, TypeOK, Phase, WritesTrack, local
  <2>3. RowStable'
    BY <1>15, <2>0 DEF Rollback, Goto, IInv, TypeOK, Phase, RowStable, HoldsRow, RowLocked, local, db
  <2>4. KeyStable'
    BY <1>15, <2>0, KeyFrame DEF Rollback, Goto, IInv, TypeOK, Phase, local
  <2>5. Once'
    BY <1>15, <2>0, TablesFrame DEF Rollback, Goto, IInv, TypeOK, Phase, Once, local
  <2> QED BY <2>1, <2>2, <2>3, <2>4, <2>5 DEF IInv
<1>16. ASSUME Release(r) PROVE IInv'
  <2>0. UNCHANGED db
    BY <1>16 DEF Release
  <2>1. TypeOK'
    BY <1>16, <2>0, TablesFrame DEF Release, Goto, IInv, TypeOK, local, PcValues
  <2>2. Phase'
    BY <1>16 DEF Release, Goto, IInv, TypeOK, Phase, WritesTrack, local
  <2>3. RowStable'
    BY <1>16, <2>0 DEF Release, Goto, IInv, TypeOK, Phase, RowStable, HoldsRow, RowLocked, local, db
  <2>4. KeyStable'
    BY <1>16, <2>0, KeyFrame DEF Release, Goto, IInv, TypeOK, Phase, local
  <2>5. Once'
    BY <1>16, <2>0, TablesFrame DEF Release, Goto, IInv, TypeOK, Phase, Once, local
  <2> QED BY <2>1, <2>2, <2>3, <2>4, <2>5 DEF IInv
<1>17. ASSUME Requery(r) PROVE IInv'
  <2>0. UNCHANGED db
    BY <1>17 DEF Requery
  <2>6. req[r].ingest \in Ingests /\ ingest[req[r].ingest] \in States \cup {"absent"}
    BY <1>17 DEF Requery, Goto, IInv, TypeOK, Abs!TypeOK, Phase, Abs!States, States
  <2>1. TypeOK'
    BY <1>17, <2>0, <2>6, TablesFrame DEF Requery, Goto, IInv, TypeOK, local, PcValues
  <2>2. Phase'
    BY <1>17 DEF Requery, Goto, IInv, TypeOK, Phase, WritesTrack, local
  <2>3. RowStable'
    BY <1>17, <2>0, <2>6 DEF Requery, Goto, IInv, TypeOK, Phase, RowStable, HoldsRow, RowLocked, local, db
  <2>4. KeyStable'
    BY <1>17, <2>0, KeyFrame DEF Requery, Goto, IInv, TypeOK, Phase, local
  <2>5. Once'
    BY <1>17, <2>0, TablesFrame DEF Requery, Goto, IInv, TypeOK, Phase, Once, local
  <2> QED BY <2>1, <2>2, <2>3, <2>4, <2>5 DEF IInv
<1>18. ASSUME ConnectFails(r) PROVE IInv'
  <2>0. UNCHANGED db
    BY <1>18 DEF ConnectFails
  <2>1. TypeOK'
    BY <1>18, <2>0, TablesFrame DEF ConnectFails, Goto, IInv, TypeOK, local, PcValues
  <2>2. Phase'
    BY <1>18 DEF ConnectFails, Goto, IInv, TypeOK, Phase, WritesTrack, local
  <2>3. RowStable'
    BY <1>18, <2>0 DEF ConnectFails, Goto, IInv, TypeOK, Phase, RowStable, HoldsRow, RowLocked, local, db
  <2>4. KeyStable'
    BY <1>18, <2>0, KeyFrame DEF ConnectFails, Goto, IInv, TypeOK, Phase, local
  <2>5. Once'
    BY <1>18, <2>0, TablesFrame DEF ConnectFails, Goto, IInv, TypeOK, Phase, Once, local
  <2> QED BY <2>1, <2>2, <2>3, <2>4, <2>5 DEF IInv
<1>19. ASSUME LoadDetail(r) PROVE IInv'
  <2>0. UNCHANGED db
    BY <1>19 DEF LoadDetail
  <2>1. TypeOK'
    BY <1>19, <2>0, TablesFrame DEF LoadDetail, Goto, IInv, TypeOK, local, PcValues
  <2>2. Phase'
    BY <1>19 DEF LoadDetail, Goto, IInv, TypeOK, Phase, WritesTrack, local
  <2>3. RowStable'
    BY <1>19, <2>0 DEF LoadDetail, Goto, IInv, TypeOK, Phase, RowStable, HoldsRow, RowLocked, local, db
  <2>4. KeyStable'
    BY <1>19, <2>0, KeyFrame DEF LoadDetail, Goto, IInv, TypeOK, Phase, local
  <2>5. Once'
    BY <1>19, <2>0, TablesFrame DEF LoadDetail, Goto, IInv, TypeOK, Phase, Once, local
  <2> QED BY <2>1, <2>2, <2>3, <2>4, <2>5 DEF IInv
<1> QED BY <1>1, <1>2, <1>3, <1>4, <1>5, <1>6, <1>7, <1>8, <1>9, <1>10, <1>11, <1>12, <1>13, <1>14, <1>15, <1>16, <1>17, <1>18, <1>19 DEF Step, Fault

LEMMA AcceptStep ==
    ASSUME IInv, NEW r \in Requests, NEW i \in Ingests, NEW a \in RouteActions, Accept(r, i, a)
    PROVE  IInv'
<1> USE TxConstants, ReviewConstants
<1>0. UNCHANGED db /\ tx' = tx /\ tx[r] = "none" /\ \A o \in Requests \ {r} : req'[o] = req[o]
  BY DEF Accept, Goto, IInv, TypeOK, Phase
<1>1. TypeOK'
  BY <1>0, TablesFrame DEF Accept, Goto, IInv, TypeOK, PcValues
<1>2. Phase'
  BY DEF Accept, Goto, IInv, TypeOK, Phase, WritesTrack
<1>3. RowStable'
  <2>1. \A o \in Requests : HoldsRow(o)' = HoldsRow(o) /\ (HoldsRow(o) => o # r)
    BY <1>0 DEF HoldsRow
  <2>2. \A o \in Requests \ {r} : RowLocked(o)' => RowLocked(o)
    BY <1>0, <2>1 DEF RowLocked
  <2> QED BY <1>0, <2>1, <2>2 DEF Accept, Goto, IInv, TypeOK, RowStable, db
<1>4. KeyStable'
  BY <1>0, KeyFrame DEF IInv, TypeOK, Phase
<1>5. Once'
  BY <1>0, TablesFrame DEF Accept, Goto, IInv, TypeOK, Once
<1> QED BY <1>1, <1>2, <1>3, <1>4, <1>5 DEF IInv

LEMMA CrashStep ==
    ASSUME IInv, Crash
    PROVE  IInv'
<1> USE TxConstants, ReviewConstants
<1>0. UNCHANGED db /\ \A r \in Requests : tx'[r] = "none"
  BY DEF Crash
<1>1. TypeOK'
  BY <1>0, TablesFrame DEF Crash, IInv, TypeOK, PcValues, local
<1>2. Phase'
  BY DEF Crash, Running, IInv, TypeOK, Phase, local
<1>3. RowStable'
  BY <1>0 DEF Crash, Running, IInv, TypeOK, RowStable, HoldsRow
<1>4. KeyStable'
  BY <1>0 DEF KeyStable, Projects
<1>5. Once'
  BY <1>0, TablesFrame DEF Crash, Running, IInv, TypeOK, Once
<1> QED BY <1>1, <1>2, <1>3, <1>4, <1>5 DEF IInv

(* COMMIT is where a decision takes effect: nothing the transaction relied *)
(* on has changed since it was read.                                       *)
LEMMA CommitFacts ==
    ASSUME IInv, NEW r \in Requests, Commit(r), NEW i, i = req[r].ingest,
           NEW a, a = req[r].action
    PROVE  /\ i \in Ingests /\ a \in Actions
           /\ ingest[i] \in States /\ a \in Allowed[ingest[i]]
           /\ ~RowLocked(r) /\ r \notin Abs!Deciders
           /\ a = "approve" => Projects(r, "approve")
           /\ a = "revoke" => Projects(r, "revoke")
<1>1. pc[r] = "commit" /\ HoldsRow(r)
  BY DEF Commit, Goto, IInv, Phase, HoldsRow
<1>2. i \in Ingests /\ a \in Actions
  BY <1>1, TxConstants DEF IInv, Phase
<1>3. /\ ingest[i] \in States /\ a \in Allowed[ingest[i]] /\ ~RowLocked(r)
  BY <1>1 DEF IInv, RowStable
<1>4. r \notin Abs!Deciders
  BY <1>1 DEF IInv, Once
<1>5. /\ a = "approve" => Projects(r, "approve")
      /\ a = "revoke" => Projects(r, "revoke")
  BY <1>1 DEF IInv, Phase, WritesTrack, Projects
<1> QED BY <1>2, <1>3, <1>4, <1>5

LEMMA CommitRefines ==
    ASSUME IInv, NEW r \in Requests, Commit(r)
    PROVE  Abs!Next
<1> DEFINE i == req[r].ingest
           a == req[r].action
<1>1. /\ i \in Ingests /\ a \in Actions
      /\ ingest[i] \in States /\ a \in Allowed[ingest[i]]
      /\ r \notin Abs!Deciders
      /\ a = "approve" => Projects(r, "approve")
      /\ a = "revoke" => Projects(r, "revoke")
  BY CommitFacts
<1>2. Abs!Decide(r, i, a)
  BY <1>1 DEF Commit, Abs!Decide, States, Abs!Allowed, Allowed, Abs!States,
              Abs!NextState, NextState, Abs!Actions, Actions
<1>3. CASE a = "approve"
  <2>1. Abs!Clashing(TrackOf[i], IsrcOf[i]) = {}
    BY <1>1, <1>3 DEF IInv, KeyStable
  <2>2. tracks' = [tracks EXCEPT ![TrackOf[i]] = i]
    BY <1>3 DEF Commit
  <2>3. Abs!Approve(r, i)
    BY <1>2, <1>3, <2>1, <2>2 DEF Abs!Approve
  <2> QED BY <1>1, <2>3 DEF Abs!Next
<1>4. CASE a = "revoke"
  <2>1. TrackOf[i] \notin lyrics
    BY <1>1, <1>4 DEF IInv, KeyStable
  <2>2. tracks' = [tracks EXCEPT ![TrackOf[i]] = Nobody]
    BY <1>4 DEF Commit
  <2>3. Abs!Revoke(r, i)
    BY <1>2, <1>4, <2>1, <2>2 DEF Abs!Revoke
  <2> QED BY <1>1, <2>3 DEF Abs!Next
<1>5. CASE a \in {"reject", "resubmit"}
  <2>1. tracks' = tracks
    BY <1>5 DEF Commit
  <2>2. Abs!Reject(r, i) \/ Abs!Resubmit(r, i)
    BY <1>2, <1>5, <2>1 DEF Abs!Reject, Abs!Resubmit
  <2> QED BY <1>1, <2>2 DEF Abs!Next
<1> QED BY <1>1, <1>3, <1>4, <1>5 DEF Actions

(* The request that commits becomes a decider, and no other does.          *)
LEMMA CommitDeciders ==
    ASSUME IInv, NEW r \in Requests, Commit(r)
    PROVE  /\ review' \in [Ingests -> Seq(Abs!ReviewRow)]
           /\ Abs!Deciders' = Abs!Deciders \cup {r}
<1> DEFINE i == req[r].ingest
           row == [action |-> req[r].action, by |-> r]
<1>1. /\ i \in Ingests /\ row \in Abs!ReviewRow
      /\ review \in [Ingests -> Seq(Abs!ReviewRow)]
  BY CommitFacts DEF IInv, TypeOK, Abs!TypeOK, Abs!ReviewRow, Abs!Actions, Actions
<1>2. /\ review[i] \in Seq(Abs!ReviewRow)
      /\ review' = [review EXCEPT ![i] = Append(review[i], row)]
  BY <1>1 DEF Commit
<1>3. /\ review' \in [Ingests -> Seq(Abs!ReviewRow)]
      /\ \A j \in Ingests \ {i} : review'[j] = review[j]
      /\ review'[i] = Append(review[i], row)
  BY <1>1, <1>2
<1>4. /\ Len(review[i]) \in Nat
      /\ DOMAIN review[i] = 1 .. Len(review[i])
      /\ DOMAIN review'[i] = 1 .. (Len(review[i]) + 1)
      /\ \A n \in 1 .. Len(review[i]) : review'[i][n] = review[i][n]
      /\ review'[i][Len(review[i]) + 1] = row
  BY <1>1, <1>2, <1>3
<1>5. ASSUME NEW o \in Requests
      PROVE  o \in Abs!Deciders' <=> o \in Abs!Deciders \/ o = r
  <2>1. ASSUME o \in Abs!Deciders
        PROVE  o \in Abs!Deciders'
    <3>1. PICK j \in Ingests : \E n \in DOMAIN review[j] : review[j][n].by = o
      BY <2>1 DEF Abs!Deciders
    <3>2. PICK n \in DOMAIN review[j] : review[j][n].by = o
      BY <3>1
    <3>3. n \in DOMAIN review'[j] /\ review'[j][n].by = o
      <4>1. CASE j = i
        <5>1. n \in 1 .. Len(review[i]) /\ n \in 1 .. (Len(review[i]) + 1)
          BY <3>2, <4>1, <1>4
        <5> QED BY <3>2, <4>1, <5>1, <1>4
      <4>2. CASE j # i
        BY <3>2, <4>2, <1>3
      <4> QED BY <4>1, <4>2
    <3> QED BY <3>3 DEF Abs!Deciders
  <2>2. r \in Abs!Deciders'
    <3>1. Len(review[i]) + 1 \in DOMAIN review'[i]
      BY <1>4
    <3> QED BY <3>1, <1>1, <1>4 DEF Abs!Deciders
  <2>3. ASSUME o \in Abs!Deciders', o # r
        PROVE  o \in Abs!Deciders
    <3>1. PICK j \in Ingests : \E n \in DOMAIN review'[j] : review'[j][n].by = o
      BY <2>3 DEF Abs!Deciders
    <3>2. PICK n \in DOMAIN review'[j] : review'[j][n].by = o
      BY <3>1
    <3>3. n \in DOMAIN review[j] /\ review[j][n].by = o
      <4>1. CASE j = i
        <5>1. n \in 1 .. (Len(review[i]) + 1) /\ n # Len(review[i]) + 1
          BY <2>3, <3>2, <4>1, <1>4
        <5>2. n \in 1 .. Len(review[i])
          BY <5>1, <1>4
        <5> QED BY <3>2, <4>1, <5>2, <1>4
      <4>2. CASE j # i
        BY <3>2, <4>2, <1>3
      <4> QED BY <4>1, <4>2
    <3> QED BY <3>3 DEF Abs!Deciders
  <2> QED BY <2>1, <2>2, <2>3
<1> QED BY <1>3, <1>5 DEF Abs!Deciders

LEMMA CommitStep ==
    ASSUME IInv, NEW r \in Requests, Commit(r)
    PROVE  IInv'
<1> USE TxConstants, ReviewConstants
<1> DEFINE i == req[r].ingest
           a == req[r].action
<1>1. /\ i \in Ingests /\ a \in Actions /\ TrackOf[i] \in Tracks
      /\ ~RowLocked(r)
      /\ a = "approve" => Projects(r, "approve")
  BY CommitFacts
<1>2. /\ pc' = [pc EXCEPT ![r] = "ack"] /\ tx' = [tx EXCEPT ![r] = "none"]
      /\ UNCHANGED <<lyrics, local, idle, result, told, audit>>
      /\ ingest' = [ingest EXCEPT ![i] = NextState[a]]
      /\ pc[r] = "commit"
  BY DEF Commit, Goto
<1>3. /\ ingest' \in [Ingests -> States \cup {"absent"}]
      /\ \A j \in Ingests \ {i} : ingest'[j] = ingest[j]
  BY <1>1, <1>2 DEF IInv, TypeOK, Abs!TypeOK, Abs!States, States, NextState, Actions
<1>4. /\ tracks' \in [Tracks -> Ingests \cup {Seeded, Nobody}]
      /\ \A u \in Tracks : tracks'[u] = tracks[u] \/ tracks'[u] = Nobody
                             \/ (a = "approve" /\ u = TrackOf[i] /\ tracks'[u] = i)
  BY <1>1 DEF Commit, IInv, TypeOK, Abs!TypeOK
<1>5. TypeOK'
  BY <1>2, <1>3, <1>4, CommitDeciders
     DEF IInv, TypeOK, Abs!TypeOK, Abs!States, States, local, PcValues
<1>6. Phase'
  BY <1>2 DEF IInv, TypeOK, Phase, WritesTrack, local
<1>7. RowStable'
  <2>1. \A o \in Requests : HoldsRow(o)' => HoldsRow(o) /\ o # r
    BY <1>2 DEF HoldsRow, IInv, TypeOK
  <2>2. \A o \in Requests : RowLocked(o)' => RowLocked(o)
    BY <1>2, <2>1 DEF RowLocked, local
  <2>3. \A o \in Requests : HoldsRow(o)' => req[o].ingest # i /\ req[o].ingest \in Ingests
    BY <1>1, <2>1 DEF RowLocked, IInv, Phase, TypeOK, HoldsRow
  <2> QED BY <1>2, <1>3, <2>1, <2>2, <2>3 DEF IInv, TypeOK, RowStable, local
<1>8. KeyStable'
  <2>1. \A o \in Requests, b \in {"approve", "revoke"} : Projects(o, b)' =>
           Projects(o, b) /\ o # r /\ req'[o] = req[o] /\ req[o].ingest \in Ingests
    BY <1>2 DEF Projects, IInv, TypeOK, Phase, local
  <2>2. ASSUME NEW o \in Requests, Projects(o, "approve")'
        PROVE  Abs!Clashing(TrackOf[req[o].ingest], IsrcOf[req[o].ingest])' = {}
    <3> DEFINE j == req[o].ingest
    <3>1. /\ Abs!Clashing(TrackOf[j], IsrcOf[j]) = {} /\ j \in Ingests
          /\ a = "approve" => ~SameKey(i, j)
      BY <1>1, <2>1, <2>2 DEF IInv, KeyStable
    <3>2. ASSUME NEW u \in Tracks, tracks'[u] # Nobody,
                 u = TrackOf[j] \/ (IsrcOf[j] # NoIsrc /\ Abs!RowIsrc(u)' = IsrcOf[j])
          PROVE  FALSE
      <4>1. CASE tracks'[u] = tracks[u]
        BY <3>1, <3>2, <4>1 DEF Abs!Clashing, Abs!RowIsrc
      <4>2. CASE a = "approve" /\ u = TrackOf[i] /\ tracks'[u] = i
        <5>1. Abs!RowIsrc(u)' = IsrcOf[i]
          BY <1>1, <4>2 DEF Abs!RowIsrc
        <5> QED BY <3>1, <3>2, <4>2, <5>1 DEF SameKey
      <4> QED BY <1>4, <3>2, <4>1, <4>2
    <3>3. Abs!Clashing(TrackOf[j], IsrcOf[j])' = {}
      BY <3>2, <2>1, <2>2 DEF Abs!Clashing
    <3> QED BY <3>3
  <2>3. \A o, q \in Requests : Projects(o, "approve")' /\ Projects(q, "approve")' /\ o # q
                                => ~SameKey(req[o].ingest, req[q].ingest)'
    BY <2>1 DEF IInv, KeyStable, SameKey
  <2>4. \A o \in Requests : Projects(o, "revoke")' => (TrackOf[req[o].ingest] \notin lyrics)'
    BY <2>1, <1>2 DEF IInv, KeyStable
  <2> QED BY <2>2, <2>3, <2>4 DEF KeyStable
<1>9. Once'
  BY <1>2, CommitDeciders DEF IInv, TypeOK, Once
<1> QED BY <1>5, <1>6, <1>7, <1>8, <1>9 DEF IInv

(* The other writers: a new ingest, the seed script.                       *)
LEMMA EnvironmentStep ==
    ASSUME IInv, Environment
    PROVE  IInv'
<1> USE TxConstants, ReviewConstants
<1>1. ASSUME NEW i \in Ingests, IngestCreate(i)
      PROVE  IInv'
  <2>0. /\ UNCHANGED <<pc, local, tx, idle, result, told, audit, review, tracks, lyrics>>
        /\ ingest' = [ingest EXCEPT ![i] = "pending"] /\ ingest[i] = "absent"
    BY <1>1 DEF IngestCreate, Abs!IngestCreate
  <2>1. TypeOK'
    BY <2>0 DEF IInv, TypeOK, Abs!TypeOK, Abs!States, local
  <2>2. Phase'
    BY <2>0 DEF IInv, Phase, WritesTrack, local
  <2>3. RowStable'
    <3>1. \A r \in Requests : HoldsRow(r) => /\ req[r].ingest \in Ingests
                                             /\ ingest[req[r].ingest] # "absent"
      BY DEF IInv, TypeOK, Phase, RowStable, HoldsRow, States
    <3> QED BY <2>0, <3>1 DEF IInv, TypeOK, Abs!TypeOK, RowStable, HoldsRow, RowLocked, local
  <2>4. KeyStable'
    BY <2>0 DEF IInv, KeyStable, Projects, SameKey, Abs!Clashing, Abs!RowIsrc, local
  <2>5. Once'
    BY <2>0 DEF IInv, Once, Abs!Deciders
  <2> QED BY <2>1, <2>2, <2>3, <2>4, <2>5 DEF IInv
<1>2. ASSUME NEW t \in SeedTracks, SeedTrack(t)
      PROVE  IInv'
  <2>0. /\ UNCHANGED <<pc, local, tx, idle, result, told, audit, ingest, review, lyrics>>
        /\ tracks' = [tracks EXCEPT ![t] = Seeded]
        /\ t \in Tracks /\ ~KeyLocked(t, IsrcOf[t])
    BY <1>2 DEF SeedTrack, Abs!SeedTrack
  <2>1. TypeOK'
    BY <2>0 DEF IInv, TypeOK, Abs!TypeOK, local
  <2>2. Phase' /\ RowStable' /\ Once'
    BY <2>0 DEF IInv, Phase, WritesTrack, RowStable, HoldsRow, RowLocked, Once,
                Abs!Deciders, local
  <2>3. KeyStable'
    <3>1. ASSUME NEW r \in Requests, Projects(r, "approve")
          PROVE  Abs!Clashing(TrackOf[req[r].ingest], IsrcOf[req[r].ingest])' = {}
      <4> DEFINE j == req[r].ingest
      <4>1. /\ Abs!Clashing(TrackOf[j], IsrcOf[j]) = {}
            /\ TrackOf[j] # t /\ ~(IsrcOf[j] # NoIsrc /\ IsrcOf[t] = IsrcOf[j])
        BY <2>0, <3>1 DEF IInv, KeyStable, KeyLocked
      <4>2. /\ \A u \in Tracks \ {t} : tracks'[u] = tracks[u]
            /\ tracks'[t] = Seeded
        BY <2>0 DEF IInv, TypeOK, Abs!TypeOK
      <4>3. \A u \in Tracks : Abs!RowIsrc(u)' = IF u = t THEN IsrcOf[t] ELSE Abs!RowIsrc(u)
        BY <4>2 DEF Abs!RowIsrc
      <4> QED BY <2>0, <4>1, <4>2, <4>3 DEF Abs!Clashing, local
    <3> QED BY <2>0, <3>1 DEF IInv, KeyStable, Projects, SameKey, local
  <2> QED BY <2>1, <2>2, <2>3 DEF IInv
<1>3. ASSUME NEW t \in SeedTracks, SeedLyrics(t)
      PROVE  IInv'
  <2>0. /\ UNCHANGED <<pc, local, tx, idle, result, told, audit, ingest, review, tracks>>
        /\ lyrics' = lyrics \cup {t} /\ t \in Tracks /\ ~BeingDeleted(t)
    BY <1>3 DEF SeedLyrics, Abs!SeedLyrics
  <2>1. TypeOK'
    BY <2>0 DEF IInv, TypeOK, Abs!TypeOK, local
  <2>2. Phase' /\ RowStable' /\ Once'
    BY <2>0 DEF IInv, Phase, WritesTrack, RowStable, HoldsRow, RowLocked, Once,
                Abs!Deciders, local
  <2>3. KeyStable'
    BY <2>0 DEF IInv, KeyStable, Projects, SameKey, BeingDeleted, Abs!Clashing,
                Abs!RowIsrc, local
  <2> QED BY <2>1, <2>2, <2>3 DEF IInv
<1> QED BY <1>1, <1>2, <1>3 DEF Environment

-----------------------------------------------------------------------------
LEMMA InitIInv == Init => IInv
BY TxConstants, ReviewConstants
   DEF Init, Abs!Init, IInv, TypeOK, Abs!TypeOK, PcValues, Phase, RowStable, HoldsRow,
       KeyStable, Projects, Once, Abs!Deciders

LEMMA NextIInv == IInv /\ [Next]_vars => IInv'
<1> SUFFICES ASSUME IInv, [Next]_vars
             PROVE  IInv'
  OBVIOUS
<1>1. CASE \E r \in Requests, i \in Ingests, a \in RouteActions : Accept(r, i, a)
  BY <1>1, AcceptStep
<1>2. CASE \E r \in Requests : Step(r) \/ Fault(r)
  BY <1>2, QuietStep, CommitStep
<1>3. CASE Crash
  BY <1>3, CrashStep
<1>4. CASE Environment
  BY <1>4, EnvironmentStep
<1>5. CASE UNCHANGED vars
  <2>1. UNCHANGED db
    BY <1>5 DEF vars, db
  <2>2. TypeOK' /\ Once'
    BY <1>5, <2>1, TablesFrame DEF vars, IInv, TypeOK, Once
  <2>3. Phase' /\ RowStable'
    BY <1>5 DEF vars, IInv, Phase, WritesTrack, RowStable, HoldsRow, RowLocked
  <2>4. KeyStable'
    BY <1>5, <2>1 DEF vars, IInv, KeyStable, Projects, SameKey, Abs!Clashing, Abs!RowIsrc
  <2> QED BY <2>2, <2>3, <2>4 DEF IInv
<1> QED BY <1>1, <1>2, <1>3, <1>4, <1>5 DEF Next

(* The types, for every size of the instance.                              *)
THEOREM TxTypeCorrect == Spec => []TypeOK
<1>1. IInv => TypeOK
  BY DEF IInv
<1> QED BY <1>1, InitIInv, NextIInv, PTL DEF Spec

(* Every step of the statement-level system is one atomic step of the      *)
(* abstract one, or leaves the tables alone.                               *)
LEMMA NextRefines == IInv /\ [Next]_vars => [Abs!Next]_(Abs!absVars)
<1> SUFFICES ASSUME IInv, [Next]_vars
             PROVE  Abs!Next \/ UNCHANGED db
  BY DEF db, Abs!absVars
<1>1. CASE \E r \in Requests, i \in Ingests, a \in RouteActions : Accept(r, i, a)
  BY <1>1 DEF Accept
<1>2. ASSUME NEW r \in Requests, Step(r) \/ Fault(r)
      PROVE  Abs!Next \/ UNCHANGED db
  <2>1. CASE Commit(r)
    BY <2>1, CommitRefines
  <2>2. CASE ~Commit(r)
    BY <1>2, <2>2 DEF Step, Fault, Connect, Begin, FetchIngestTrackId, FetchIngest,
       CasHit, CasMiss, InsertReview, Publish, PublishConflict, Unpublish,
       UnpublishRefused, Acknowledged, Rollback, Release, Requery, LoadDetail, AckLost,
       StatementFails, ConnectFails
  <2> QED BY <2>1, <2>2
<1>3. CASE Crash
  BY <1>3 DEF Crash
<1>4. CASE Environment
  BY <1>4 DEF Environment, IngestCreate, SeedTrack, SeedLyrics, Abs!Next
<1>5. CASE UNCHANGED vars
  BY <1>5 DEF vars, db
<1> QED BY <1>1, <1>2, <1>3, <1>4, <1>5 DEF Next

(* Decisions are atomic: the transactions, with their interleavings,       *)
(* failures, lost acknowledgements and crashes, implement ReviewSpec.      *)
THEOREM TxAtomic == Spec => Atomic
<1>1. Init => Abs!Init
  BY DEF Init
<1> QED BY <1>1, InitIInv, NextIInv, NextRefines, PTL DEF Spec, Atomic, Abs!Spec

(* Whatever transactions race and fail, readers find a catalogue whose     *)
(* tracks are listed and taken down one at a time, never under their       *)
(* lyrics: what ContentRoute takes for granted of its tables.              *)
THEOREM TxCatalogue == Spec => Catalog!Spec
BY TxAtomic, AbsCatalogue, PTL DEF Atomic

(* What the abstract system promises therefore holds of the tables.        *)
LEMMA TxSafety ==
    Spec => [](Projection /\ HistoryExplainsState /\ OneApprovedPerKey /\ LyricsHaveTrack)
BY TxAtomic, AbsSafety, PTL DEF Atomic, Projection, HistoryExplainsState,
   OneApprovedPerKey, LyricsHaveTrack

(* The catalogue shows exactly the approved ingests, whatever races and    *)
(* faults there are between the statements of decisions.                   *)
THEOREM TxProjection == Spec => []Projection
BY TxSafety, PTL

(* No decision is lost, doubled or taken from a state that forbids it.     *)
THEOREM TxHistory == Spec => []HistoryExplainsState
BY TxSafety, PTL

(* Ingests with one track_id or one isrc are never approved together.      *)
THEOREM TxOneApproved == Spec => []OneApprovedPerKey
BY TxSafety, PTL

(* No lyrics row outlives its track.                                       *)
THEOREM TxLyrics == Spec => []LyricsHaveTrack
BY TxSafety, PTL

(* An "ok" is never answered for a decision that is not in the history,    *)
(* nor a 404 or a 409 for one that is.                                     *)
THEOREM TxAnswers == Spec => []AnswerMatchesTables
<1>1. IInv => AnswerMatchesTables
  BY DEF IInv, Once, AnswerMatchesTables
<1> QED BY <1>1, InitIInv, NextIInv, PTL DEF Spec

-----------------------------------------------------------------------------
(* The audit trail.                                                        *)

(* Which rows of the history a handler past its COMMIT can vouch for.      *)
Vouched ==
    \A r \in Requests :
       /\ pc[r] = "new" => tid[r] = NoTrack
       /\ tid[r] \in {NoTrack, TrackOf[req[r].ingest]}
       /\ pc[r] = "ack" =>
             \E m \in DOMAIN review[req[r].ingest] :
                review[req[r].ingest][m] = [action |-> req[r].action, by |-> r]

AuditedDone == \A n \in DOMAIN audit : pc[audit[n].by] \in {"detail", "done"}

(* History is append-only. *)
LEMMA HistoryGrows ==
    ASSUME IInv, [Next]_vars, NEW i \in Ingests, NEW n \in DOMAIN review[i]
    PROVE  n \in DOMAIN review'[i] /\ review'[i][n] = review[i][n]
<1>1. ASSUME NEW r \in Requests, Commit(r)
      PROVE  n \in DOMAIN review'[i] /\ review'[i][n] = review[i][n]
  <2> DEFINE row == [action |-> req[r].action, by |-> r]
  <2>1. /\ review' = [review EXCEPT ![req[r].ingest] = Append(@, row)]
        /\ review[i] \in Seq(Abs!ReviewRow) /\ review \in [Ingests -> Seq(Abs!ReviewRow)]
        /\ row \in Abs!ReviewRow
    BY <1>1, CommitFacts DEF Commit, IInv, TypeOK, Abs!TypeOK, Abs!ReviewRow,
                             Abs!Actions, Actions
  <2>2. CASE i # req[r].ingest
    BY <2>1, <2>2
  <2>3. CASE i = req[r].ingest
    <3>1. review'[i] = Append(review[i], row)
      BY <2>1, <2>3
    <3>2. n \in 1 .. Len(review[i]) /\ Len(review[i]) \in Nat
      BY <2>1
    <3> QED BY <2>1, <3>1, <3>2
  <2> QED BY <2>2, <2>3
<1>2. CASE \A r \in Requests : ~Commit(r)
  <2>1. review' = review
    BY <1>2 DEF Next, vars, Accept, Step, Fault, Connect, Begin, FetchIngestTrackId,
       FetchIngest, CasHit, CasMiss, InsertReview, Publish, PublishConflict, Unpublish,
       UnpublishRefused, Acknowledged, Rollback, Release, Requery, LoadDetail, AckLost,
       StatementFails, ConnectFails, Crash, Environment, IngestCreate, SeedTrack,
       SeedLyrics, Abs!IngestCreate, Abs!SeedTrack, Abs!SeedLyrics, db
  <2> QED BY <2>1
<1> QED BY <1>1, <1>2

LEMMA VouchedStep ==
    ASSUME IInv, Vouched, [Next]_vars
    PROVE  Vouched'
<1> USE TxConstants, ReviewConstants
<1>1. ASSUME NEW r \in Requests, NEW i \in Ingests, NEW a \in RouteActions, Accept(r, i, a)
      PROVE  Vouched'
  BY <1>1 DEF Accept, Goto, Vouched, IInv, TypeOK, db
<1>2. ASSUME NEW r \in Requests, Commit(r)
      PROVE  Vouched'
  <2> DEFINE i == req[r].ingest
             row == [action |-> req[r].action, by |-> r]
  <2>1. /\ i \in Ingests /\ row \in Abs!ReviewRow
        /\ review[i] \in Seq(Abs!ReviewRow)
        /\ review'[i] = Append(review[i], row)
    BY <1>2, CommitFacts DEF Commit, IInv, TypeOK, Abs!TypeOK, Abs!ReviewRow,
                             Abs!Actions, Actions
  <2>2. Len(review[i]) + 1 \in DOMAIN review'[i] /\ review'[i][Len(review[i]) + 1] = row
    BY <2>1
  <2>3. ASSUME NEW o \in Requests, o # r, pc[o] = "ack"
        PROVE  \E m \in DOMAIN review'[req[o].ingest] :
                  review'[req[o].ingest][m] = [action |-> req[o].action, by |-> o]
    <3>1. PICK m \in DOMAIN review[req[o].ingest] :
             review[req[o].ingest][m] = [action |-> req[o].action, by |-> o]
      BY <2>3 DEF Vouched
    <3>2. req[o].ingest \in Ingests
      BY <2>3 DEF IInv, Phase
    <3>3. [Next]_vars
      OBVIOUS
    <3> QED BY <3>1, <3>2, <3>3, HistoryGrows
  <2>4. pc' = [pc EXCEPT ![r] = "ack"] /\ UNCHANGED local /\ pc \in [Requests -> PcValues]
    BY <1>2 DEF Commit, Goto, IInv, TypeOK
  <2> QED BY <2>2, <2>3, <2>4 DEF Vouched, local
<1>3. ASSUME NEW r \in Requests, FetchIngestTrackId(r)
      PROVE  Vouched'
  BY <1>3 DEF FetchIngestTrackId, Goto, Vouched, IInv, TypeOK, db
<1>4. ASSUME NEW r \in Requests, Step(r) \/ Fault(r), ~Commit(r), ~FetchIngestTrackId(r)
      PROVE  Vouched'
  <2>1. /\ UNCHANGED <<db, req, tid>>
        /\ \A o \in Requests : pc'[o] = "ack" => pc[o] = "ack"
        /\ \A o \in Requests : pc'[o] = "new" => pc[o] = "new"
    BY <1>4 DEF Step, Fault, Connect, Begin, FetchIngest, CasHit, CasMiss, InsertReview,
       Publish, PublishConflict, Unpublish, UnpublishRefused, Acknowledged, Rollback,
       Release, Requery, LoadDetail, AckLost, StatementFails, ConnectFails, Goto, Throw, local,
       IInv, TypeOK
  <2> QED BY <2>1 DEF Vouched, db
<1>5. CASE Crash
  BY <1>5 DEF Crash, Running, Vouched, IInv, TypeOK, db, local
<1>6. CASE Environment \/ UNCHANGED vars
  BY <1>6 DEF Environment, IngestCreate, SeedTrack, SeedLyrics, Abs!IngestCreate,
     Abs!SeedTrack, Abs!SeedLyrics, Vouched, vars, local
<1> QED BY <1>1, <1>2, <1>3, <1>4, <1>5, <1>6 DEF Next

LEMMA AuditStep ==
    ASSUME IInv, Vouched, AuditedDone, AuditOnlyCommitted, [Next]_vars
    PROVE  AuditedDone' /\ AuditOnlyCommitted'
<1>0. /\ audit \in Seq(AuditEvent) /\ pc \in [Requests -> PcValues]
      /\ \A n \in DOMAIN audit : audit[n].by \in Requests
  <2>1. audit \in Seq(AuditEvent) /\ pc \in [Requests -> PcValues]
    BY DEF IInv, TypeOK
  <2>2. \A n \in DOMAIN audit : audit[n] \in AuditEvent
    BY <2>1
  <2> QED BY <2>1, <2>2 DEF AuditEvent
<1>1. ASSUME NEW e, NEW i \in Ingests, NEW m \in DOMAIN review[i],
             AuditedDecision(e, i, review[i][m])
      PROVE  \E j \in Ingests : \E k \in DOMAIN review'[j] :
                AuditedDecision(e, j, review'[j][k])
  BY <1>1, HistoryGrows
<1>2. ASSUME audit' = audit
      PROVE  AuditOnlyCommitted'
  <2>1. ASSUME NEW n \in DOMAIN audit
        PROVE  \E j \in Ingests : \E k \in DOMAIN review'[j] :
                  AuditedDecision(audit[n], j, review'[j][k])
    BY <1>1 DEF AuditOnlyCommitted
  <2> QED BY <1>2, <2>1 DEF AuditOnlyCommitted, AuditedDecision
<1>3. ASSUME NEW r \in Requests, Acknowledged(r)
      PROVE  AuditedDone' /\ AuditOnlyCommitted'
  <2>0. /\ pc[r] = "ack" /\ pc' = [pc EXCEPT ![r] = "detail"] /\ UNCHANGED <<db, local>>
        /\ audit' \in {audit \o AuditEvents(r), audit}
    BY <1>3 DEF Acknowledged, Goto
  <2>1. CASE audit' = audit
    BY <2>0, <2>1, <1>0, <1>2 DEF AuditedDone, AuditEvent
  <2>2. CASE audit' # audit
    <3> DEFINE e == [eventType |-> AuditKind(req[r].action), target |-> tid[r], by |-> r]
    <3>1. tid[r] # NoTrack /\ req[r].action # "resubmit" /\ audit' = audit \o <<e>>
      <4>1. CASE tid[r] = NoTrack \/ req[r].action = "resubmit"
        BY <2>0, <2>2, <4>1, <1>0 DEF AuditEvents
      <4>2. CASE ~(tid[r] = NoTrack \/ req[r].action = "resubmit")
        BY <2>0, <2>2, <4>2 DEF AuditEvents
      <4> QED BY <4>1, <4>2
    <3>2. tid[r] = TrackOf[req[r].ingest]
      BY <3>1 DEF Vouched
    <3>3. e \in AuditEvent
      BY <3>1 DEF AuditEvent, AuditKind, IInv, TypeOK
    <3>4. /\ Len(audit) \in Nat
          /\ DOMAIN audit = 1 .. Len(audit)
          /\ DOMAIN audit' = 1 .. (Len(audit) + 1)
          /\ \A n \in 1 .. Len(audit) : audit'[n] = audit[n]
          /\ audit'[Len(audit) + 1] = e
      BY <1>0, <3>1, <3>3
    <3>5. \A n \in 1 .. Len(audit) : audit[n].by # r /\ audit[n].by \in Requests
      BY <1>0, <2>0, <3>4 DEF AuditedDone
    <3>6. AuditedDone'
      BY <1>0, <2>0, <3>4, <3>5 DEF AuditedDone
    <3>7. ASSUME NEW n \in DOMAIN audit'
          PROVE  \E j \in Ingests : \E k \in DOMAIN review'[j] :
                    AuditedDecision(audit'[n], j, review'[j][k])
      <4>1. CASE n \in 1 .. Len(audit)
        BY <4>1, <3>4, <1>1 DEF AuditOnlyCommitted
      <4>2. CASE n = Len(audit) + 1
        <5>1. PICK m \in DOMAIN review[req[r].ingest] :
                 review[req[r].ingest][m] = [action |-> req[r].action, by |-> r]
          BY <2>0 DEF Vouched
        <5>2. req[r].ingest \in Ingests
          BY <2>0 DEF IInv, Phase
        <5>3. AuditedDecision(e, req[r].ingest, review[req[r].ingest][m])
          BY <5>1, <3>1, <3>2 DEF AuditedDecision
        <5> QED BY <4>2, <3>4, <5>1, <5>2, <5>3, <1>1
      <4> QED BY <4>1, <4>2, <3>4
    <3>8. \A n, m \in DOMAIN audit' : audit'[n].by = audit'[m].by => n = m
      BY <3>4, <3>5 DEF AuditOnlyCommitted
    <3>9. AuditOnlyCommitted'
      BY <3>7, <3>8 DEF AuditOnlyCommitted, AuditedDecision
    <3> QED BY <3>6, <3>9
  <2> QED BY <2>1, <2>2
<1>4. ASSUME ~ \E r \in Requests : Acknowledged(r)
      PROVE  AuditedDone' /\ AuditOnlyCommitted'
  <2>1. /\ audit' = audit
        /\ \A o \in Requests : pc[o] \in {"detail", "done"} => pc'[o] \in {"detail", "done"}
    BY <1>0, <1>4 DEF Next, vars, Accept, Step, Fault, Connect, Begin, FetchIngestTrackId,
       FetchIngest, CasHit, CasMiss, InsertReview, Publish, PublishConflict, Unpublish,
       UnpublishRefused, Commit, Rollback, Release, Requery, LoadDetail, AckLost,
       StatementFails, ConnectFails, Crash, Running, Environment, IngestCreate,
       SeedTrack, SeedLyrics, Goto, Throw
  <2>2. AuditedDone'
    BY <1>0, <2>1 DEF AuditedDone
  <2> QED BY <1>2, <2>1, <2>2
<1> QED BY <1>3, <1>4

(* Only committed decisions are audited, each at most once, whatever       *)
(* acknowledgements are lost and whenever the process crashes.             *)
THEOREM TxAudit == Spec => []AuditOnlyCommitted
<1>1. Init => Vouched /\ AuditedDone /\ AuditOnlyCommitted
  BY DEF Init, Vouched, AuditedDone, AuditOnlyCommitted
<1> QED BY <1>1, InitIInv, NextIInv, VouchedStep, AuditStep, PTL DEF Spec
-----------------------------------------------------------------------------
(* The pool.                                                               *)

(* The handlers that have a client; finitely many, as each of them took    *)
(* one of PoolSize, so that no bound on the requests is needed.            *)
Holders == {r \in Requests : CheckedOut(r)}

PoolInv == IsFiniteSet(Holders) /\ PoolConserved

LEMMA PoolSame ==
    ASSUME PoolInv, idle' = idle, \A o \in Requests : CheckedOut(o)' <=> CheckedOut(o)
    PROVE  PoolInv'
<1>1. Holders' = Holders
  BY DEF Holders
<1> QED BY <1>1 DEF PoolInv, PoolConserved, Holders

LEMMA PoolTaken ==
    ASSUME IInv, PoolInv, NEW r \in Requests, idle' = idle - 1,
           ~CheckedOut(r), CheckedOut(r)',
           \A o \in Requests \ {r} : CheckedOut(o)' <=> CheckedOut(o)
    PROVE  PoolInv'
<1>1. Holders' = Holders \cup {r} /\ r \notin Holders
  BY DEF Holders
<1>2. IsFiniteSet(Holders') /\ Cardinality(Holders') = Cardinality(Holders) + 1
  BY <1>1, FS_AddElement DEF PoolInv
<1>3. idle \in Nat /\ Cardinality(Holders) \in Nat /\ idle + Cardinality(Holders) = PoolSize
  BY FS_CardinalityType DEF IInv, TypeOK, PoolInv, PoolConserved, Holders
<1>4. idle' + Cardinality(Holders') = PoolSize
  BY <1>2, <1>3
<1> QED BY <1>2, <1>4 DEF PoolInv, PoolConserved, Holders

LEMMA PoolReturned ==
    ASSUME IInv, PoolInv, NEW r \in Requests, idle' = idle + 1,
           CheckedOut(r), ~CheckedOut(r)',
           \A o \in Requests \ {r} : CheckedOut(o)' <=> CheckedOut(o)
    PROVE  PoolInv'
<1>1. Holders' = Holders \ {r} /\ r \in Holders
  BY DEF Holders
<1>2. IsFiniteSet(Holders') /\ Cardinality(Holders') = Cardinality(Holders) - 1
  BY <1>1, FS_RemoveElement DEF PoolInv
<1>3. idle \in Nat /\ Cardinality(Holders) \in Nat /\ idle + Cardinality(Holders) = PoolSize
  BY FS_CardinalityType DEF IInv, TypeOK, PoolInv, PoolConserved, Holders
<1>4. idle' + Cardinality(Holders') = PoolSize
  BY <1>2, <1>3
<1> QED BY <1>2, <1>4 DEF PoolInv, PoolConserved, Holders

LEMMA PoolStep ==
    ASSUME IInv, PoolInv, [Next]_vars
    PROVE  PoolInv'
<1>0. pc \in [Requests -> PcValues]
  BY DEF IInv, TypeOK
<1>1. ASSUME NEW r \in Requests, Connect(r)
      PROVE  PoolInv'
  <2>1. /\ idle' = idle - 1 /\ ~CheckedOut(r) /\ CheckedOut(r)'
        /\ \A o \in Requests \ {r} : CheckedOut(o)' <=> CheckedOut(o)
    BY <1>0, <1>1 DEF Connect, Goto, CheckedOut
  <2> QED BY <2>1, PoolTaken
<1>2. ASSUME NEW r \in Requests, Acknowledged(r) \/ Release(r)
      PROVE  PoolInv'
  <2>1. /\ idle' = idle + 1 /\ CheckedOut(r) /\ ~CheckedOut(r)'
        /\ \A o \in Requests \ {r} : CheckedOut(o)' <=> CheckedOut(o)
    BY <1>0, <1>2 DEF Acknowledged, Release, Goto, CheckedOut
  <2> QED BY <2>1, PoolReturned
<1>3. ASSUME NEW r \in Requests, Step(r) \/ Fault(r),
             ~Connect(r), ~Acknowledged(r), ~Release(r)
      PROVE  PoolInv'
  <2>1. idle' = idle /\ \A o \in Requests : CheckedOut(o)' <=> CheckedOut(o)
    BY <1>0, <1>3 DEF Step, Fault, Begin, FetchIngestTrackId, FetchIngest, CasHit, CasMiss,
       InsertReview, Publish, PublishConflict, Unpublish, UnpublishRefused, Commit, Rollback,
       Requery, LoadDetail, AckLost, StatementFails, ConnectFails, Goto, Throw, CheckedOut
  <2> QED BY <2>1, PoolSame
<1>4. CASE Crash
  <2>1. Holders' = {} /\ idle' = PoolSize
    BY <1>0, <1>4 DEF Crash, Running, Holders, CheckedOut
  <2> QED BY <2>1, FS_EmptySet, TxConstants DEF PoolInv, PoolConserved, Holders
<1>5. ASSUME NEW r \in Requests, NEW i \in Ingests, NEW a \in RouteActions, Accept(r, i, a)
      PROVE  PoolInv'
  <2>1. idle' = idle /\ \A o \in Requests : CheckedOut(o)' <=> CheckedOut(o)
    BY <1>0, <1>5 DEF Accept, Goto, CheckedOut
  <2> QED BY <2>1, PoolSame
<1>6. CASE Environment \/ UNCHANGED vars
  <2>1. idle' = idle /\ pc' = pc
    BY <1>6 DEF Environment, IngestCreate, SeedTrack, SeedLyrics, vars
  <2> QED BY <2>1, PoolSame DEF CheckedOut
<1> QED BY <1>1, <1>2, <1>3, <1>4, <1>5, <1>6 DEF Next

LEMMA PoolInit == Init => PoolInv
<1> SUFFICES ASSUME Init PROVE PoolInv
  OBVIOUS
<1>1. Holders = {} /\ idle = PoolSize
  BY DEF Init, Holders, CheckedOut
<1> QED BY <1>1, FS_EmptySet, TxConstants DEF PoolInv, PoolConserved, Holders

(* Every path of withTransaction, failing or not, returns the one client   *)
(* it took: the pool neither runs dry nor grows, however many requests     *)
(* there are and wherever they fail.                                       *)
THEOREM TxPool == Spec => []PoolConserved
<1>1. PoolInv => PoolConserved
  BY DEF PoolInv
<1> QED BY <1>1, PoolInit, InitIInv, NextIInv, PoolStep, PTL DEF Spec

-----------------------------------------------------------------------------
(* Deadlock freedom.                                                       *)

(* Who holds what is awaited stands further down the list pool, row, key:  *)
(* it is not waiting at all, or for something below.                       *)
LEMMA WaitsDown ==
    ASSUME IInv, NEW r \in Requests, NEW o \in Requests, WaitsFor(r, o)
    PROVE  /\ o \in Running
           /\ ~AwaitsClient(o)
           /\ AwaitsRow(r) \/ AwaitsKey(r) => ~AwaitsRow(o)
           /\ AwaitsKey(r) => ~AwaitsKey(o)
<1>1. Phase /\ pc[o] \in PcValues
  BY DEF IInv, TypeOK
<1>2. CASE AwaitsClient(r) /\ CheckedOut(o)
  BY <1>2, <1>1 DEF CheckedOut, Running, AwaitsClient, AwaitsRow, AwaitsKey
<1>3. CASE AwaitsRow(r) /\ HoldsRow(o)
  <2>1. pc[o] \in {"review", "project", "commit", "rollback"}
    BY <1>1, <1>3 DEF Phase, HoldsRow, PcValues
  <2> QED BY <2>1, <1>3 DEF Running, AwaitsClient, AwaitsRow, AwaitsKey
<1>4. CASE AwaitsKey(r) /\ tx[o] = "proj"
  <2>1. pc[o] \in {"commit", "rollback"}
    BY <1>1, <1>4 DEF Phase, PcValues
  <2> QED BY <2>1, <1>4 DEF Running, AwaitsClient, AwaitsRow, AwaitsKey
<1> QED BY <1>2, <1>3, <1>4 DEF WaitsFor

(* Whatever is awaited is held by someone; an empty pool has been taken.   *)
LEMMA BlockedWaits ==
    ASSUME IInv, PoolInv, NEW r \in Requests, Blocked(r)
    PROVE  \E o \in Requests : WaitsFor(r, o)
<1>1. CASE AwaitsClient(r)
  <2>1. Cardinality(Holders) = PoolSize /\ Cardinality(Holders) # 0
    <3>1. Cardinality(Holders) \in Nat /\ idle = 0
      BY <1>1, FS_CardinalityType DEF PoolInv, AwaitsClient
    <3> QED BY <3>1, TxConstants DEF PoolInv, PoolConserved, Holders
  <2>2. PICK o \in Holders : TRUE
    BY <2>1, FS_EmptySet
  <2> QED BY <1>1, <2>2 DEF WaitsFor, Holders
<1>2. CASE AwaitsRow(r)
  BY <1>2 DEF AwaitsRow, RowLocked, WaitsFor
<1>3. CASE AwaitsKey(r)
  <2>1. \E o \in Requests : tx[o] = "proj"
    <3>1. WritesTrack(r)
      BY <1>3 DEF AwaitsKey, IInv, Phase
    <3> QED BY <1>3, <3>1 DEF AwaitsKey, WritesTrack, KeyLocked, BeingDeleted, Projects
  <2> QED BY <1>3, <2>1 DEF WaitsFor
<1> QED BY <1>1, <1>2, <1>3 DEF Blocked

LEMMA NoCircleInv == IInv /\ PoolInv => NoCircle
<1> SUFFICES ASSUME IInv, PoolInv PROVE NoCircle
  OBVIOUS
<1>1. ASSUME NEW r \in Running, Blocked(r)
      PROVE  \E o \in Running : WaitsFor(r, o)
  <2>1. r \in Requests
    BY DEF Running
  <2>2. PICK o \in Requests : WaitsFor(r, o)
    BY <1>1, <2>1, BlockedWaits
  <2> QED BY <2>1, <2>2, WaitsDown
<1>2. ASSUME NEW S \in (SUBSET Running) \ {{}}
      PROVE  \E r \in S : \A o \in S : ~WaitsFor(r, o)
  <2>0. S \subseteq Requests /\ S # {}
    <3>1. S # {} /\ S \subseteq Running
      OBVIOUS
    <3> QED BY <3>1 DEF Running
  <2>1. CASE \E r \in S : ~Blocked(r)
    BY <2>1 DEF Blocked, WaitsFor
  <2>2. CASE (\A r \in S : Blocked(r)) /\ \E r \in S : AwaitsKey(r)
    <3>1. PICK r \in S : AwaitsKey(r)
      BY <2>2
    <3>2. ASSUME NEW o \in S, WaitsFor(r, o) PROVE FALSE
      BY <2>0, <2>2, <3>1, <3>2, WaitsDown DEF Blocked
    <3> QED BY <3>2
  <2>3. CASE (\A r \in S : Blocked(r) /\ ~AwaitsKey(r)) /\ \E r \in S : AwaitsRow(r)
    <3>1. PICK r \in S : AwaitsRow(r)
      BY <2>3
    <3>2. ASSUME NEW o \in S, WaitsFor(r, o) PROVE FALSE
      BY <2>0, <2>3, <3>1, <3>2, WaitsDown DEF Blocked
    <3> QED BY <3>2
  <2>4. CASE \A r \in S : AwaitsClient(r)
    BY <2>0, <2>4, WaitsDown
  <2> QED BY <2>1, <2>2, <2>3, <2>4 DEF Blocked
<1> QED BY <1>1, <1>2 DEF NoCircle

(* Row locks, key locks and the clients of the pool are never awaited in a *)
(* circle, and never from a request that is gone, whatever the number of   *)
(* requests and the size of the pool.                                      *)
THEOREM TxNoCircle == Spec => []NoCircle
BY NoCircleInv, PoolInit, InitIInv, NextIInv, PoolStep, PTL DEF Spec

(* How far a handler has come.                                             *)
Progress(at) ==
    CASE at = "new" -> 0 [] at = "connect" -> 1 [] at = "begin" -> 2 [] at = "readTrack" -> 3
      [] at = "fetch" -> 4 [] at = "cas" -> 5 [] at = "review" -> 6 [] at = "project" -> 7
      [] at = "commit" -> 8 [] at = "ack" -> 9 [] at = "rollback" -> 10 [] at = "release" -> 11
      [] at \in {"requery", "detail"} -> 12 [] at = "done" -> 13

(* A handler only ever moves forward, whatever fails around it: nothing is *)
(* retried inside a request, so that it takes at most 13 steps.  With      *)
(* TxNoCircle, by which some running request can always take its next one, *)
(* this is why every request is answered.                                  *)
THEOREM TxAdvances ==
    Spec => [][\A r \in Requests : pc'[r] # pc[r] => Progress(pc[r]) < Progress(pc'[r])]_vars
<1>1. ASSUME TypeOK, [Next]_vars
      PROVE  [\A r \in Requests : pc'[r] # pc[r] => Progress(pc[r]) < Progress(pc'[r])]_vars
  <2>0. pc \in [Requests -> PcValues]
    BY <1>1 DEF TypeOK
  <2>1. ASSUME NEW r \in Requests, Step(r) \/ Fault(r)
        PROVE  /\ pc' = [pc EXCEPT ![r] = pc'[r]]
               /\ Progress(pc[r]) < Progress(pc'[r])
    BY <2>0, <2>1 DEF Step, Fault, Connect, Begin, FetchIngestTrackId, FetchIngest, CasHit,
       CasMiss, InsertReview, Publish, PublishConflict, Unpublish, UnpublishRefused, Commit,
       Acknowledged, Rollback, Release, Requery, LoadDetail, AckLost, StatementFails,
       ConnectFails, Goto, Throw, Progress
  <2>2. ASSUME NEW r \in Requests, NEW i \in Ingests, NEW a \in RouteActions, Accept(r, i, a)
        PROVE  /\ pc' = [pc EXCEPT ![r] = pc'[r]]
               /\ Progress(pc[r]) < Progress(pc'[r])
    BY <2>0, <2>2 DEF Accept, Goto, Progress
  <2>3. CASE Crash
    <3>1. \A r \in Requests : pc'[r] # pc[r] => pc[r] \in PcValues \ {"new", "done"}
                                              /\ pc'[r] = "done"
      BY <2>0, <2>3 DEF Crash, Running
    <3> QED BY <3>1 DEF Progress, PcValues
  <2>4. CASE Environment \/ UNCHANGED vars
    BY <2>4 DEF Environment, IngestCreate, SeedTrack, SeedLyrics, vars
  <2> QED BY <1>1, <2>0, <2>1, <2>2, <2>3, <2>4 DEF Next
<1>2. IInv => TypeOK
  BY DEF IInv
<1> QED BY <1>1, <1>2, InitIInv, NextIInv, PTL DEF Spec
=============================================================================
