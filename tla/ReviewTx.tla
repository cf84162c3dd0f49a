------------------------------ MODULE ReviewTx ------------------------------
(***************************************************************************)
(* The review requests of the ops application, statement by statement.     *)
(* A request POST /admin/ingest/:id/<action> takes a client from the pool, *)
(* opens a READ COMMITTED transaction, reads the ingest, updates it with a *)
(* compare-and-set, adds a review row, publishes or takes down the tracks  *)
(* row, commits, and writes an audit event after the commit.  pc[r] is the *)
(* await in which the handler of request r is suspended; each action is    *)
(* the execution of that statement by Postgres and the handler's code up   *)
(* to its next await.  Any statement may fail, the answer to COMMIT may be *)
(* lost, and the process may crash at any point.                           *)
(*                                                                         *)
(* Postgres (external) is modelled by the guarantees the code relies on:   *)
(* a statement sees committed rows only, a row updated or a key inserted   *)
(* by an open transaction makes a second writer wait, the waiting UPDATE   *)
(* re-evaluates its WHERE on the newest committed row, and the writes of a *)
(* transaction become visible together or not at all.                      *)
(***************************************************************************)
EXTENDS ReviewRules, Integers, Sequences, FiniteSets

CONSTANTS
    RouteActions,   \* the actions offered to requests
    PoolSize,       \* clients in the pg pool
    NoTrack, NoReq, NoState

ASSUME TxConstants ==
    /\ RouteActions \subseteq Actions
    /\ PoolSize \in Nat \ {0}
    /\ NoTrack \notin Tracks

VARIABLES
    ingest, review, tracks, lyrics,   \* the committed tables
    pc,       \* pc[r]: where the handler of r waits
    req,      \* req[r]: the ingest and action r asks for, or NoReq
    tid,      \* tid[r]: fetchIngestTrackId's result
    seen,     \* seen[r]: i.state as fetchIngest read it
    tx,       \* tx[r]: how far r's transaction got on the server
    idle,     \* clients waiting in the pool
    result,   \* result[r]: the outcome the handler will answer with
    told,     \* told[r]: the state named in a 409 answer
    audit     \* the audit events emitted, in order

db    == <<ingest, review, tracks, lyrics>>
local == <<req, tid, seen>>
vars  == <<ingest, review, tracks, lyrics, pc, req, tid, seen, tx, idle,
           result, told, audit>>

Abs == INSTANCE ReviewSpec

(* The catalogue that those who only read it may rely on. *)
Catalog == INSTANCE Catalogue WITH published <- {t \in Tracks : tracks[t] # Nobody},
                                   sung      <- lyrics

-----------------------------------------------------------------------------
Init ==
    /\ Abs!Init
    /\ pc = [r \in Requests |-> "new"]
    /\ req = [r \in Requests |-> NoReq]
    /\ tid = [r \in Requests |-> NoTrack]
    /\ seen = [r \in Requests |-> NoState]
    /\ tx = [r \in Requests |-> "none"]
    /\ idle = PoolSize
    /\ result = [r \in Requests |-> "none"]
    /\ told = [r \in Requests |-> NoState]
    /\ audit = << >>

Goto(r, from, to) == pc[r] = from /\ pc' = [pc EXCEPT ![r] = to]

(* A handler that throws inside withTransaction goes to its catch clause.  *)
Throw(r, from, why) ==
    /\ Goto(r, from, "rollback")
    /\ result' = [result EXCEPT ![r] = why]

(* Locks held by open transactions: the ingest row updated by the CAS, the *)
(* tracks keys inserted, the tracks row deleted.                           *)
HoldsRow(r)  == tx[r] \in {"cas", "review", "proj"}
Projects(r, a) == tx[r] = "proj" /\ req[r].action = a

RowLocked(r) ==
    \E o \in Requests \ {r} : HoldsRow(o) /\ req[o].ingest = req[r].ingest

(* An uncommitted INSERT INTO tracks holds its track_id and its isrc.      *)
KeyLocked(t, isrc) ==
    \E o \in Requests :
       /\ Projects(o, "approve")
       /\ LET j == req[o].ingest
          IN  TrackOf[j] = t \/ (isrc # NoIsrc /\ IsrcOf[j] = isrc)

BeingDeleted(t) ==
    \E o \in Requests : Projects(o, "revoke") /\ TrackOf[req[o].ingest] = t

-----------------------------------------------------------------------------
(* A request arrives, past the role check and the length check on reason.  *)
Accept(r, i, a) ==
    /\ Goto(r, "new", "connect")
    /\ req' = [req EXCEPT ![r] = [ingest |-> i, action |-> a]]
    /\ UNCHANGED <<db, tid, seen, tx, idle, result, told, audit>>

Connect(r) ==
    /\ Goto(r, "connect", "begin")
    /\ idle > 0
    /\ idle' = idle - 1
    /\ UNCHANGED <<db, local, tx, result, told, audit>>

Begin(r) ==
    /\ Goto(r, "begin", "readTrack")
    /\ tx' = [tx EXCEPT ![r] = "open"]
    /\ UNCHANGED <<db, local, idle, result, told, audit>>

FetchIngestTrackId(r) ==
    /\ Goto(r, "readTrack", "fetch")
    /\ LET i == req[r].ingest
       IN  tid' = [tid EXCEPT ![r] = IF ingest[i] = "absent" THEN NoTrack ELSE TrackOf[i]]
    /\ UNCHANGED <<db, req, seen, tx, idle, result, told, audit>>

(* Variant: the ALLOWED table is not consulted. *)
FetchIngest_AnyAction(r) ==
    /\ Goto(r, "fetch", "cas")
    /\ ingest[req[r].ingest] # "absent"
    /\ seen' = [seen EXCEPT ![r] = ingest[req[r].ingest]]
    /\ UNCHANGED <<db, req, tid, tx, idle, result, told, audit>>

FetchIngest(r) ==
    LET s == ingest[req[r].ingest] IN
    \/ /\ Throw(r, "fetch", "not_found")
       /\ s = "absent"
       /\ UNCHANGED <<db, local, tx, idle, told, audit>>
    \/ /\ Throw(r, "fetch", "invalid")
       /\ s # "absent" /\ req[r].action \notin Allowed[s]
       /\ UNCHANGED <<db, local, tx, idle, told, audit>>
    \/ /\ Goto(r, "fetch", "cas")
       /\ s # "absent" /\ req[r].action \in Allowed[s]
       /\ seen' = [seen EXCEPT ![r] = s]
       /\ UNCHANGED <<db, req, tid, tx, idle, result, told, audit>>

(* Variant: UPDATE ... WHERE id = $2, without the state. *)
CasHit_AnyState(r) ==
    /\ Goto(r, "cas", "review")
    /\ ~RowLocked(r)
    /\ tx' = [tx EXCEPT ![r] = "cas"]
    /\ UNCHANGED <<db, local, idle, result, told, audit>>

(* UPDATE ingest ... WHERE id = $2 AND state = $3 RETURNING id: waits while *)
(* another transaction has updated the row.                                *)
CasHit(r) ==
    /\ Goto(r, "cas", "review")
    /\ ~RowLocked(r)
    /\ ingest[req[r].ingest] = seen[r]
    /\ tx' = [tx EXCEPT ![r] = "cas"]
    /\ UNCHANGED <<db, local, idle, result, told, audit>>

CasMiss(r) ==
    /\ Throw(r, "cas", "invalid")
    /\ ingest[req[r].ingest] # seen[r]
    /\ UNCHANGED <<db, local, tx, idle, told, audit>>

(* Variant: the review row goes through the pool, not through the client   *)
(* of the transaction, and so commits on its own.                          *)
InsertReview_OwnConnection(r) ==
    LET i == req[r].ingest
        a == req[r].action
    IN  /\ Goto(r, "review", IF a \in {"approve", "revoke"} THEN "project" ELSE "commit")
        /\ tx' = [tx EXCEPT ![r] = "review"]
        /\ review' = [review EXCEPT ![i] = Append(@, [action |-> a, by |-> r])]
        /\ UNCHANGED <<ingest, tracks, lyrics, local, idle, result, told, audit>>

(* Variant: the audit event is emitted inside the transaction. *)
InsertReview_Audits(r) ==
    /\ Goto(r, "review", IF req[r].action \in {"approve", "revoke"} THEN "project"
                                                                   ELSE "commit")
    /\ tx' = [tx EXCEPT ![r] = "review"]
    /\ tid[r] # NoTrack
    /\ audit' = Append(audit, [eventType |-> IF req[r].action = "approve" THEN "provision"
                                                                         ELSE "revoke",
                               target |-> tid[r], by |-> r])
    /\ UNCHANGED <<db, local, idle, result, told>>

InsertReview(r) ==
    /\ Goto(r, "review", IF req[r].action \in {"approve", "revoke"} THEN "project"
                                                                   ELSE "commit")
    /\ tx' = [tx EXCEPT ![r] = "review"]
    /\ UNCHANGED <<db, local, idle, result, told, audit>>

(* Variant: INSERT INTO tracks whose isrc index is not unique. *)
Publish_NoIsrcIndex(r) ==
    LET t == TrackOf[req[r].ingest] IN
    /\ Goto(r, "project", "commit")
    /\ req[r].action = "approve"
    /\ tracks[t] = Nobody /\ ~KeyLocked(t, NoIsrc)
    /\ tx' = [tx EXCEPT ![r] = "proj"]
    /\ UNCHANGED <<db, local, idle, result, told, audit>>

(* INSERT INTO tracks, without ON CONFLICT: waits for the uncommitted      *)
(* owner of a key, fails on a committed one.                               *)
Publish(r) ==
    LET i == req[r].ingest IN
    /\ Goto(r, "project", "commit")
    /\ req[r].action = "approve"
    /\ Abs!Clashing(TrackOf[i], IsrcOf[i]) = {}
    /\ ~KeyLocked(TrackOf[i], IsrcOf[i])
    /\ tx' = [tx EXCEPT ![r] = "proj"]
    /\ UNCHANGED <<db, local, idle, result, told, audit>>

PublishConflict(r) ==
    LET i == req[r].ingest IN
    /\ Throw(r, "project", "failed")
    /\ req[r].action = "approve"
    /\ \E t \in Abs!Clashing(TrackOf[i], IsrcOf[i]) : ~BeingDeleted(t)
    /\ UNCHANGED <<db, local, tx, idle, told, audit>>

(* DELETE FROM tracks: refused by the foreign key of lyrics.               *)
Unpublish(r) ==
    LET t == TrackOf[req[r].ingest] IN
    /\ Goto(r, "project", "commit")
    /\ req[r].action = "revoke"
    /\ t \notin lyrics /\ ~BeingDeleted(t)
    /\ tx' = [tx EXCEPT ![r] = "proj"]
    /\ UNCHANGED <<db, local, idle, result, told, audit>>

UnpublishRefused(r) ==
    /\ Throw(r, "project", "failed")
    /\ req[r].action = "revoke"
    /\ TrackOf[req[r].ingest] \in lyrics
    /\ UNCHANGED <<db, local, tx, idle, told, audit>>

(* The server executes COMMIT: the transaction's writes appear at once.    *)
Commit(r) ==
    LET i == req[r].ingest
        a == req[r].action
    IN  /\ Goto(r, "commit", "ack")
        /\ ingest' = [ingest EXCEPT ![i] = NextState[a]]
        /\ review' = [review EXCEPT ![i] = Append(@, [action |-> a, by |-> r])]
        /\ tracks' = CASE a = "approve" -> [tracks EXCEPT ![TrackOf[i]] = i]
                       [] a = "revoke"  -> [tracks EXCEPT ![TrackOf[i]] = Nobody]
                       [] OTHER         -> tracks
        /\ tx' = [tx EXCEPT ![r] = "none"]
        /\ UNCHANGED <<lyrics, local, idle, result, told, audit>>

AuditKind(a) == IF a = "approve" THEN "provision" ELSE "revoke"

(* Variant: the event is built although no track_id was found. *)
AuditEvents_NoTarget(r) ==
    IF req[r].action = "resubmit"
    THEN << >>
    ELSE <<[eventType |-> AuditKind(req[r].action), target |-> tid[r], by |-> r]>>

AuditEvents(r) ==
    IF tid[r] = NoTrack \/ req[r].action = "resubmit"
    THEN << >>
    ELSE <<[eventType |-> AuditKind(req[r].action), target |-> tid[r], by |-> r]>>

(* The answer to COMMIT arrives.  What follows runs without an await:      *)
(* release the client, emit the audit event (a failed write is swallowed   *)
(* by the sink), return to the route, which then reads the page to show.   *)
Acknowledged(r) ==
    /\ Goto(r, "ack", "detail")
    /\ result' = [result EXCEPT ![r] = "ok"]
    /\ idle' = idle + 1
    /\ audit' \in {audit \o AuditEvents(r), audit}
    /\ UNCHANGED <<db, local, tx, told>>

(* The answer to COMMIT is lost: the catch clause sends a ROLLBACK.        *)
AckLost(r) ==
    /\ Throw(r, "ack", "failed")
    /\ UNCHANGED <<db, local, tx, idle, told, audit>>

(* Variant: a failing COMMIT is logged and passed over. *)
StatementFails_CommitIgnored(r) ==
    /\ pc[r] \in {"begin", "readTrack", "fetch", "cas", "review", "project", "commit"}
    /\ Throw(r, pc[r], IF pc[r] = "commit" THEN "ok" ELSE "failed")
    /\ UNCHANGED <<db, local, tx, idle, told, audit>>

(* A statement is rejected: bad data, a broken connection.  The server     *)
(* keeps the locks until the ROLLBACK or until it drops the connection.    *)
StatementFails(r) ==
    /\ pc[r] \in {"begin", "readTrack", "fetch", "cas", "review", "project", "commit"}
    /\ Throw(r, pc[r], "failed")
    /\ UNCHANGED <<db, local, tx, idle, told, audit>>

(* Variants: the catch clause rethrows before finally would release, and   *)
(* the client is released without a ROLLBACK, its transaction still open.  *)
Rollback_NoRelease(r) ==
    /\ Goto(r, "rollback", "done")
    /\ tx' = [tx EXCEPT ![r] = "none"]
    /\ UNCHANGED <<db, local, idle, result, told, audit>>

Rollback_NotSent(r) ==
    /\ Goto(r, "rollback", "release")
    /\ UNCHANGED <<db, local, tx, idle, result, told, audit>>

(* ROLLBACK; when it fails the connection is gone, and the server aborts.  *)
Rollback(r) ==
    /\ Goto(r, "rollback", "release")
    /\ tx' = [tx EXCEPT ![r] = "none"]
    /\ UNCHANGED <<db, local, idle, result, told, audit>>

Release(r) ==
    /\ Goto(r, "release", IF result[r] = "invalid" THEN "requery" ELSE "done")
    /\ idle' = idle + 1
    /\ UNCHANGED <<db, local, tx, result, told, audit>>

(* The 409 answer names the state a fresh query reads (ops-app.ts:472-478). *)
Requery(r) ==
    /\ Goto(r, "requery", "done")
    /\ idle > 0
    /\ told' = [told EXCEPT ![r] = ingest[req[r].ingest]]
    /\ UNCHANGED <<db, local, tx, idle, result, audit>>

(* loadDetail: plain queries through the pool, one client at a time.       *)
LoadDetail(r) ==
    /\ Goto(r, "detail", "done")
    /\ idle > 0
    /\ UNCHANGED <<db, local, tx, idle, result, told, audit>>

(* pool.connect(), or a query through the pool, rejects: the handler throws *)
(* with no client to release.                                              *)
ConnectFails(r) ==
    /\ pc[r] \in {"connect", "requery", "detail"}
    /\ Goto(r, pc[r], "done")
    /\ result' = [result EXCEPT ![r] = "failed"]
    /\ UNCHANGED <<db, local, tx, idle, told, audit>>

(* The ops process dies: its connections drop, open transactions abort.    *)
Running == {r \in Requests : pc[r] \notin {"new", "done"}}

Crash ==
    /\ Running # {}
    /\ pc' = [r \in Requests |-> IF r \in Running THEN "done" ELSE pc[r]]
    /\ result' = [r \in Requests |-> IF r \in Running THEN "lost" ELSE result[r]]
    /\ tx' = [r \in Requests |-> "none"]
    /\ idle' = PoolSize
    /\ UNCHANGED <<db, local, told, audit>>

-----------------------------------------------------------------------------
(* Other writers of the same tables, each a single autocommitted statement. *)
IngestCreate(i) ==
    /\ Abs!IngestCreate(i)
    /\ UNCHANGED <<pc, local, tx, idle, result, told, audit>>

SeedTrack(t) ==
    /\ ~KeyLocked(t, IsrcOf[t])
    /\ Abs!SeedTrack(t)
    /\ UNCHANGED <<pc, local, tx, idle, result, told, audit>>

SeedLyrics(t) ==
    /\ ~BeingDeleted(t)
    /\ Abs!SeedLyrics(t)
    /\ UNCHANGED <<pc, local, tx, idle, result, told, audit>>

-----------------------------------------------------------------------------
(* What a handler does when nothing goes wrong around it. *)
Step(r) ==
    \/ Connect(r) \/ Begin(r) \/ FetchIngestTrackId(r) \/ FetchIngest(r)
    \/ CasHit(r) \/ CasMiss(r) \/ InsertReview(r)
    \/ Publish(r) \/ PublishConflict(r) \/ Unpublish(r) \/ UnpublishRefused(r)
    \/ Commit(r) \/ Acknowledged(r) \/ Rollback(r) \/ Release(r) \/ Requery(r)
    \/ LoadDetail(r)

Fault(r) == AckLost(r) \/ StatementFails(r) \/ ConnectFails(r)

Environment ==
    \/ \E i \in Ingests : IngestCreate(i)
    \/ \E t \in SeedTracks : SeedTrack(t) \/ SeedLyrics(t)

Next ==
    \/ \E r \in Requests, i \in Ingests, a \in RouteActions : Accept(r, i, a)
    \/ \E r \in Requests : Step(r) \/ Fault(r)
    \/ Crash
    \/ Environment

Spec == Init /\ [][Next]_vars

(* Postgres and the event loop keep serving every request; nothing is      *)
(* assumed about arrivals, failures or the other writers.                  *)
Fairness == \A r \in Requests : WF_vars(Step(r))

FairSpec == Spec /\ Fairness

-----------------------------------------------------------------------------
(* Type correctness of the handlers, the pool and the tables. *)
PcValues == {"new", "connect", "begin", "readTrack", "fetch", "cas", "review",
             "project", "commit", "ack", "rollback", "release", "requery", "detail", "done"}

AuditEvent == [eventType : {"provision", "revoke"}, target : Tracks, by : Requests]

TypeOK ==
    /\ Abs!TypeOK
    /\ pc \in [Requests -> PcValues]
    /\ req \in [Requests -> [ingest : Ingests, action : RouteActions] \cup {NoReq}]
    /\ tid \in [Requests -> Tracks \cup {NoTrack}]
    /\ seen \in [Requests -> States \cup {NoState}]
    /\ tx \in [Requests -> {"none", "open", "cas", "review", "proj"}]
    /\ idle \in Nat
    /\ result \in [Requests -> {"none", "ok", "not_found", "invalid", "failed", "lost"}]
    /\ told \in [Requests -> States \cup {"absent", NoState}]
    /\ audit \in Seq(AuditEvent)

(* The committed tables behave as if every decision were one atomic step,  *)
(* taken at most once per request, whatever transactions interleave, fail  *)
(* or lose the answer to their COMMIT (the claim of the design document,   *)
(* section 5, about READ COMMITTED, the CAS and the dedicated connection). *)
Atomic == Abs!Spec

(* tracks holds an ingest's row exactly while the ingest is approved: the  *)
(* state "revoked, yet still published" is unreachable.                    *)
Projection == Abs!Projection

(* The review history of an ingest is a legal walk that ends in its state: *)
(* the loser of a CAS race leaves no row, the winner never overwrites.     *)
HistoryExplainsState == Abs!HistoryExplainsState

(* Ingests that share a track_id, or an isrc, are never approved together. *)
OneApprovedPerKey == Abs!OneApprovedPerKey

(* Seeded lyrics never outlive the track they belong to.                   *)
LyricsHaveTrack == Abs!LyricsHaveTrack

(* What the handler answers agrees with what was committed: success means  *)
(* the decision is in the history, 404 and 409 mean it left nothing there. *)
AnswerMatchesTables ==
    \A r \in Requests :
       /\ result[r] = "ok" => r \in Abs!Deciders
       /\ result[r] \in {"not_found", "invalid"} => r \notin Abs!Deciders

(* An audit event stands for one committed decision of the same kind on an *)
(* ingest of the same track, and no decision is audited twice              *)
(* (ingest.ts:68-75: audit only after COMMIT).                             *)
AuditedDecision(e, i, row) ==
    /\ row.by = e.by /\ TrackOf[i] = e.target
    /\ row.action # "resubmit" /\ AuditKind(row.action) = e.eventType

AuditOnlyCommitted ==
    /\ \A n \in DOMAIN audit : \E i \in Ingests : \E m \in DOMAIN review[i] :
          AuditedDecision(audit[n], i, review[i][m])
    /\ \A n, m \in DOMAIN audit : audit[n].by = audit[m].by => n = m

(* No path through connect, BEGIN, COMMIT, ROLLBACK and release, failing   *)
(* or not, loses a client of the pool or returns it twice.                 *)
CheckedOut(r) == pc[r] \in {"begin", "readTrack", "fetch", "cas", "review", "project",
                            "commit", "ack", "rollback", "release"}

PoolConserved == idle + Cardinality({r \in Requests : CheckedOut(r)}) = PoolSize

(* What stops a handler in its await until another request moves on: an    *)
(* empty pool, an updated ingest row, a key that is being inserted or      *)
(* deleted.  Everywhere else the next statement can be executed.           *)
AwaitsClient(r) == pc[r] \in {"connect", "requery", "detail"} /\ idle = 0

AwaitsRow(r) ==
    pc[r] = "cas" /\ RowLocked(r) /\ ingest[req[r].ingest] = seen[r]

AwaitsKey(r) ==
    LET t == TrackOf[req[r].ingest]
        c == Abs!Clashing(t, IsrcOf[req[r].ingest])
    IN  /\ pc[r] = "project"
        /\ req[r].action = "approve" => /\ c = {} => KeyLocked(t, IsrcOf[req[r].ingest])
                                        /\ \A u \in c : BeingDeleted(u)
        /\ req[r].action = "revoke" => t \notin lyrics /\ BeingDeleted(t)

Blocked(r) == AwaitsClient(r) \/ AwaitsRow(r) \/ AwaitsKey(r)

WaitsFor(r, o) ==
    \/ AwaitsClient(r) /\ CheckedOut(o)
    \/ AwaitsRow(r) /\ o # r /\ HoldsRow(o) /\ req[o].ingest = req[r].ingest
    \/ AwaitsKey(r) /\ tx[o] = "proj"

(* Deadlock freedom: a blocked request waits for a request that is still   *)
(* running, never for one that has left a lock or a client behind, and row *)
(* locks, key locks and clients of the pool are never awaited in a circle, *)
(* so that of any requests one is not held up by the others                *)
(* (transaction.ts:24-44; no handler holds a client while it takes one).   *)
NoCircle ==
    /\ \A r \in Running : Blocked(r) => \E o \in Running : WaitsFor(r, o)
    /\ \A S \in (SUBSET Running) \ {{}} : \E r \in S : \A o \in S : ~WaitsFor(r, o)

(* Every request that arrives is answered or lost with the process.        *)
Answered == \A r \in Requests : pc[r] = "connect" ~> pc[r] = "done"
=============================================================================
