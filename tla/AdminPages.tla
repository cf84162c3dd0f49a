----------------------------- MODULE AdminPages -----------------------------
(***************************************************************************)
(* The admin routes of the ops application (src/src/ops-app.ts): who may   *)
(* ask, what is done, and what the page that is sent back says.  A request *)
(* is checked once, against the sessions of module Session, when it        *)
(* arrives; then its handler goes on through several awaits, in which      *)
(* other admins decide, sessions expire and the process may restart.       *)
(*                                                                         *)
(* A decision is one step of ReviewSpec, whose tables this module works    *)
(* on: that the transaction of the handler amounts to one is what module   *)
(* ReviewTx shows.  The rows of a history are shown as a set: the page     *)
(* sorts them by column at, which is the time their transactions began.    *)
(***************************************************************************)
EXTENDS ReviewSpec, Session

CONSTANTS
    Routes,       \* the routes that requests may ask for
    NoRow         \* nothing, where a record could be

ASSUME PagesConstants ==
    /\ Routes \subseteq {"queue", "tracks", "audio", "detail", "create",
                         "approve", "reject", "revoke"}
    /\ NoRow \notin [role : Roles, sid : Sids]
    /\ NoRow \notin [route : Routes, ingest : Ingests, sid : Sids \cup {NoSession}]
    /\ NoRow \notin Requests /\ NoRow \notin Roles

VARIABLES
    pc,           \* pc[r]: the await in which the handler of r is suspended
    req,          \* req[r]: [route, ingest, sid], or NoRow
    user,         \* user[r]: req.user, with the session it came from, or NoRow
    shown,        \* shown[r]: what the page says of an ingest: [state, rows]
    answer,       \* answer[r]: the HTTP status, or 0
    issued,       \* history: the role that the login which yielded a sid had
    refused,      \* history: sids that were given out and do not count any more
    author        \* history: the request that created an ingest

sessionVars == <<sessions, clock, issued, refused>>
handlerVars == <<pc, req, user, shown, answer, author>>
pageVars    == <<absVars, sessionVars, handlerVars>>

-----------------------------------------------------------------------------
Decisions == {"approve", "reject", "revoke"}

Needed(route) == IF route = "create" THEN "admin" ELSE "operator"

NoPage == [state |-> "none", rows |-> {}]

Rows(i) == {review[i][n] : n \in DOMAIN review[i]}

PagesInit ==
    /\ Init /\ SessionInit
    /\ pc = [r \in Requests |-> "new"]
    /\ req = [r \in Requests |-> NoRow]
    /\ user = [r \in Requests |-> NoRow]
    /\ shown = [r \in Requests |-> NoPage]
    /\ answer = [r \in Requests |-> 0]
    /\ issued = [s \in Sids |-> NoRow]
    /\ refused = {}
    /\ author = [i \in Ingests |-> NoRow]

Goto(r, from, to) == pc[r] = from /\ pc' = [pc EXCEPT ![r] = to] /\ UNCHANGED answer

Answer(r, from, status) ==
    /\ pc[r] = from /\ pc' = [pc EXCEPT ![r] = "done"]
    /\ answer' = [answer EXCEPT ![r] = status]

-----------------------------------------------------------------------------
(* POST /admin/login with the token of a role; other tokens get a 401. *)
Login(s, role) ==
    /\ issued[s] = NoRow
    /\ CreateSession(s, role)
    /\ issued' = [issued EXCEPT ![s] = role]
    /\ UNCHANGED <<absVars, clock, refused, handlerVars>>

ClockIsSet ==
    /\ ClockSet
    /\ UNCHANGED <<absVars, issued, refused, handlerVars>>

(* Where a handler goes when requireRole lets the request through. *)
FirstStep(route) ==
    CASE route \in Decisions -> "decide"
      [] route = "create"    -> "create"
      [] route = "detail"    -> "state"
      [] OTHER               -> "list"

(* requireRole: the cookie is looked up, once. *)
Authorize(r, route, i, s) ==
    /\ req' = [req EXCEPT ![r] = [route |-> route, ingest |-> i, sid |-> s]]
    /\ IF s \in Sids THEN GetSession(s) ELSE UNCHANGED sessions
    /\ \/ /\ ~Known(s)
          /\ Answer(r, "new", 401)
          /\ refused' = refused \cup ({s} \cap Sids)
          /\ UNCHANGED user
       \/ /\ Known(s) /\ ~Permits(sessions[s].role, Needed(route))
          /\ Answer(r, "new", 403)
          /\ UNCHANGED <<refused, user>>
       \/ /\ Known(s) /\ Permits(sessions[s].role, Needed(route))
          /\ Goto(r, "new", FirstStep(route))
          /\ user' = [user EXCEPT ![r] = [role |-> sessions[s].role, sid |-> s]]
          /\ UNCHANGED refused
    /\ UNCHANGED <<absVars, clock, issued, shown, author>>

(* A browser sends the cookie it was given, or has none. *)
Arrive(r) ==
    \E route \in Routes, i \in Ingests, s \in {x \in Sids : issued[x] # NoRow} \cup {NoSession} :
       Authorize(r, route, i, s)

-----------------------------------------------------------------------------
(* The pages of one read: the queue, the published tracks, the preview,    *)
(* which knows no ingest by that id or has a notice for every other case.  *)
ListPage(r) ==
    /\ pc[r] = "list"
    /\ \/ Answer(r, "list", 200)
       \/ Answer(r, "list", 404) /\ req[r].route = "audio" /\ ingest[req[r].ingest] = "absent"
    /\ UNCHANGED <<absVars, sessionVars, req, user, shown, author>>

(* POST /admin/ingest: the id of the row is new.  The INSERT is executed;  *)
(* what becomes of its answer is another matter.                           *)
CreateIngest(r) ==
    /\ Goto(r, "create", "created")
    /\ \E i \in Ingests : IngestCreate(i) /\ author' = [author EXCEPT ![i] = r]
    /\ UNCHANGED <<sessionVars, req, user, shown>>

Created(r) ==
    /\ Answer(r, "created", 200)
    /\ UNCHANGED <<absVars, sessionVars, req, user, shown, author>>

(* Neither metadata that do not validate nor a reason that is too long     *)
(* touch the tables.                                                       *)
BadInput(r) ==
    /\ Answer(r, "create", 400) \/ Answer(r, "decide", 400)
    /\ UNCHANGED <<absVars, sessionVars, req, user, shown, author>>

(* ingestTransitionAndAudit commits. *)
Decided(r) ==
    /\ Goto(r, "decide", "state")
    /\ LET i == req[r].ingest
           a == req[r].route
       IN  \/ a = "approve" /\ Approve(r, i)
           \/ a = "reject"  /\ Reject(r, i)
           \/ a = "revoke"  /\ Revoke(r, i)
    /\ UNCHANGED <<sessionVars, req, user, shown, author>>

(* Variants: a conflict is reported whatever the state, and for an unknown *)
(* id as well.                                                             *)
Undecided_AnyState(r) ==
    /\ Goto(r, "decide", "requery")
    /\ ingest[req[r].ingest] # "absent"
    /\ UNCHANGED <<absVars, sessionVars, req, user, shown, author>>

Undecided_NotFoundToo(r) ==
    /\ Goto(r, "decide", "requery")
    /\ ingest[req[r].ingest] = "absent"
    /\ UNCHANGED <<absVars, sessionVars, req, user, shown, author>>

(* NOT_FOUND, and INVALID_TRANSITION.  Each of these actions is allowed in *)
(* one state only, so a CAS that misses finds the action forbidden too.    *)
Undecided(r) ==
    /\ pc[r] = "decide"
    /\ LET s == ingest[req[r].ingest] IN
          \/ s = "absent" /\ Answer(r, "decide", 404)
          \/ /\ s # "absent" /\ req[r].route \notin Allowed[s]
             /\ Goto(r, "decide", "requery")
    /\ UNCHANGED <<absVars, sessionVars, req, user, shown, author>>

(* Variant: a transaction that fails is passed over. *)
Fails_PassedOver(r) ==
    /\ Goto(r, "decide", "state")
    /\ UNCHANGED <<absVars, sessionVars, req, user, shown, author>>

(* The transaction is rolled back, a query is rejected, or its answer is   *)
(* lost, an INSERT or a COMMIT being done all the same: 500.               *)
Fails(r) ==
    /\ \E at \in {"list", "create", "created", "decide", "requery", "state", "history"} :
          Answer(r, at, 500)
    /\ UNCHANGED <<absVars, sessionVars, req, user, shown, author>>

(* The 409 page names the state that a query of its own reads. *)
Requery(r) ==
    /\ Answer(r, "requery", 409)
    /\ shown' = [shown EXCEPT ![r].state = ingest[req[r].ingest]]
    /\ UNCHANGED <<absVars, sessionVars, req, user, author>>

ReadState(r) == shown' = [shown EXCEPT ![r].state = ingest[req[r].ingest]]
ReadRows(r)  == shown' = [shown EXCEPT ![r].rows = Rows(req[r].ingest)]

(* Variant: the history is read before the ingest. *)
LoadDetail_RowsFirst(r) ==
    /\ pc[r] \in {"state", "history"}
    /\ \/ Goto(r, "state", "history") /\ ingest[req[r].ingest] # "absent" /\ ReadRows(r)
       \/ Answer(r, "state", 404) /\ ingest[req[r].ingest] = "absent" /\ UNCHANGED shown
       \/ Answer(r, "history", 200) /\ ReadState(r)
    /\ UNCHANGED <<absVars, sessionVars, req, user, author>>

(* loadDetail: the ingest in one statement, its history in another, both   *)
(* outside any transaction; then the page is rendered.                     *)
LoadDetail(r) ==
    /\ pc[r] \in {"state", "history"}
    /\ \/ Goto(r, "state", "history") /\ ingest[req[r].ingest] # "absent" /\ ReadState(r)
       \/ Answer(r, "state", 404) /\ ingest[req[r].ingest] = "absent" /\ UNCHANGED shown
       \/ Answer(r, "history", 200) /\ ReadRows(r)
    /\ UNCHANGED <<absVars, sessionVars, req, user, author>>

-----------------------------------------------------------------------------
(* The process restarts: sessions are gone, handlers die where they stand, *)
(* with or without what they were at (Decided, CreateIngest may come first). *)
Restart ==
    /\ ForgetSessions
    /\ refused' = {s \in Sids : issued[s] # NoRow}
    /\ \E r \in Requests : pc[r] \notin {"new", "done"}
    /\ pc' = [r \in Requests |-> IF pc[r] = "new" THEN "new" ELSE "done"]
    /\ UNCHANGED <<absVars, clock, issued, req, user, shown, answer, author>>

Handle(r) ==
    \/ Arrive(r) \/ ListPage(r) \/ CreateIngest(r) \/ Created(r) \/ BadInput(r)
    \/ Decided(r) \/ Undecided(r) \/ Fails(r) \/ Requery(r) \/ LoadDetail(r)

PagesNext ==
    \/ \E s \in Sids, role \in Roles : Login(s, role)
    \/ ClockIsSet \/ Restart
    \/ \E r \in Requests : Handle(r)

PagesSpec == PagesInit /\ [][PagesNext]_pageVars

-----------------------------------------------------------------------------
PcValues == {"new", "list", "create", "created", "decide", "requery", "state", "history", "done"}

(* Type correctness of sessions, handlers and pages. *)
PagesTypeOK ==
    /\ TypeOK
    /\ sessions \in [Sids -> Entry \cup {NoSession}] /\ clock \in Times
    /\ issued \in [Sids -> Roles \cup {NoRow}] /\ refused \subseteq Sids
    /\ pc \in [Requests -> PcValues]
    /\ req \in [Requests -> {NoRow} \cup [route : Routes, ingest : Ingests,
                                          sid : Sids \cup {NoSession}]]
    /\ user \in [Requests -> {NoRow} \cup [role : Roles, sid : Sids]]
    /\ shown \in [Requests -> [state : States \cup {"none"}, rows : SUBSET ReviewRow]]
    /\ answer \in [Requests -> {0, 200, 400, 401, 403, 404, 409, 500}]
    /\ author \in [Ingests -> Requests \cup {NoRow}]

(* A session that was refused once is refused for good: neither a clock    *)
(* that is set back (session.ts:22-26) nor a restart brings it to life.    *)
RefusedForGood ==
    [][\A r \in Requests : user'[r] # user[r] => user'[r].sid \notin refused]_pageVars

(* Whatever is in the tables was put there by somebody who logged in with  *)
(* the token of a sufficient role: decisions by any, ingests by an admin;  *)
(* and the name in the review row is that of the login (requireRole).      *)
ActedByRole ==
    /\ \A i \in Ingests : ingest[i] # "absent" =>
          author[i] # NoRow /\ issued[user[author[i]].sid] = "admin"
    /\ \A r \in Deciders : user[r] # NoRow /\ issued[user[r].sid] = user[r].role

(* The two reads behind the page of an ingest are not one snapshot, yet    *)
(* the page is coherent: the rows it shows are the history of the ingest   *)
(* up to some decision, and the state it shows is one that a beginning of  *)
(* these rows leads to; decisions that came between the reads make the     *)
(* rows newer than the state, never older (ops-app.ts:67-91).              *)
PageCoherent ==
    \A r \in Requests : answer[r] = 200 /\ shown[r].state # "none" =>
       LET i == req[r].ingest
       IN  \E m \in 0 .. Len(review[i]) :
              /\ shown[r].rows = {review[i][n] : n \in 1 .. m}
              /\ \E n \in 0 .. m : shown[r].state = StateAfter(i, n)

(* What the answer to a decision says of it: the page of a 200 has the row *)
(* of this very request, and after a 4xx there is no such row in the       *)
(* tables, then or later (ops-app.ts:432-494).                             *)
OwnDecisionShown ==
    \A r \in Requests :
       /\ answer[r] = 200 /\ req[r].route \in Decisions =>
             [action |-> req[r].route, by |-> r] \in shown[r].rows
       /\ answer[r] \in 400 .. 499 => r \notin Deciders

(* A 409 names the state that a later query finds.  As no admin route      *)
(* resubmits an ingest, that state forbids what was refused, except to a   *)
(* revoke that an approval overtook (ops-app.ts:471-487).                  *)
ConflictNamed ==
    \A r \in Requests : answer[r] = 409 =>
       \/ req[r].route \notin Allowed[shown[r].state]
       \/ req[r].route = "revoke" /\ shown[r].state = "approved"
=============================================================================
