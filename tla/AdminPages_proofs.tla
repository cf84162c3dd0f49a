-------------------------- MODULE AdminPages_proofs -------------------------
(* What the admin routes promise, for every set of ingests, requests,      *)
(* sessions and readings of the clock.                                     *)
EXTENDS AdminPages, ReviewSpec_proofs

-----------------------------------------------------------------------------
(* The inductive invariant, in parts.                                      *)

Busy == {"list", "create", "created", "decide", "requery", "state", "history"}

SessionInv ==
    \A s \in Sids :
       /\ sessions[s] # NoSession => issued[s] = sessions[s].role /\ s \notin refused
       /\ s \in refused => issued[s] # NoRow

(* A handler that runs was let in, by the login whose name it carries.     *)
UserInv ==
    \A r \in Requests :
       /\ pc[r] \in Busy => req[r] # NoRow /\ user[r] # NoRow
       /\ answer[r] # 0 => pc[r] = "done" /\ req[r] # NoRow
       /\ user[r] # NoRow => issued[user[r].sid] = user[r].role
       /\ pc[r] = "new" => user[r] = NoRow
       /\ pc[r] = "create" => user[r].role = "admin"
       /\ pc[r] \in {"list", "create", "created"} => req[r].route \notin Decisions
       /\ pc[r] \in {"decide", "requery"} => req[r].route \in Decisions

AuthorInv ==
    \A i \in Ingests : ingest[i] # "absent" =>
       /\ author[i] # NoRow /\ user[author[i]] # NoRow
       /\ user[author[i]].role = "admin"

RequestRow(r) == [action |-> req[r].route, by |-> r]

(* Who has decided, and where such a request stands.                       *)
DeciderInv ==
    \A r \in Requests :
       /\ r \in Deciders =>
             /\ user[r] # NoRow /\ req[r] # NoRow
             /\ req[r].route \in Decisions
             /\ \A i \in Ingests : req[r].ingest = i => RequestRow(r) \in Rows(i)
             /\ pc[r] \in {"state", "history", "done"}
             /\ answer[r] \notin 400 .. 499
       /\ pc[r] \in {"state", "history"} /\ req[r].route \in Decisions => r \in Deciders

(* What a handler has read of its ingest, and what its page says.          *)
Blank(r) == pc[r] \in Busy \ {"history"} \/ pc[r] = "new" => shown[r] = NoPage

Reading(r, i) ==
    /\ pc[r] = "history" => \E n \in 0 .. Len(review[i]) : shown[r].state = StateAfter(i, n)
    /\ pc[r] = "requery" => /\ ingest[i] # "absent"
                            /\ req[r].route # "revoke" => ingest[i] # "pending"

Shows(r, i) ==
    answer[r] = 200 /\ shown[r].state # "none" =>
       \E m \in 0 .. Len(review[i]) :
          /\ shown[r].rows = {review[i][n] : n \in 1 .. m}
          /\ \E n \in 0 .. m : shown[r].state = StateAfter(i, n)

Names(r) ==
    answer[r] = 409 => \/ req[r].route \notin Allowed[shown[r].state]
                       \/ req[r].route = "revoke" /\ shown[r].state = "approved"

Own(r) ==
    answer[r] = 200 /\ req[r].route \in Decisions => RequestRow(r) \in shown[r].rows

PageInv ==
    \A r \in Requests :
       /\ Blank(r) /\ Names(r) /\ Own(r)
       /\ \A i \in Ingests : req[r].ingest = i => Reading(r, i) /\ Shows(r, i)

PagesInv ==
    /\ PagesTypeOK /\ TablesInv
    /\ SessionInv /\ UserInv /\ AuthorInv
    /\ DeciderInv /\ PageInv

-----------------------------------------------------------------------------
(* What a step does to the tables.                                         *)

TableSteps ==
    \/ UNCHANGED absVars
    \/ \E i \in Ingests : IngestCreate(i)
    \/ \E r \in Requests, i \in Ingests : Approve(r, i) \/ Reject(r, i) \/ Revoke(r, i)

LEMMA PagesRefine ==
    ASSUME PagesTypeOK, UserInv, [PagesNext]_pageVars
    PROVE  TableSteps /\ [Next]_absVars
<1>1. ASSUME NEW r \in Requests, CreateIngest(r) PROVE TableSteps
  BY <1>1 DEF CreateIngest, TableSteps
<1>2. ASSUME NEW r \in Requests, Decided(r) PROVE TableSteps
  <2>1. req[r].ingest \in Ingests
    BY <1>2 DEF PagesTypeOK, UserInv, Decided, Goto, Busy
  <2> QED BY <1>2, <2>1 DEF Decided, TableSteps
<1>3. ASSUME NEW r \in Requests, Arrive(r) \/ ListPage(r) \/ Created(r) \/ BadInput(r) \/ Undecided(r)
                                    \/ Fails(r) \/ Requery(r) \/ LoadDetail(r)
      PROVE  UNCHANGED absVars
  BY <1>3 DEF Arrive, Authorize, ListPage, Created, BadInput, Undecided, Fails, Requery, LoadDetail
<1>4. ASSUME (\E s \in Sids, role \in Roles : Login(s, role)) \/ ClockIsSet \/ Restart
      PROVE  UNCHANGED absVars
  BY <1>4 DEF Login, ClockIsSet, Restart
<1>5. TableSteps
  BY <1>1, <1>2, <1>3, <1>4 DEF PagesNext, Handle, TableSteps, pageVars
<1> QED BY <1>5 DEF TableSteps, Next

(* Histories only grow, and what is decided never becomes pending again.   *)
Grown ==
    \A j \in Ingests :
       /\ Len(review[j]) \in Nat /\ Len(review'[j]) \in Nat
       /\ Len(review[j]) <= Len(review'[j])
       /\ \A n \in 1 .. Len(review[j]) : review'[j][n] = review[j][n]
       /\ \A n \in 0 .. Len(review[j]) : StateAfter(j, n)' = StateAfter(j, n)
       /\ Rows(j) \subseteq Rows(j)'
       /\ ingest[j] # "absent" =>
             ingest'[j] # "absent" /\ (ingest[j] # "pending" => ingest'[j] # "pending")

LEMMA SameGrown ==
    ASSUME TablesInv, review' = review,
           \A j \in Ingests : ingest[j] # "absent" => ingest'[j] = ingest[j]
    PROVE  Grown /\ Deciders' = Deciders
<1>1. \A j \in Ingests : review[j] \in Seq(ReviewRow)
  BY DEF TablesInv, TypeOK
<1>2. \A j \in Ingests, n \in Int : StateAfter(j, n)' = StateAfter(j, n)
  BY DEF StateAfter
<1> QED BY <1>1, <1>2 DEF Grown, Rows, Deciders

LEMMA DecideGrown ==
    ASSUME TablesInv, NEW r \in Requests, NEW i \in Ingests, NEW a \in Decisions, Decide(r, i, a)
    PROVE  /\ Grown
           /\ Deciders' = Deciders \cup {r} /\ r \notin Deciders
           /\ [action |-> a, by |-> r] \in Rows(i)'
<1> DEFINE row == [action |-> a, by |-> r]
<1>1. /\ ingest[i] \in States /\ a \in Allowed[ingest[i]]
      /\ \A j \in Ingests : ingest'[j] = IF j = i THEN NextState[a] ELSE ingest[j]
  BY DecideInv DEF TablesInv, Decisions, Actions
<1>2. NextState[a] \notin {"absent", "pending"}
  BY DEF NextState, Actions, Decisions
<1>3. /\ \A j \in Ingests : review[j] \in Seq(ReviewRow)
      /\ review'[i] = Append(review[i], row)
      /\ \A j \in Ingests \ {i} : review'[j] = review[j]
      /\ row \in ReviewRow /\ r \notin Deciders
  BY DEF TablesInv, TypeOK, Decide, ReviewRow, Decisions, Actions
<1>4. /\ Len(review'[i]) = Len(review[i]) + 1
      /\ \A n \in 1 .. Len(review[i]) : review'[i][n] = review[i][n]
      /\ review'[i][Len(review[i]) + 1] = row
      /\ DOMAIN review'[i] = 1 .. (Len(review[i]) + 1)
      /\ DOMAIN review[i] = 1 .. Len(review[i])
      /\ Len(review[i]) \in Nat
  BY <1>3
<1>5. ASSUME NEW j \in Ingests
      PROVE  /\ Len(review[j]) \in Nat /\ Len(review'[j]) \in Nat
             /\ Len(review[j]) <= Len(review'[j])
             /\ \A n \in 1 .. Len(review[j]) : review'[j][n] = review[j][n]
             /\ \A n \in 0 .. Len(review[j]) : StateAfter(j, n)' = StateAfter(j, n)
             /\ Rows(j) \subseteq Rows(j)'
  <2>1. CASE j = i
    BY <2>1, <1>4 DEF StateAfter, Rows
  <2>2. CASE j # i
    BY <2>2, <1>3 DEF StateAfter, Rows
  <2> QED BY <2>1, <2>2
<1>6. Grown
  BY <1>1, <1>2, <1>5 DEF Grown
<1>7. row \in Rows(i)'
  BY <1>4 DEF Rows
<1>8. Deciders' = Deciders \cup {r}
  <2>1. ASSUME NEW q \in Requests, q \in Deciders PROVE q \in Deciders'
    <3>0. PICK j \in Ingests : \E n \in DOMAIN review[j] : review[j][n].by = q
      BY <2>1 DEF Deciders
    <3>1. PICK n \in DOMAIN review[j] : review[j][n].by = q
      BY <3>0
    <3>2. n \in DOMAIN review'[j] /\ review'[j][n].by = q
      <4>1. CASE j = i BY <4>1, <3>1, <1>4
      <4>2. CASE j # i BY <4>2, <3>1, <1>3
      <4> QED BY <4>1, <4>2
    <3> QED BY <3>2 DEF Deciders
  <2>2. r \in Deciders'
    BY <1>4 DEF Deciders
  <2>3. ASSUME NEW q \in Requests, q \in Deciders' PROVE q \in Deciders \cup {r}
    <3>0. PICK j \in Ingests : \E n \in DOMAIN review'[j] : review'[j][n].by = q
      BY <2>3 DEF Deciders
    <3>1. PICK n \in DOMAIN review'[j] : review'[j][n].by = q
      BY <3>0
    <3>2. CASE j = i
      <4>1. CASE n = Len(review[i]) + 1 BY <4>1, <3>1, <3>2, <1>4
      <4>2. CASE n \in 1 .. Len(review[i]) BY <4>2, <3>1, <3>2, <1>4 DEF Deciders
      <4> QED BY <4>1, <4>2, <3>1, <3>2, <1>4
    <3>3. CASE j # i
      BY <3>3, <3>1, <1>3 DEF Deciders
    <3> QED BY <3>2, <3>3
  <2> QED BY <2>1, <2>2, <2>3 DEF Deciders
<1> QED BY <1>3, <1>6, <1>7, <1>8

LEMMA StepGrown ==
    ASSUME TablesInv, TableSteps
    PROVE  Grown
<1>1. CASE UNCHANGED absVars
  BY <1>1, SameGrown DEF absVars
<1>2. ASSUME NEW i \in Ingests, IngestCreate(i) PROVE Grown
  BY <1>2, SameGrown DEF IngestCreate, TablesInv, TypeOK
<1>3. ASSUME NEW r \in Requests, NEW i \in Ingests, Approve(r, i) \/ Reject(r, i) \/ Revoke(r, i)
      PROVE  Grown
  BY <1>3, DecideGrown DEF Approve, Reject, Revoke, Decisions
<1> QED BY <1>1, <1>2, <1>3 DEF TableSteps

-----------------------------------------------------------------------------
(* The steps, and what each part of the invariant makes of them.           *)

LEMMA FirstStepTyped ==
    ASSUME NEW route \in Routes
    PROVE  /\ FirstStep(route) \in {"list", "create", "decide", "state"}
           /\ FirstStep(route) = "decide" <=> route \in Decisions
           /\ FirstStep(route) = "create" <=> route = "create"
<1>1. CASE route \in Decisions
  BY <1>1 DEF FirstStep, Decisions
<1>2. CASE route \notin Decisions
  <2>1. FirstStep(route) = IF route = "create" THEN "create"
                           ELSE IF route = "detail" THEN "state" ELSE "list"
    BY <1>2 DEF FirstStep
  <2> QED BY <1>2, <2>1
<1> QED BY <1>1, <1>2

LEMMA TypeStep ==
    ASSUME PagesInv, [PagesNext]_pageVars, TypeOK'
    PROVE  PagesTypeOK'
<1>0. PagesTypeOK
  BY DEF PagesInv
<1> USE <1>0 DEF PagesTypeOK, PcValues, Entry, NoPage
<1>1. ASSUME NEW s \in Sids, NEW role \in Roles, Login(s, role) PROVE PagesTypeOK'
  BY <1>1 DEF Login, CreateSession, handlerVars
<1>2. CASE ClockIsSet
  BY <1>2 DEF ClockIsSet, ClockSet, handlerVars
<1>3. CASE Restart
  BY <1>3 DEF Restart, ForgetSessions
<1>4. ASSUME NEW r \in Requests, Arrive(r) PROVE PagesTypeOK'
  <2>1. PICK route \in Routes, i \in Ingests, s \in Sids \cup {NoSession} : Authorize(r, route, i, s)
    BY <1>4 DEF Arrive
  <2>2. FirstStep(route) \in PcValues
    BY FirstStepTyped
  <2>3. sessions' \in [Sids -> Entry \cup {NoSession}]
    BY <2>1 DEF Authorize, GetSession
  <2>4. user' \in [Requests -> {NoRow} \cup [role : Roles, sid : Sids]]
    BY <2>1 DEF Authorize, Known
  <2>5. req' \in [Requests -> {NoRow} \cup [route : Routes, ingest : Ingests,
                                            sid : Sids \cup {NoSession}]]
    BY <2>1 DEF Authorize
  <2>6. refused' \subseteq Sids
    BY <2>1 DEF Authorize
  <2>7. /\ pc' \in [Requests -> PcValues]
        /\ answer' \in [Requests -> {0, 200, 400, 401, 403, 404, 409, 500}]
    <3>1. CASE Answer(r, "new", 401)
      BY <3>1 DEF Answer
    <3>2. CASE Answer(r, "new", 403)
      BY <3>2 DEF Answer
    <3>3. CASE Goto(r, "new", FirstStep(route))
      BY <3>3, <2>2 DEF Goto
    <3> QED BY <2>1, <3>1, <3>2, <3>3 DEF Authorize
  <2> QED BY <2>1, <2>3, <2>4, <2>5, <2>6, <2>7 DEF Authorize
<1>5. ASSUME NEW r \in Requests,
             ListPage(r) \/ Created(r) \/ BadInput(r) \/ Fails(r) \/ Undecided(r) \/ Decided(r)
      PROVE  PagesTypeOK'
  <2>1. UNCHANGED <<sessionVars, req, user, shown, author>>
    BY <1>5 DEF ListPage, Created, BadInput, Fails, Undecided, Decided
  <2>2. /\ pc' \in [Requests -> PcValues]
        /\ answer' \in [Requests -> {0, 200, 400, 401, 403, 404, 409, 500}]
    BY <1>5 DEF ListPage, Created, BadInput, Fails, Undecided, Decided, Goto, Answer
  <2> QED BY <2>1, <2>2 DEF sessionVars
<1>6. ASSUME NEW r \in Requests, CreateIngest(r) PROVE PagesTypeOK'
  BY <1>6 DEF CreateIngest, Goto, sessionVars
<1>7. ASSUME NEW r \in Requests, Requery(r) \/ LoadDetail(r) PROVE PagesTypeOK'
  <2>1. req[r].ingest \in Ingests
    BY <1>7 DEF PagesInv, UserInv, Busy, Requery, LoadDetail, Answer
  <2>2. Rows(req[r].ingest) \subseteq ReviewRow
    BY <2>1 DEF TypeOK, Rows
  <2>3. ingest[req[r].ingest] \in States \cup {"absent"}
    BY <2>1 DEF TypeOK
  <2>6. Requery(r) => ingest[req[r].ingest] # "absent"
    <3>1. PICK i \in Ingests : i = req[r].ingest
      BY <2>1
    <3> QED BY <3>1 DEF PagesInv, PageInv, Reading, Requery, Answer
  <2>4. /\ pc' \in [Requests -> PcValues]
        /\ answer' \in [Requests -> {0, 200, 400, 401, 403, 404, 409, 500}]
    <3>1. CASE Requery(r) BY <3>1 DEF Requery, Answer
    <3>2. CASE LoadDetail(r)
      <4>1. \/ Goto(r, "state", "history") \/ Answer(r, "state", 404) \/ Answer(r, "history", 200)
        BY <3>2 DEF LoadDetail
      <4> QED BY <4>1 DEF Goto, Answer
    <3> QED BY <1>7, <3>1, <3>2
  <2>5. shown' \in [Requests -> [state : States \cup {"none"}, rows : SUBSET ReviewRow]]
    <3>1. CASE Requery(r)
      BY <3>1, <2>3, <2>6 DEF Requery, Answer
    <3>2. CASE LoadDetail(r)
      <4>1. \/ shown' = shown
            \/ ReadState(r) /\ ingest[req[r].ingest] # "absent"
            \/ ReadRows(r)
        BY <3>2 DEF LoadDetail
      <4>2. CASE ReadState(r) /\ ingest[req[r].ingest] # "absent"
        BY <4>2, <2>3 DEF ReadState
      <4>3. CASE ReadRows(r)
        BY <4>3, <2>2 DEF ReadRows
      <4> QED BY <4>1, <4>2, <4>3
    <3> QED BY <1>7, <3>1, <3>2
  <2>7. UNCHANGED <<sessionVars, req, user, author>>
    BY <1>7 DEF Requery, LoadDetail
  <2> QED BY <2>4, <2>5, <2>7 DEF PagesInv, sessionVars
<1>8. CASE UNCHANGED pageVars
  BY <1>8 DEF pageVars, sessionVars, handlerVars
<1> QED BY <1>1, <1>2, <1>3, <1>4, <1>5, <1>6, <1>7, <1>8 DEF PagesNext, Handle

(* The actions of a handler after it was let in.                           *)
Inside(r) ==
    \/ ListPage(r) \/ CreateIngest(r) \/ Created(r) \/ BadInput(r) \/ Decided(r) \/ Undecided(r)
    \/ Fails(r) \/ Requery(r) \/ LoadDetail(r)

LEMMA InsideKeeps ==
    ASSUME NEW r \in Requests, Inside(r)
    PROVE  UNCHANGED <<sessionVars, req, user>>
BY DEF Inside, ListPage, CreateIngest, Created, BadInput, Decided, Undecided, Fails, Requery, LoadDetail

LEMMA SessionStep ==
    ASSUME PagesInv, [PagesNext]_pageVars
    PROVE  SessionInv'
<1> USE DEF SessionInv, PagesTypeOK
<1>1. ASSUME NEW s \in Sids, NEW role \in Roles, Login(s, role) PROVE SessionInv'
  BY <1>1, PagesConstants DEF PagesInv, Login, CreateSession, Entry
<1>2. CASE ClockIsSet
  BY <1>2 DEF PagesInv, ClockIsSet, ClockSet
<1>3. CASE Restart
  BY <1>3 DEF PagesInv, Restart, ForgetSessions
<1>4. ASSUME NEW r \in Requests, Arrive(r) PROVE SessionInv'
  <2>1. PICK s \in {x \in Sids : issued[x] # NoRow} \cup {NoSession} :
             /\ IF s \in Sids THEN GetSession(s) ELSE UNCHANGED sessions
             /\ \/ ~Known(s) /\ refused' = refused \cup ({s} \cap Sids)
                \/ UNCHANGED refused
             /\ issued' = issued
    BY <1>4 DEF Arrive, Authorize
  <2>2. CASE s \in Sids
    BY <2>1, <2>2, SessionConstants DEF PagesInv, GetSession, Known
  <2>3. CASE s \notin Sids
    BY <2>1, <2>3 DEF PagesInv
  <2> QED BY <2>2, <2>3
<1>5. ASSUME NEW r \in Requests, Inside(r) PROVE SessionInv'
  BY <1>5, InsideKeeps DEF PagesInv, sessionVars
<1>6. CASE UNCHANGED pageVars
  BY <1>6 DEF PagesInv, pageVars, sessionVars
<1> QED BY <1>1, <1>2, <1>3, <1>4, <1>5, <1>6 DEF PagesNext, Handle, Inside

(* The sids that users came with are never issued anew.                    *)
LEMMA UserStep ==
    ASSUME PagesInv, [PagesNext]_pageVars
    PROVE  UserInv'
<1> USE DEF UserInv, PagesTypeOK, Busy
<1>1. ASSUME NEW s \in Sids, NEW role \in Roles, Login(s, role) PROVE UserInv'
  BY <1>1, PagesConstants DEF PagesInv, Login, handlerVars
<1>2. CASE ClockIsSet
  BY <1>2 DEF PagesInv, ClockIsSet, handlerVars
<1>3. CASE Restart
  BY <1>3 DEF PagesInv, Restart
<1>4. ASSUME NEW r \in Requests, Arrive(r) PROVE UserInv'
  <2>1. PICK route \in Routes, i \in Ingests, s \in Sids \cup {NoSession} : Authorize(r, route, i, s)
    BY <1>4 DEF Arrive
  <2>2. /\ req' = [req EXCEPT ![r] = [route |-> route, ingest |-> i, sid |-> s]]
        /\ req'[r] # NoRow /\ req'[r].route = route
        /\ issued' = issued /\ pc[r] = "new"
    BY <2>1, PagesConstants DEF PagesInv, Authorize, Goto, Answer
  <2>3. CASE /\ Answer(r, "new", 401) \/ Answer(r, "new", 403)
             /\ UNCHANGED user
    <3>1. /\ pc' = [pc EXCEPT ![r] = "done"]
          /\ \E n \in Int : answer' = [answer EXCEPT ![r] = n]
      BY <2>3 DEF Answer
    <3> QED BY <2>2, <2>3, <3>1 DEF PagesInv
  <2>4. CASE /\ Known(s) /\ Permits(sessions[s].role, Needed(route))
             /\ Goto(r, "new", FirstStep(route))
             /\ user' = [user EXCEPT ![r] = [role |-> sessions[s].role, sid |-> s]]
    <3>1. /\ s \in Sids /\ sessions[s] # NoSession /\ sessions[s].role \in Roles
          /\ issued[s] = sessions[s].role
      BY <2>4 DEF PagesInv, SessionInv, Known, Entry
    <3>2. /\ user'[r] # NoRow /\ issued'[user'[r].sid] = user'[r].role
          /\ route = "create" => user'[r].role = "admin"
      BY <2>2, <2>4, <3>1, PagesConstants DEF PagesInv, Permits, Needed
    <3>3. /\ pc'[r] = FirstStep(route) /\ answer' = answer /\ answer[r] = 0
          /\ \A q \in Requests \ {r} : pc'[q] = pc[q] /\ user'[q] = user[q] /\ req'[q] = req[q]
      BY <2>2, <2>4 DEF PagesInv, Goto
    <3> QED BY <2>2, <3>2, <3>3, FirstStepTyped DEF PagesInv
  <2> QED BY <2>1, <2>3, <2>4 DEF Authorize
<1>5. ASSUME NEW r \in Requests, Inside(r) PROVE UserInv'
  <2>1. UNCHANGED <<req, user, issued>>
    BY <1>5, InsideKeeps DEF sessionVars
  <2>2. \/ /\ pc' = [pc EXCEPT ![r] = "done"] /\ pc[r] \in Busy
           /\ answer' = answer \/ \E n \in Int : answer' = [answer EXCEPT ![r] = n]
        \/ /\ pc[r] = "decide" /\ UNCHANGED answer
           /\ pc' = [pc EXCEPT ![r] = "requery"] \/ pc' = [pc EXCEPT ![r] = "state"]
        \/ pc[r] = "create" /\ pc' = [pc EXCEPT ![r] = "created"] /\ UNCHANGED answer
        \/ pc[r] = "state" /\ pc' = [pc EXCEPT ![r] = "history"] /\ UNCHANGED answer
    BY <1>5 DEF Inside, ListPage, CreateIngest, Created, BadInput, Decided, Undecided, Fails, Requery,
                LoadDetail, Answer, Goto
  <2> QED BY <2>1, <2>2 DEF PagesInv
<1>6. CASE UNCHANGED pageVars
  BY <1>6 DEF PagesInv, pageVars, sessionVars, handlerVars
<1> QED BY <1>1, <1>2, <1>3, <1>4, <1>5, <1>6 DEF PagesNext, Handle, Inside

LEMMA AuthorStep ==
    ASSUME PagesInv, [PagesNext]_pageVars
    PROVE  AuthorInv'
<1> USE DEF AuthorInv, PagesTypeOK
<1>1. ASSUME NEW r \in Requests, Arrive(r) PROVE AuthorInv'
  <2>1. /\ UNCHANGED <<ingest, author>>
        /\ \A q \in Requests : user[q] # NoRow => user'[q] = user[q]
    BY <1>1 DEF PagesInv, UserInv, Arrive, Authorize, Goto, Answer, absVars
  <2> QED BY <2>1, PagesConstants DEF PagesInv
<1>2. ASSUME NEW r \in Requests, CreateIngest(r) PROVE AuthorInv'
  BY <1>2, PagesConstants DEF PagesInv, UserInv, Busy, CreateIngest, IngestCreate, Goto, TypeOK
<1>3. ASSUME NEW r \in Requests, Decided(r) PROVE AuthorInv'
  BY <1>3 DEF PagesInv, Decided, Approve, Reject, Revoke, Decide, TypeOK
<1>4. ASSUME UNCHANGED <<absVars, user, author>> PROVE AuthorInv'
  BY <1>4 DEF PagesInv, absVars
<1> QED BY <1>1, <1>2, <1>3, <1>4 DEF PagesNext, Handle, Login, ClockIsSet, Restart, handlerVars,
           ListPage, Created, BadInput, Undecided, Fails, Requery, LoadDetail, pageVars

LEMMA SameRows ==
    ASSUME review' = review
    PROVE  Deciders' = Deciders /\ \A i \in Ingests : Rows(i)' = Rows(i)
BY DEF Deciders, Rows

LEMMA DeciderStep ==
    ASSUME PagesInv, [PagesNext]_pageVars, Grown
    PROVE  DeciderInv'
<1> USE DEF DeciderInv, PagesTypeOK
<1>1. ASSUME UNCHANGED <<absVars, pc, req, user, answer>> PROVE DeciderInv'
  BY <1>1, SameRows DEF PagesInv, absVars, RequestRow
<1>2. CASE Restart
  <2>1. UNCHANGED <<review, req, user, answer>>
    BY <1>2 DEF Restart, absVars
  <2>2. \A q \in Requests : \/ pc'[q] = "new" /\ pc[q] = "new"
                            \/ pc'[q] = "done" /\ pc[q] # "new"
    BY <1>2 DEF PagesInv, Restart
  <2>3. \A q \in Requests : RequestRow(q)' = RequestRow(q)
    BY <2>1 DEF RequestRow
  <2> QED BY <2>1, <2>2, <2>3, SameRows DEF PagesInv
<1>3. ASSUME NEW r \in Requests, Arrive(r) PROVE DeciderInv'
  <2>1. PICK route \in Routes, i \in Ingests, s \in Sids \cup {NoSession} : Authorize(r, route, i, s)
    BY <1>3 DEF Arrive
  <2>2. /\ r \notin Deciders /\ Deciders' = Deciders
        /\ \A j \in Ingests : Rows(j)' = Rows(j)
        /\ req'[r].route = route
        /\ pc'[r] \in {"state", "history"} => route \notin Decisions
        /\ \A q \in Requests \ {r} : /\ pc'[q] = pc[q] /\ user'[q] = user[q]
                                     /\ req'[q] = req[q] /\ answer'[q] = answer[q]
    <3>1. pc[r] = "new" /\ review' = review
      BY <2>1 DEF Authorize, Goto, Answer, absVars
    <3>2. /\ r \notin Deciders /\ Deciders' = Deciders
          /\ \A j \in Ingests : Rows(j)' = Rows(j)
      BY <3>1 DEF PagesInv, Deciders, Rows
    <3>3. /\ req'[r].route = route
          /\ \A q \in Requests \ {r} : /\ pc'[q] = pc[q] /\ user'[q] = user[q]
                                       /\ req'[q] = req[q] /\ answer'[q] = answer[q]
      BY <2>1 DEF PagesInv, Authorize, Goto, Answer
    <3>4. pc'[r] = "done" \/ pc'[r] = FirstStep(route)
      BY <2>1 DEF PagesInv, Authorize, Goto, Answer
    <3> QED BY <3>2, <3>3, <3>4, FirstStepTyped
  <2> QED BY <2>2 DEF PagesInv, RequestRow
<1>4. ASSUME NEW r \in Requests, Decided(r) PROVE DeciderInv'
  <2>1. /\ req[r] # NoRow /\ user[r] # NoRow /\ req[r].ingest \in Ingests
        /\ req[r].route \in Decisions /\ answer[r] = 0
    BY <1>4 DEF PagesInv, UserInv, Busy, Decided, Goto
  <2>2. Decide(r, req[r].ingest, req[r].route)
    BY <1>4 DEF Decided, Approve, Reject, Revoke
  <2>3. PICK i \in Ingests : i = req[r].ingest
    BY <2>1
  <2>4. Deciders' = Deciders \cup {r} /\ RequestRow(r) \in Rows(i)'
    BY <2>1, <2>2, <2>3, DecideGrown DEF PagesInv, RequestRow
  <2>5. UNCHANGED <<req, user, answer>> /\ pc' = [pc EXCEPT ![r] = "state"]
    BY <1>4 DEF Decided, Goto
  <2>6. \A q \in Requests : RequestRow(q)' = RequestRow(q)
    BY <2>5 DEF RequestRow
  <2>7. \A q \in Deciders, j \in Ingests : req[q].ingest = j => RequestRow(q) \in Rows(j)'
    BY DEF PagesInv, Grown, Deciders
  <2> QED BY <2>1, <2>3, <2>4, <2>5, <2>6, <2>7 DEF PagesInv
<1>5. ASSUME NEW r \in Requests,
             ListPage(r) \/ CreateIngest(r) \/ Created(r) \/ BadInput(r) \/ Undecided(r)
               \/ Fails(r) \/ Requery(r) \/ LoadDetail(r)
      PROVE  DeciderInv'
  <2>1. UNCHANGED <<req, user, review>>
    BY <1>5 DEF ListPage, CreateIngest, Created, BadInput, Undecided, Fails, Requery, LoadDetail,
                IngestCreate, absVars
  <2>2. /\ Deciders' = Deciders
        /\ \A i \in Ingests : Rows(i)' = Rows(i)
        /\ \A q \in Requests : RequestRow(q)' = RequestRow(q)
    BY <2>1, SameRows DEF RequestRow
  <2>3. \A q \in Deciders : q \in Requests
    BY DEF Deciders
  <2>4. pc[r] \in {"state", "history"} /\ r \in Deciders => ingest[req[r].ingest] # "absent"
    <3> SUFFICES ASSUME r \in Deciders PROVE ingest[req[r].ingest] # "absent"
      OBVIOUS
    <3>1. PICK i \in Ingests : i = req[r].ingest
      BY DEF PagesInv
    <3>2. RequestRow(r) \in Rows(i)
      BY <3>1 DEF PagesInv
    <3>3. ingest[i] = "absent" => Rows(i) = {}
      <4>1. ingest[i] = "absent" => review[i] = << >>
        BY DEF PagesInv, TablesInv, HistoryExplainsState
      <4>2. review[i] = << >> => DOMAIN review[i] = {}
        OBVIOUS
      <4> QED BY <4>1, <4>2 DEF Rows
    <3> QED BY <3>1, <3>2, <3>3
  <2>5. /\ \A q \in Requests \ {r} : pc'[q] = pc[q] /\ answer'[q] = answer[q]
        /\ \/ pc'[r] = "requery" /\ pc[r] = "decide" /\ answer'[r] = answer[r]
           \/ pc'[r] = "created" /\ pc[r] = "create" /\ answer'[r] = answer[r]
           \/ pc'[r] = "history" /\ pc[r] = "state" /\ answer'[r] = answer[r]
           \/ pc'[r] = "done" /\ answer'[r] \in {200, 500}
           \/ pc'[r] = "done" /\ pc[r] \in {"list", "create", "decide", "requery"}
           \/ pc'[r] = "done" /\ pc[r] = "state" /\ ingest[req[r].ingest] = "absent"
    BY <1>5 DEF PagesInv, ListPage, CreateIngest, Created, BadInput, Undecided, Fails, Requery, LoadDetail,
                Goto, Answer
  <2>6. ASSUME NEW q \in Requests, q \in Deciders
        PROVE  \A i \in Ingests : req[q].ingest = i => RequestRow(q)' \in Rows(i)'
    BY <2>2, <2>6 DEF PagesInv
  <2>7. ASSUME NEW q \in Requests, q \in Deciders
        PROVE  pc'[q] \in {"state", "history", "done"} /\ answer'[q] \notin 400 .. 499
    BY <2>4, <2>5, <2>7 DEF PagesInv
  <2>8. ASSUME NEW q \in Requests, pc'[q] \in {"state", "history"}, req[q].route \in Decisions
        PROVE  q \in Deciders
    BY <2>5, <2>8 DEF PagesInv
  <2>9. ASSUME NEW q \in Requests, q \in Deciders
        PROVE  user[q] # NoRow /\ req[q] # NoRow /\ req[q].route \in Decisions
    BY <2>9 DEF PagesInv
  <2> QED BY <2>1, <2>2, <2>6, <2>7, <2>8, <2>9
<1> QED BY <1>1, <1>2, <1>3, <1>4, <1>5 DEF PagesNext, Handle, Login, ClockIsSet, handlerVars, pageVars

(* A page that is not being worked on stays true while histories grow.     *)
LEMMA PageKept ==
    ASSUME PagesInv, Grown, NEW q \in Requests,
           pc'[q] = pc[q] \/ pc'[q] \notin Busy \cup {"new"},
           req'[q] = req[q], shown'[q] = shown[q], answer'[q] = answer[q]
    PROVE  /\ Blank(q)' /\ Names(q)' /\ Own(q)'
           /\ \A i \in Ingests : req'[q].ingest = i => Reading(q, i)' /\ Shows(q, i)'
<1>1. Blank(q)' /\ Names(q)' /\ Own(q)'
  <2>1. Blank(q) /\ Names(q) /\ Own(q)
    BY DEF PagesInv, PageInv
  <2> QED BY <2>1 DEF Blank, Names, Own, RequestRow, Busy
<1>2. ASSUME NEW i \in Ingests, req[q].ingest = i
      PROVE  Reading(q, i)' /\ Shows(q, i)'
  <2>1. Reading(q, i) /\ Shows(q, i)
    BY <1>2 DEF PagesInv, PageInv
  <2>2. Reading(q, i)'
    BY <2>1 DEF Reading, Grown, Busy
  <2>3. Shows(q, i)'
    <3> SUFFICES ASSUME answer[q] = 200, shown[q].state # "none"
                 PROVE  \E m \in 0 .. Len(review'[i]) :
                           /\ shown[q].rows = {review'[i][n] : n \in 1 .. m}
                           /\ \E n \in 0 .. m : shown[q].state = StateAfter(i, n)'
      BY DEF Shows
    <3>1. PICK m \in 0 .. Len(review[i]) :
                 /\ shown[q].rows = {review[i][n] : n \in 1 .. m}
                 /\ \E n \in 0 .. m : shown[q].state = StateAfter(i, n)
      BY <2>1 DEF Shows
    <3>2. /\ m \in 0 .. Len(review'[i])
          /\ \A n \in 1 .. m : review'[i][n] = review[i][n]
          /\ \A n \in 0 .. m : StateAfter(i, n)' = StateAfter(i, n)
      BY <3>1 DEF Grown
    <3>3. {review'[i][n] : n \in 1 .. m} = {review[i][n] : n \in 1 .. m}
      BY <3>2
    <3>4. \E n \in 0 .. m : shown[q].state = StateAfter(i, n)'
      BY <3>1, <3>2
    <3>5. shown[q].rows = {review'[i][n] : n \in 1 .. m}
      BY <3>1, <3>3
    <3> QED BY <3>2, <3>4, <3>5
  <2> QED BY <2>2, <2>3
<1> QED BY <1>1, <1>2

LEMMA PageStep ==
    ASSUME PagesInv, [PagesNext]_pageVars, Grown
    PROVE  PageInv'
<1> USE DEF PagesTypeOK
<1>1. ASSUME UNCHANGED <<pc, req, shown, answer>> PROVE PageInv'
  BY <1>1, PageKept DEF PageInv
<1>2. CASE Restart
  <2>1. \A q \in Requests : pc'[q] = pc[q] \/ pc'[q] \notin Busy \cup {"new"}
    BY <1>2 DEF PagesInv, Restart, Busy
  <2> QED BY <1>2, <2>1, PageKept DEF Restart, PageInv
<1>3. ASSUME NEW r \in Requests, Handle(r) PROVE PageInv'
  <2>1. ASSUME NEW q \in Requests \ {r}
        PROVE  /\ Blank(q)' /\ Names(q)' /\ Own(q)'
               /\ \A i \in Ingests : req'[q].ingest = i => Reading(q, i)' /\ Shows(q, i)'
    <3>1. /\ pc'[q] = pc[q] /\ req'[q] = req[q] /\ shown'[q] = shown[q] /\ answer'[q] = answer[q]
      BY <1>3 DEF PagesInv, Handle, Arrive, Authorize, ListPage, CreateIngest, Created, BadInput, Decided,
                  Undecided, Fails, Requery, LoadDetail, ReadState, ReadRows, Goto, Answer
    <3> QED BY <3>1, PageKept
  <2>2. /\ Blank(r)' /\ Names(r)' /\ Own(r)'
        /\ \A i \in Ingests : req'[r].ingest = i => Reading(r, i)' /\ Shows(r, i)'
    <3>0. PagesTypeOK /\ Blank(r) /\ Own(r)
      BY DEF PagesInv, PageInv
    <3>a. /\ pc[r] \in Busy => /\ req[r] # NoRow /\ user[r] # NoRow /\ answer[r] = 0
                               /\ req[r].ingest \in Ingests
          /\ pc[r] \in {"list", "create", "created"} => req[r].route \notin Decisions
          /\ pc[r] \in {"decide", "requery"} => req[r].route \in Decisions
      BY DEF PagesInv, UserInv, Busy
    <3>1. CASE Arrive(r)
      <4>1. /\ pc[r] = "new" /\ shown' = shown
            /\ \/ pc'[r] = "done" /\ answer'[r] \in {401, 403}
               \/ /\ answer'[r] = answer[r]
                  /\ \E route \in Routes : pc'[r] = FirstStep(route)
        BY <3>0, <3>1 DEF Arrive, Authorize, Goto, Answer
      <4>2. answer[r] = 0
        BY <4>1 DEF PagesInv, UserInv
      <4>3. pc'[r] \in {"done", "list", "create", "decide", "state"}
        BY <4>1, FirstStepTyped
      <4> QED BY <3>0, <4>1, <4>2, <4>3 DEF Blank, Names, Own, Reading, Shows, Busy
    <3>2. CASE ListPage(r) \/ CreateIngest(r) \/ Created(r) \/ BadInput(r)
      <4>1. /\ shown' = shown /\ req' = req
            /\ \/ pc'[r] = "created" /\ pc[r] = "create" /\ answer' = answer
               \/ /\ pc'[r] = "done" /\ pc[r] \in {"list", "create", "created", "decide"}
                  /\ \/ answer'[r] \in {400, 404}
                     \/ answer'[r] = 200 /\ pc[r] \in {"list", "created"}
        BY <3>0, <3>2 DEF ListPage, CreateIngest, Created, BadInput, Goto, Answer
      <4> QED BY <3>0, <3>a, <4>1 DEF Blank, Names, Own, Reading, Shows, Busy, NoPage
    <3>3. CASE Decided(r)
      <4>1. /\ pc[r] = "decide" /\ pc'[r] = "state" /\ UNCHANGED <<answer, shown, req>>
        BY <3>0, <3>3 DEF Decided, Goto
      <4> QED BY <3>0, <3>a, <4>1 DEF Blank, Names, Own, Reading, Shows, Busy
    <3>4. CASE Undecided(r)
      <4>1. /\ UNCHANGED <<shown, req, ingest>> /\ pc[r] = "decide"
            /\ \/ pc'[r] = "done" /\ answer'[r] = 404
               \/ /\ pc'[r] = "requery" /\ answer' = answer
                  /\ ingest[req[r].ingest] # "absent"
                  /\ req[r].route \notin Allowed[ingest[req[r].ingest]]
        BY <3>0, <3>4 DEF Undecided, Goto, Answer, absVars
      <4>2. /\ Allowed["pending"] = {"approve", "reject"}
            /\ req[r].route \in Decisions
        BY <3>a, <4>1 DEF Allowed, States
      <4> QED BY <3>0, <3>a, <4>1, <4>2 DEF Blank, Names, Own, Reading, Shows, Busy, Decisions
    <3>5. CASE Fails(r)
      <4>1. /\ UNCHANGED <<shown, req>> /\ pc'[r] = "done" /\ answer'[r] = 500
        BY <3>0, <3>5 DEF Fails, Answer
      <4> QED BY <4>1 DEF Blank, Names, Own, Reading, Shows, Busy
    <3>6. CASE Requery(r)
      <4>1. /\ pc[r] = "requery" /\ pc'[r] = "done" /\ answer'[r] = 409 /\ UNCHANGED <<req, ingest>>
            /\ shown'[r].state = ingest[req[r].ingest]
        BY <3>0, <3>6 DEF Requery, Answer, absVars
      <4>2. PICK i \in Ingests : i = req[r].ingest
        BY <3>a, <4>1 DEF Busy
      <4>3. /\ ingest[i] \in States
            /\ req[r].route # "revoke" => ingest[i] # "pending"
        <5>1. Reading(r, i)
          BY <4>2 DEF PagesInv, PageInv
        <5>2. ingest[i] \in States \cup {"absent"}
          BY <3>0 DEF TypeOK
        <5> QED BY <4>1, <4>2, <5>1, <5>2 DEF Reading
      <4>4. req[r].route \in Decisions
        BY <3>a, <4>1
      <4>5. Names(r)'
        BY <4>1, <4>2, <4>3, <4>4 DEF Names, Decisions, Allowed, States
      <4> QED BY <4>1, <4>5 DEF Blank, Own, Reading, Shows, Busy
    <3>7. CASE LoadDetail(r)
      <4>1. /\ UNCHANGED <<req, review, ingest>> /\ pc[r] \in {"state", "history"}
        BY <3>7 DEF LoadDetail, absVars
      <4>2. PICK i \in Ingests : i = req[r].ingest
        BY <3>a, <4>1 DEF Busy
      <4>3. \A n \in Int : StateAfter(i, n)' = StateAfter(i, n)
        BY <4>1 DEF StateAfter
      <4>4. /\ Len(review[i]) \in Nat /\ ingest[i] \in States \cup {"absent"}
            /\ ingest[i] # "absent" => ingest[i] = StateAfter(i, Len(review[i]))
            /\ Reading(r, i)
        BY <4>2 DEF PagesInv, PageInv, TablesInv, HistoryExplainsState, TypeOK
      <4>5. CASE Goto(r, "state", "history") /\ ingest[i] # "absent" /\ ReadState(r)
        <5>1. /\ pc'[r] = "history" /\ answer'[r] = 0 /\ shown'[r].state = ingest[i]
          BY <3>0, <3>a, <4>2, <4>5 DEF Goto, ReadState, Busy
        <5>2. \E n \in 0 .. Len(review[i]) : shown'[r].state = StateAfter(i, n)'
          BY <4>3, <4>4, <4>5, <5>1
        <5> QED BY <4>1, <4>2, <5>1, <5>2 DEF Blank, Names, Own, Reading, Shows, Busy
      <4>6. CASE Answer(r, "state", 404)
        BY <3>0, <4>6 DEF Answer, Blank, Names, Own, Reading, Shows, Busy
      <4>7. CASE Answer(r, "history", 200) /\ ReadRows(r)
        <5>1. /\ pc[r] = "history" /\ pc'[r] = "done" /\ answer'[r] = 200
              /\ shown'[r].state = shown[r].state /\ shown'[r].rows = Rows(i)
          BY <3>0, <4>2, <4>7 DEF Answer, ReadRows
        <5>2. DOMAIN review[i] = 1 .. Len(review[i])
          BY <4>2, <3>0 DEF TypeOK
        <5>3. Shows(r, i)'
          <6>1. \E n \in 0 .. Len(review[i]) : shown'[r].state = StateAfter(i, n)'
            BY <5>1, <4>3, <4>4 DEF Reading
          <6>2. shown'[r].rows = {review'[i][n] : n \in 1 .. Len(review[i])}
            BY <5>1, <5>2, <4>1 DEF Rows
          <6> QED BY <4>1, <4>4, <6>1, <6>2 DEF Shows
        <5>4. req[r].route \in Decisions => RequestRow(r) \in shown'[r].rows
          BY <5>1, <4>2 DEF PagesInv, DeciderInv
        <5> QED BY <4>1, <4>2, <5>1, <5>3, <5>4 DEF Blank, Names, Own, RequestRow, Reading, Busy
      <4> QED BY <3>7, <4>2, <4>5, <4>6, <4>7 DEF LoadDetail
    <3> QED BY <1>3, <3>1, <3>2, <3>3, <3>4, <3>5, <3>6, <3>7 DEF Handle
  <2> QED BY <2>1, <2>2 DEF PageInv
<1> QED BY <1>1, <1>2, <1>3 DEF PagesNext, Login, ClockIsSet, handlerVars, pageVars

-----------------------------------------------------------------------------
LEMMA PagesInitInv == PagesInit => PagesInv
<1> SUFFICES ASSUME PagesInit PROVE PagesInv
  OBVIOUS
<1>1. TablesInv
  BY TablesInitInv DEF PagesInit
<1>2. PagesTypeOK
  BY <1>1 DEF PagesInit, SessionInit, PagesTypeOK, TablesInv, NoPage, PcValues
<1>3. SessionInv /\ UserInv /\ AuthorInv
  BY PagesConstants DEF PagesInit, SessionInit, Init, SessionInv, UserInv, AuthorInv, Busy
<1>4. \A i \in Ingests : review[i] = << >>
  BY DEF PagesInit, Init
<1>5. DeciderInv
  BY <1>4 DEF PagesInit, DeciderInv, Deciders
<1>6. PageInv
  BY DEF PagesInit, PageInv, Blank, Names, Own, Reading, Shows, Busy
<1> QED BY <1>1, <1>2, <1>3, <1>5, <1>6 DEF PagesInv

LEMMA PagesStepInv == PagesInv /\ [PagesNext]_pageVars => PagesInv'
<1> SUFFICES ASSUME PagesInv, [PagesNext]_pageVars PROVE PagesInv'
  OBVIOUS
<1>1. TableSteps /\ [Next]_absVars
  BY PagesRefine DEF PagesInv
<1>2. TablesInv' /\ TypeOK'
  BY <1>1, TablesStepInv DEF PagesInv, TablesInv
<1>3. Grown
  BY <1>1, StepGrown DEF PagesInv
<1> QED BY <1>2, <1>3, TypeStep, SessionStep, UserStep, AuthorStep, DeciderStep, PageStep DEF PagesInv

LEMMA PagesInvSafe == PagesInv => ActedByRole /\ PageCoherent /\ OwnDecisionShown /\ ConflictNamed
<1> SUFFICES ASSUME PagesInv PROVE ActedByRole /\ PageCoherent /\ OwnDecisionShown /\ ConflictNamed
  OBVIOUS
<1>1. ActedByRole
  <2>1. ASSUME NEW i \in Ingests, ingest[i] # "absent"
        PROVE  author[i] # NoRow /\ issued[user[author[i]].sid] = "admin"
    <3>1. author[i] \in Requests /\ user[author[i]] # NoRow /\ user[author[i]].role = "admin"
      BY <2>1 DEF PagesInv, PagesTypeOK, AuthorInv
    <3> QED BY <3>1, PagesConstants DEF PagesInv, UserInv
  <2>2. \A r \in Deciders : user[r] # NoRow /\ issued[user[r].sid] = user[r].role
    BY DEF PagesInv, DeciderInv, UserInv, Deciders
  <2> QED BY <2>1, <2>2 DEF ActedByRole
<1>2. PageCoherent
  <2> SUFFICES ASSUME NEW r \in Requests, answer[r] = 200, shown[r].state # "none"
               PROVE  \E m \in 0 .. Len(review[req[r].ingest]) :
                         /\ shown[r].rows = {review[req[r].ingest][n] : n \in 1 .. m}
                         /\ \E n \in 0 .. m : shown[r].state = StateAfter(req[r].ingest, n)
    BY DEF PageCoherent
  <2>1. PICK i \in Ingests : i = req[r].ingest
    BY DEF PagesInv, PagesTypeOK, UserInv
  <2>2. Shows(r, i)
    BY <2>1 DEF PagesInv, PageInv
  <2> QED BY <2>1, <2>2 DEF Shows
<1>3. OwnDecisionShown
  BY DEF PagesInv, PageInv, Own, DeciderInv, OwnDecisionShown, RequestRow
<1>4. ConflictNamed
  BY DEF PagesInv, PageInv, Names, ConflictNamed
<1> QED BY <1>1, <1>2, <1>3, <1>4

(* Sessions, handlers and pages keep their types.                          *)
THEOREM PagesTypeCorrect == PagesSpec => []PagesTypeOK
<1>1. PagesInv => PagesTypeOK
  BY DEF PagesInv
<1> QED BY <1>1, PagesInitInv, PagesStepInv, PTL DEF PagesSpec

LEMMA PagesSafety ==
    PagesSpec => [](ActedByRole /\ PageCoherent /\ OwnDecisionShown /\ ConflictNamed)
BY PagesInitInv, PagesStepInv, PagesInvSafe, PTL DEF PagesSpec

(* Whatever is in the tables was put there by a login of a sufficient      *)
(* role.                                                                   *)
THEOREM PagesRoles == PagesSpec => []ActedByRole
BY PagesSafety, PTL

(* A page shows a beginning of the history and a state on the way there,   *)
(* although it is put together from two reads.                             *)
THEOREM PagesCoherent == PagesSpec => []PageCoherent
BY PagesSafety, PTL

(* The page behind a decision shows that decision, and a refusal means     *)
(* that there is none.                                                     *)
THEOREM PagesOwnDecision == PagesSpec => []OwnDecisionShown
BY PagesSafety, PTL

(* A 409 names a state that forbids the action, but for a revoke that an   *)
(* approval overtook.                                                      *)
THEOREM PagesConflict == PagesSpec => []ConflictNamed
BY PagesSafety, PTL

(* The routes change the tables as ReviewSpec does, or leave them alone.   *)
THEOREM PagesImplementTables == PagesSpec => Spec
<1>1. PagesInit => Init
  BY DEF PagesInit
<1>2. PagesInv /\ [PagesNext]_pageVars => [Next]_absVars
  BY PagesRefine DEF PagesInv
<1> QED BY <1>1, <1>2, PagesInitInv, PagesStepInv, PTL DEF PagesSpec, Spec

(* A session that does not count any more never counts again.              *)
THEOREM PagesRefuse == PagesSpec => RefusedForGood
<1>1. ASSUME PagesInv, [PagesNext]_pageVars
      PROVE  [\A r \in Requests : user'[r] # user[r] => user'[r].sid \notin refused]_pageVars
  <2> SUFFICES ASSUME NEW q \in Requests, user'[q] # user[q]
               PROVE  user'[q].sid \notin refused
    OBVIOUS
  <2>1. ASSUME NEW r \in Requests, Arrive(r) PROVE user'[q].sid \notin refused
    <3>1. PICK route \in Routes, i \in Ingests, s \in Sids \cup {NoSession} : Authorize(r, route, i, s)
      BY <2>1 DEF Arrive
    <3>2. /\ Known(s) /\ user' = [user EXCEPT ![r] = [role |-> sessions[s].role, sid |-> s]]
      BY <3>1 DEF Authorize
    <3>3. s \in Sids /\ s \notin refused
      <4>1. s \in Sids /\ sessions[s] # NoSession
        BY <3>2 DEF Known
      <4>2. SessionInv
        BY <1>1 DEF PagesInv
      <4> QED BY <4>1, <4>2 DEF SessionInv
    <3>4. q = r /\ user'[q].sid = s
      BY <1>1, <3>2 DEF PagesInv, PagesTypeOK
    <3> QED BY <3>3, <3>4
  <2>2. ASSUME NEW r \in Requests, Inside(r) PROVE FALSE
    BY <2>2, InsideKeeps
  <2>3. user' # user
    OBVIOUS
  <2>4. PagesNext
    BY <1>1, <2>3 DEF pageVars, handlerVars
  <2>5. \E r \in Requests : Handle(r)
    BY <2>3, <2>4 DEF PagesNext, Login, ClockIsSet, Restart, handlerVars
  <2> QED BY <2>1, <2>2, <2>5 DEF Handle, Inside
<1> QED BY <1>1, PagesInitInv, PagesStepInv, PTL DEF PagesSpec, RefusedForGood
=============================================================================
