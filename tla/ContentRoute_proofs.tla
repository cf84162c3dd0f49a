------------------------- MODULE ContentRoute_proofs ------------------------
(***************************************************************************)
(* Proofs about ContentRoute: for any requests, policies and catalogue,    *)
(* and however their changes and failing reads fall among the awaits of a  *)
(* handler, no check can be passed by.                                     *)
(***************************************************************************)
EXTENDS ContentRoute, FiniteSetTheorems, SequenceTheorems, TLAPS

-----------------------------------------------------------------------------
(* The inductive invariant.  Which checks lie behind the handler:          *)
Early == {"new", "verify", "jwt", "lookup"}

TokenPassed  == IamConfigured /\ req.token # "none" => verified
HandlePassed ==
    req.handle # None => req.caller = "cloud-ext" /\ req.handle.source = "^cloud:"
CapPassed    == req.cap # None => req.kind \in req.cap.kinds
CallerPassed == path.backend = "third_party_api" => req.caller = "cloud-ext"

(* Content or a call: whatever was to be kept from a refused request. *)
Used == Delivered \/ called # None

CallBound ==
    called # None => /\ req.caller = "cloud-ext"
                     /\ called.handle.source = "^backend:"
                     /\ called.handle.provider \in {called.provider, None}

Shape ==
    /\ pc \in {"new", "verify", "jwt", "lookup", "authorize", "path", "row", "capability",
               "drm", "serve", "done"}
    /\ pc = "new" <=> req = None
    /\ req \in Requests \cup {None}
    /\ pc # "done" => answer = None /\ called = None

Admitted ==
    /\ (pc \notin Early \cup {"done"} \/ Used) => TokenPassed
    /\ (pc \in {"path", "row", "capability", "drm", "serve"} \/ Used) => HandlePassed
    /\ (pc \in {"drm", "serve"} \/ Used) => CapPassed
    /\ pc \in {"row", "capability", "drm", "serve"} => CallerPassed
    /\ CallBound

(* A moment without restriction is noticed, and the guard waits for one.   *)
Noticed ==
    /\ pc \notin {"new", "done"} /\ ~Restricts(Active, req) => lapsed
    /\ pc = "serve" \/ Used => lapsed

Stopped == failed => pc = "done" /\ ~Used

IInv == Shape /\ Admitted /\ Noticed /\ Stopped

-----------------------------------------------------------------------------
LEMMA InitInv == Init => IInv
  BY DEF Init, IInv, Shape, Admitted, Noticed, Stopped, Used, Delivered, CallBound, Early

(* checkDrm allows exactly what no row restricts. *)
LEMMA DrmComplete ==
  ASSUME NEW policies, NEW q
  PROVE  DrmErrors(policies, q) = {} <=> ~Restricts(policies, q)
  BY DEF DrmErrors, Restricts

(* A refusal never delivers. *)
LEMMA RefusalKeeps ==
  ASSUME NEW status, NEW error \in ErrorCodes, Reply(status, Refusal(error))
  PROVE  pc' = "done" /\ ~Delivered'
  <1>1. Refusal(error).error = error /\ error # NoError
    BY DEF Refusal, WrapEnvelope, CompletionState, ErrorCodes, NoError
  <1>2. CASE Conforms(Refusal(error))
    BY <1>1, <1>2 DEF Reply, Delivered
  <1>3. CASE ~Conforms(Refusal(error))
    BY <1>3 DEF Reply, ServerError, Delivered
  <1> QED BY <1>2, <1>3

LEMMA ThrowKeeps ==
  ASSUME Throw
  PROVE  pc' = "done" /\ ~Delivered'
  BY DEF Throw, ServerError, Delivered

(* A step of the handler that ends in a refusal keeps the invariant. *)
LEMMA EndKeeps ==
  ASSUME IInv, pc # "new", pc' = "done", ~Delivered', called' = None,
         req' = req
  PROVE  IInv'
  BY DEF IInv, Shape, Admitted, Noticed, Stopped, Used, CallBound, Early

(* A step past the guard may deliver or call: every check lies behind it. *)
LEMMA UseKeeps ==
  ASSUME IInv, pc = "serve", pc' = "done", UNCHANGED <<tables, req, decided, lapsed, failed>>,
         CallBound'
  PROVE  IInv'
  BY DEF IInv, Shape, Admitted, Noticed, Stopped, Used, Delivered, CallBound, Early,
         TokenPassed, HandlePassed, CapPassed, CallerPassed, Active, Policies!InForce, Restricts, tables, decided

LEMMA ReplyEnds ==
  ASSUME NEW body, NEW backend, NEW mode, NEW outcome, NEW error,
         Finish(body, backend, mode, outcome, error) \/ Throw
  PROVE  pc' = "done"
  BY DEF Finish, Send, Reply, Throw

LEMMA BeforeEnd ==
  ASSUME IInv, pc # "done"
  PROVE  answer = None /\ called = None /\ ~failed /\ ~Used
  BY DEF IInv, Shape, Stopped, Used, Delivered

-----------------------------------------------------------------------------
(* The steps of the handler.                                               *)
LEMMA ArriveInv == ASSUME IInv, Arrive PROVE IInv'
  <1>1. PICK q \in Requests : req' = q /\ lapsed' = ~Restricts(Active, q)
    BY DEF Arrive
  <1>2. /\ pc = "new" /\ pc' = "verify" /\ answer' = answer
        /\ UNCHANGED <<tables, decided, called, failed>>
    BY DEF Arrive, Goto
  <1>3. answer = None /\ called = None /\ ~failed /\ q # None
    BY <1>2, BeforeEnd, RouteConstants
  <1> QED
    BY <1>1, <1>2, <1>3
    DEF IInv, Shape, Admitted, Noticed, Stopped, Used, Delivered, CallBound, Early,
        Active, Policies!InForce, Restricts, tables, decided

LEMMA VerifyEnvelopeInv == ASSUME IInv, VerifyEnvelope PROVE IInv'
  <1> /\ pc = "verify" /\ answer = None /\ called = None /\ ~failed
      /\ UNCHANGED <<tables, req, decided, called, lapsed, failed>>
    BY BeforeEnd DEF VerifyEnvelope
  <1>1. CASE RefuseToken(400, "INVALID_ENVELOPE")
    BY <1>1, RefusalKeeps, EndKeeps DEF RefuseToken, ErrorCodes
  <1>2. CASE Goto("jwt")
    BY <1>2 DEF Goto, IInv, Shape, Admitted, Noticed, Stopped, Used, Delivered, CallBound,
                Early, Active, Policies!InForce, Restricts, tables, decided
  <1>3. CASE (IamConfigured => req.token = "none") /\ Goto("authorize")
    BY <1>3 DEF Goto, IInv, Shape, Admitted, Noticed, Stopped, Used, Delivered, CallBound,
                Early, Active, Policies!InForce, Restricts, tables, decided, TokenPassed
  <1> QED BY <1>1, <1>2, <1>3 DEF VerifyEnvelope

LEMMA VerifyTokenInv == ASSUME IInv, VerifyToken PROVE IInv'
  <1> /\ pc = "jwt" /\ answer = None /\ called = None /\ ~failed
      /\ UNCHANGED <<tables, req, decided, called, lapsed, failed>>
    BY BeforeEnd DEF VerifyToken
  <1>1. CASE Goto("lookup")
    BY <1>1 DEF Goto, IInv, Shape, Admitted, Noticed, Stopped, Used, Delivered, CallBound,
                Early, Active, Policies!InForce, Restricts, tables, decided
  <1>2. ASSUME NEW status, NEW error \in ErrorCodes, RefuseToken(status, error) PROVE IInv'
    BY <1>2, RefusalKeeps, EndKeeps DEF RefuseToken
  <1>3. "INVALID_TOKEN" \in ErrorCodes /\ "JWKS_UNAVAILABLE" \in ErrorCodes
    BY DEF ErrorCodes
  <1> QED BY <1>1, <1>2, <1>3 DEF VerifyToken

LEMMA LookupBindingInv == ASSUME IInv, LookupBinding PROVE IInv'
  <1> /\ pc = "lookup" /\ answer = None /\ called = None /\ ~failed
      /\ UNCHANGED <<tables, req, path, called, lapsed, failed>>
    BY BeforeEnd DEF LookupBinding
  <1>1. CASE verified' = TRUE /\ Goto("authorize")
    BY <1>1 DEF Goto, IInv, Shape, Admitted, Noticed, Stopped, Used, Delivered, CallBound,
                Early, Active, Policies!InForce, Restricts, tables, TokenPassed
  <1>2. ASSUME NEW status, NEW error \in ErrorCodes, RefuseToken(status, error) PROVE IInv'
    BY <1>2, RefusalKeeps, EndKeeps DEF RefuseToken
  <1>3. "DEVICE_NOT_BOUND" \in ErrorCodes /\ "LOOKUP_UNAVAILABLE" \in ErrorCodes
    BY DEF ErrorCodes
  <1> QED BY <1>1, <1>2, <1>3 DEF LookupBinding

(* The matrix admits inbound callers for what is theirs only. *)
LEMMA InboundHandle ==
  ASSUME NEW raw, NEW source, <<InboundCaller(raw), source>> \in AllowMatrix
  PROVE  raw = "cloud-ext" /\ source = "^cloud:"
  BY DEF InboundCaller, AllowMatrix

LEMMA ReceiveAndAuthorizeInv == ASSUME IInv, ReceiveAndAuthorize PROVE IInv'
  <1> /\ pc = "authorize" /\ answer = None /\ called = None /\ ~failed
      /\ UNCHANGED <<tables, req, decided, called, lapsed, failed>>
    BY BeforeEnd DEF ReceiveAndAuthorize
  <1>1. CASE Reply(403, Refusal("AUTH_FAILED"))
    BY <1>1, RefusalKeeps, EndKeeps DEF ErrorCodes
  <1>2. CASE HandlePassed /\ Goto("path")
    BY <1>2 DEF Goto, IInv, Shape, Admitted, Noticed, Stopped, Used, Delivered, CallBound,
                Early, Active, Policies!InForce, Restricts, tables, decided, TokenPassed, HandlePassed
  <1> QED BY <1>1, <1>2, InboundHandle DEF ReceiveAndAuthorize, HandlePassed

(* A back end of another party is taken for a caller that may use it. *)
LEMMA TakePathInv ==
  ASSUME IInv, pc = "path", NEW backend, NEW handle, TakePath(backend, handle),
         UNCHANGED <<tables, req, verified, row, degraded, called, lapsed, failed>>
  PROVE  IInv'
  <1> answer = None /\ called = None /\ ~failed
    BY BeforeEnd
  <1>1. CASE Reply(403, Refusal("AUTH_FAILED"))
    BY <1>1, RefusalKeeps, EndKeeps DEF ErrorCodes
  <1>2. CASE /\ AuthorizeBackendType(InboundCaller(req.caller), backend)
             /\ path' = [backend |-> backend, handle |-> handle]
             /\ Goto(IF req.kind = "content_stream" THEN "row" ELSE "capability")
    <2>1. pc' \in {"row", "capability"} /\ answer' = answer
      BY <1>2 DEF Goto
    <2>2. path'.backend = "third_party_api" => req.caller = "cloud-ext"
      BY <1>2 DEF AuthorizeBackendType, InboundCaller
    <2> QED
      BY <2>1, <2>2 DEF IInv, Shape, Admitted, Noticed, Stopped, Used, Delivered, CallBound,
           Early, Active, Policies!InForce, Restricts, tables, TokenPassed, HandlePassed, CapPassed, CallerPassed
  <1> QED BY <1>1, <1>2 DEF TakePath

LEMMA ResolvePathInv == ASSUME IInv, ResolvePath PROVE IInv'
  <1> /\ pc = "path" /\ called = None
      /\ UNCHANGED <<tables, req, verified, row, degraded, called, lapsed>>
    BY BeforeEnd DEF ResolvePath
  <1>1. CASE Throw
    BY <1>1, ThrowKeeps, EndKeeps
  <1>2. CASE UNCHANGED failed /\ \E backend, handle : TakePath(backend, handle)
    BY <1>2, TakePathInv
  <1> QED BY <1>1, <1>2 DEF ResolvePath

LEMMA ReadRowInv == ASSUME IInv, ReadRow PROVE IInv'
  <1> /\ pc = "row" /\ answer = None /\ called = None /\ ~failed
      /\ UNCHANGED <<tables, req, verified, path, degraded, called, lapsed, failed>>
    BY BeforeEnd DEF ReadRow
  <1>1. CASE Throw
    BY <1>1, ThrowKeeps, EndKeeps
  <1>2. CASE Goto("capability")
    BY <1>2 DEF Goto, IInv, Shape, Admitted, Noticed, Stopped, Used, Delivered, CallBound,
         Early, Active, Policies!InForce, Restricts, tables, TokenPassed, HandlePassed, CapPassed, CallerPassed
  <1> QED BY <1>1, <1>2 DEF ReadRow

LEMMA CapabilityFilterInv == ASSUME IInv, CapabilityFilter PROVE IInv'
  <1> /\ pc = "capability" /\ answer = None /\ called = None /\ ~failed
      /\ UNCHANGED <<tables, req, verified, path, row, called, lapsed>>
    BY BeforeEnd DEF CapabilityFilter
  <1>1. ASSUME NEW status, NEW error \in ErrorCodes, Reply(status, Refusal(error)) PROVE IInv'
    BY <1>1, RefusalKeeps, EndKeeps
  <1>2. CASE CapPassed /\ Goto("drm") /\ UNCHANGED failed
    BY <1>2 DEF Goto, IInv, Shape, Admitted, Noticed, Stopped, Used, Delivered, CallBound,
         Early, Active, Policies!InForce, Restricts, tables, TokenPassed, HandlePassed, CapPassed, CallerPassed
  <1>3. "BACKEND_UNAVAILABLE" \in ErrorCodes /\ "CAPABILITY_UNSUPPORTED" \in ErrorCodes
    BY DEF ErrorCodes
  <1> QED BY <1>1, <1>2, <1>3 DEF CapabilityFilter, CapPassed, Unsupported

LEMMA DrmGuardInv == ASSUME IInv, DrmGuard PROVE IInv'
  <1> /\ pc = "drm" /\ answer = None /\ called = None /\ ~failed
      /\ UNCHANGED <<tables, req, decided, called, lapsed>>
    BY BeforeEnd DEF DrmGuard
  <1>1. ASSUME NEW status, NEW error \in ErrorCodes, Reply(status, Refusal(error)) PROVE IInv'
    BY <1>1, RefusalKeeps, EndKeeps
  <1>2. CASE DrmErrors(Active, req) = {} /\ Goto("serve") /\ UNCHANGED failed
    <2>1. lapsed
      BY <1>2, DrmComplete DEF IInv, Noticed
    <2> QED
      BY <2>1, <1>2 DEF Goto, IInv, Shape, Admitted, Noticed, Stopped, Used, Delivered,
           CallBound, Early, tables, decided, TokenPassed, HandlePassed, CapPassed, CallerPassed
  <1>3. "BACKEND_UNAVAILABLE" \in ErrorCodes /\ DrmErrors(Active, req) \subseteq ErrorCodes
    BY DEF ErrorCodes, DrmErrors
  <1> QED BY <1>1, <1>2, <1>3 DEF DrmGuard

(* The business functions, and the calls of a provider. *)
LEMMA ServeInv ==
  ASSUME IInv, QueryBusiness \/ MatchBusiness \/ MetadataBusiness \/ StreamBusiness
               \/ LyricsBusiness \/ BusinessFails \/ RefuseThirdParty
  PROVE  IInv'
  <1>1. pc = "serve" /\ UNCHANGED <<tables, req, decided, called, lapsed, failed>>
    BY DEF QueryBusiness, MatchBusiness, MetadataBusiness, StreamBusiness, LyricsBusiness,
           BusinessFails, RefuseThirdParty, SelfHosted
  <1>2. pc' = "done"
    BY ReplyEnds DEF QueryBusiness, MatchBusiness, MetadataBusiness, StreamBusiness,
           LyricsBusiness, BusinessFails, RefuseThirdParty, ServeRows, ServeNothing
  <1>3. CallBound'
    BY <1>1, BeforeEnd DEF CallBound
  <1> QED BY <1>1, <1>2, <1>3, UseKeeps

LEMMA FetchThirdPartyInv == ASSUME IInv, FetchThirdParty PROVE IInv'
  <1>1. pc = "serve" /\ UNCHANGED <<tables, req, decided, lapsed, failed>>
    BY DEF FetchThirdParty
  <1>2. pc' = "done"
    BY ReplyEnds DEF FetchThirdParty, Send, Reply
  <1>3. req.caller = "cloud-ext"
    BY <1>1 DEF FetchThirdParty, IInv, Shape, Admitted, CallerPassed
  <1>4. path.handle.source = "^backend:" /\ path.handle.provider \in {req.provider, None}
    BY DEF FetchThirdParty, Resolves, AllowMatrix
  <1>5. CallBound'
    BY <1>1, <1>3, <1>4 DEF FetchThirdParty, CallBound
  <1> QED BY <1>1, <1>2, <1>5, UseKeeps

-----------------------------------------------------------------------------
(* The steps of others, and of nobody.                                     *)
LEMMA WatchInv ==
  ASSUME IInv, Watch(Active'),
         UNCHANGED <<pc, req, decided, called, answer, failed>>
  PROVE  IInv'
  BY DEF Watch, IInv, Shape, Admitted, Noticed, Stopped, Used, Delivered, CallBound, Early,
         Restricts, decided, TokenPassed, HandlePassed, CapPassed, CallerPassed

LEMMA SameInv ==
  ASSUME IInv, UNCHANGED <<stored, superseded, pc, req, decided, called, answer, lapsed, failed>>
  PROVE  IInv'
  BY DEF IInv, Shape, Admitted, Noticed, Stopped, Used, Delivered, CallBound, Early, Active, Policies!InForce,
         Restricts, decided, TokenPassed, HandlePassed, CapPassed, CallerPassed

LEMMA OthersInv == ASSUME IInv, Others PROVE IInv'
  <1>1. CASE PushPolicy
    BY <1>1, WatchInv DEF PushPolicy
  <1>2. CASE RetirePolicy
    BY <1>2, WatchInv DEF RetirePolicy
  <1>3. CASE PublishTrack \/ UnpublishTrack \/ SeedLyrics
    BY <1>3, SameInv DEF PublishTrack, UnpublishTrack, SeedLyrics
  <1> QED BY <1>1, <1>2, <1>3 DEF Others

LEMMA NextInv == IInv /\ [Next]_vars => IInv'
  <1> SUFFICES ASSUME IInv, [Next]_vars PROVE IInv'
    OBVIOUS
  <1>1. CASE UNCHANGED vars
    BY <1>1, SameInv DEF vars, tables
  <1>2. CASE Others
    BY <1>2, OthersInv
  <1>3. CASE Handler
    BY <1>3, ArriveInv, VerifyEnvelopeInv, VerifyTokenInv, LookupBindingInv,
       ReceiveAndAuthorizeInv, ResolvePathInv, ReadRowInv, CapabilityFilterInv, DrmGuardInv,
       ServeInv, FetchThirdPartyInv DEF Handler
  <1> QED BY <1>1, <1>2, <1>3 DEF Next

LEMMA Invariance == Spec => []IInv
  BY InitInv, NextInv, PTL DEF Spec

-----------------------------------------------------------------------------
(* Whatever rows restrict a request in turn, however pushes fall between   *)
(* the reads of its handler: without a moment of permission there is no    *)
(* content, and no call of a provider (drmGuard in handle()).              *)
THEOREM RouteRestriction == Spec => []RestrictionHonoured
  <1>1. IInv => RestrictionHonoured
    BY DEF IInv, Noticed, Used, RestrictionHonoured
  <1> QED BY <1>1, Invariance, PTL

(* A failing read of the policies, at any of the three places, stops the   *)
(* request (resolveProviderPath, capabilityFilter, drmGuard).              *)
THEOREM RouteFailClosed == Spec => []FailClosed
  <1>1. IInv => FailClosed
    BY DEF IInv, Stopped, Used, FailClosed
  <1> QED BY <1>1, Invariance, PTL

(* No content and no call without the token, handle, device and caller     *)
(* checks, for any set of requests, policies and secrets.                  *)
THEOREM RouteAdmission == Spec => []ServedIsAdmitted
  <1>1. IInv => ServedIsAdmitted
    BY DEF IInv, Admitted, Used, TokenPassed, HandlePassed, CapPassed, CallBound, ServedIsAdmitted
  <1> QED BY <1>1, Invariance, PTL

-----------------------------------------------------------------------------
(* The second part of the invariant: what the handler remembers, the audit *)
(* events so far, and what an answer says.                                 *)
Past == {"path", "row", "capability", "drm", "serve"}

(* Only the stream route reads a row and degrades.                         *)
Remembered ==
    /\ pc \in Early => ~verified
    /\ pc \in Early \cup {"authorize"} => path = None
    /\ pc = "new" => row = None /\ ~degraded
    /\ pc # "new" /\ (pc = "row" \/ row # None) => req.kind = "content_stream"
    /\ pc \in {"row", "capability", "drm", "serve"} => path # None
    /\ degraded => pc # "new" /\ req.cap # None /\ req.kind = "content_stream"

(* The events so far.                                                      *)
Trails ==
    /\ pc \in Early => emitted = << >>
    /\ pc = "authorize" => emitted = TokenTrail
    /\ pc \in Past => emitted = HandleTrail

Says ==
    /\ pc = "done" => answer # None
    /\ answer # None /\ answer.status # 500 =>
       LET e == answer.envelope
       IN  /\ answer.status = 200 <=> e.completion \in {"DONE", "DONE_WITH_CONCERNS"}
           /\ e.completion = "DONE" => e.error = NoError /\ e.body = "complete"
           /\ called = None =>
                 /\ e.completion = "BLOCKED" => e.error # NoError /\ e.body = "empty"
                 /\ e.error = NoError => Delivered /\ e.body = "complete"
                 /\ e.mode = "degraded" =>
                       Delivered /\ req.kind = "content_stream" /\ req.cap # None

(* Rows are shown by answers that are no refusals.                         *)
Shown ==
    served # {} =>
       /\ pc = "done"
       /\ answer # None /\ answer.status # 500 => answer.envelope.completion # "BLOCKED"

SInv == TypeOK /\ Remembered /\ Trails /\ AuditTrail /\ Says /\ Shown

-----------------------------------------------------------------------------
(* The trail of a handler at work, and what a further event makes of one.  *)
LEMMA TrailTypes ==
  /\ TokenTrail \in Seq(Events) /\ HandleTrail \in Seq(Events)
  /\ ContentTrail \in Seq(Events) /\ ContentTrail # HandleTrail
  <1>1. /\ << >> \in Seq(Events) /\ <<"token_refused">> \in Seq(Events)
        /\ <<"token_verified">> \in Seq(Events)
    BY DEF Events
  <1>2. TokenTrail \in Seq(Events)
    BY <1>1 DEF TokenTrail
  <1>3. ASSUME NEW s \in Seq(Events), NEW x \in Events
        PROVE  Append(s, x) \in Seq(Events) /\ Append(s, x) # s
    <2>1. Len(Append(s, x)) = Len(s) + 1 /\ Len(s) \in Nat
      OBVIOUS
    <2> QED BY <2>1
  <1>4. HandleTrail \in Seq(Events)
    BY <1>2, <1>3 DEF HandleTrail, Events
  <1> QED BY <1>2, <1>3, <1>4 DEF ContentTrail, Events

(* Trails owe to the request, the token and its refusal, and nothing else. *)
LEMMA SameTrails ==
  ASSUME UNCHANGED <<req, verified>>, TokenRefused' <=> TokenRefused
  PROVE  TokenTrail' = TokenTrail /\ HandleTrail' = HandleTrail
  BY DEF TokenTrail, HandleTrail, HandleAllowed

LEMMA TrailNow ==
  ASSUME IInv, SInv, pc # "done"
  PROVE  /\ emitted \in Seq(Events) /\ answer = None /\ ~TokenRefused /\ served = {}
         /\ pc \in Early => emitted = << >> /\ ~verified
         /\ pc = "authorize" => emitted = TokenTrail
         /\ pc \in Past => emitted = HandleTrail /\ (req.handle # None => HandleAllowed)
  <1>1. emitted \in Seq(Events) /\ answer = None /\ ~TokenRefused /\ served = {}
    BY DEF IInv, Shape, SInv, TypeOK, TokenRefused, Shown
  <1>2. /\ pc \in Early => emitted = << >> /\ ~verified
        /\ pc = "authorize" => emitted = TokenTrail
        /\ pc \in Past => emitted = HandleTrail
    BY DEF SInv, Trails, Remembered
  <1>3. pc \in Past => HandlePassed
    BY DEF IInv, Admitted, Past
  <1> QED BY <1>1, <1>2, <1>3 DEF HandlePassed, HandleAllowed

(* The four ways a trail ends.  Nothing is added: *)
LEMMA EndsQuiet ==
  ASSUME IInv, SInv, pc \in Past, pc' = "done", UNCHANGED <<req, decided, emitted>>,
         ~TokenRefused', ~GuardRefused', ~(Delivered' /\ called' = None)
  PROVE  emitted' \in Seq(Events) /\ AuditTrail'
  <1>1. pc # "done"
    BY DEF Past
  <1>2. TokenTrail' = TokenTrail /\ HandleTrail' = HandleTrail
    BY <1>1, TrailNow, SameTrails DEF decided
  <1>3. emitted' = HandleTrail' /\ HandleTrail' # ContentTrail'
    BY <1>1, <1>2, TrailNow, TrailTypes DEF ContentTrail
  <1>4. ~HandleRefused'
    BY <1>1, TrailNow DEF HandleRefused, HandleAllowed
  <1> QED BY <1>1, <1>3, <1>4, TrailNow DEF AuditTrail

(* content: *)
LEMMA EndsContent ==
  ASSUME IInv, SInv, pc \in Past, pc' = "done", UNCHANGED <<req, decided>>,
         Emit("content"), ~TokenRefused', called' = None,
         Delivered' \/ answer' = ServerError \/ answer'.envelope.error \in GuardErrors
  PROVE  emitted' \in Seq(Events) /\ AuditTrail'
  <1>1. pc # "done"
    BY DEF Past
  <1>2. TokenTrail' = TokenTrail /\ HandleTrail' = HandleTrail
    BY <1>1, TrailNow, SameTrails DEF decided
  <1>3. emitted' = ContentTrail'
    BY <1>1, <1>2, TrailNow DEF ContentTrail, Emit
  <1>4. ~HandleRefused'
    BY <1>1, TrailNow DEF HandleRefused, HandleAllowed
  <1>5. ContentTrail' \in Seq(Events)
    BY <1>1, <1>2, TrailTypes DEF ContentTrail
  <1>6. ServerError' = ServerError /\ GuardErrors' = GuardErrors
    BY DEF ServerError, GuardErrors
  <1> QED BY <1>1, <1>3, <1>4, <1>5, <1>6 DEF AuditTrail

(* a refused token: *)
LEMMA EndsToken ==
  ASSUME IInv, SInv, pc \in Early, pc' = "done", UNCHANGED <<req, decided>>,
         Emit("token_refused"), TokenRefused'
  PROVE  emitted' \in Seq(Events) /\ AuditTrail'
  <1>1. pc # "done"
    BY DEF Early
  <1>2. emitted' = <<"token_refused">> /\ ~verified'
    <2>1. emitted' = Append(<< >>, "token_refused")
      BY <1>1, TrailNow DEF Emit
    <2>2. Append(<< >>, "token_refused") = <<"token_refused">>
      OBVIOUS
    <2> QED BY <1>1, <2>1, <2>2, TrailNow DEF decided
  <1>3. emitted' = HandleTrail' /\ HandleTrail' = TokenTrail'
    BY <1>2 DEF HandleTrail, TokenTrail
  <1>4. emitted' \in Seq(Events) /\ HandleTrail' # ContentTrail'
    <2>1. <<"token_refused">> \in Seq(Events) /\ Len(<<"token_refused">>) = 1
      BY DEF Events
    <2>2. Append(<<"token_refused">>, "content") # <<"token_refused">>
      OBVIOUS
    <2> QED BY <1>2, <1>3, <2>1, <2>2 DEF ContentTrail
  <1>5. ~HandleRefused' /\ ~GuardRefused' /\ ~(Delivered' /\ called' = None)
    BY DEF TokenRefused, HandleRefused, GuardRefused, Delivered, TokenErrors, GuardErrors, NoError
  <1> QED BY <1>1, <1>2, <1>3, <1>4, <1>5 DEF AuditTrail

(* a refused handle: *)
LEMMA EndsHandle ==
  ASSUME IInv, SInv, pc = "authorize", pc' = "done", UNCHANGED <<req, decided>>,
         Emit("unauthorized"), req.handle # None, ~HandleAllowed,
         answer' = [status |-> 403, envelope |-> Refusal("AUTH_FAILED")], called' = None
  PROVE  emitted' \in Seq(Events) /\ AuditTrail'
  <1>1. Refusal("AUTH_FAILED").error = "AUTH_FAILED"
    BY DEF Refusal, WrapEnvelope, CompletionState, NoError
  <1>2. ~TokenRefused' /\ ~GuardRefused' /\ ~Delivered' /\ answer' # ServerError
    BY <1>1 DEF TokenRefused, GuardRefused, Delivered, TokenErrors, GuardErrors, ServerError
  <1>3. TokenTrail' = TokenTrail /\ HandleTrail' = HandleTrail
    BY <1>2, TrailNow, SameTrails DEF decided
  <1>4. emitted' = HandleTrail'
    BY <1>3, TrailNow DEF HandleTrail, Emit
  <1>5. emitted' \in Seq(Events) /\ HandleTrail' # ContentTrail'
    BY <1>3, <1>4, TrailTypes DEF ContentTrail
  <1>6. Refusal("AUTH_FAILED")' = Refusal("AUTH_FAILED")
    BY DEF Refusal, WrapEnvelope, CompletionState
  <1> QED BY <1>2, <1>4, <1>5, <1>6 DEF AuditTrail

(* What the ends of a handler answer.                                      *)
AnswerType == answer \in {ServerError} \cup
                         [status : Statuses, envelope : EnvelopeType]

LEMMA ErrorNotNone == ServerError # None
  BY RouteConstants DEF ServerError

LEMMA RefusalType ==
  ASSUME NEW error \in ErrorCodes
  PROVE  /\ Refusal(error) \in EnvelopeType
         /\ Refusal(error).error = error /\ error # NoError
         /\ Refusal(error).body = "empty"
         /\ Refusal(error).completion = "BLOCKED"
         /\ Refusal(error).mode = "unavailable"
         /\ Conforms(Refusal(error))
         /\ HttpStatus(Refusal(error)) \in {403, 503}
  <1>1. error # NoError
    BY DEF ErrorCodes, NoError
  <1>2. Refusal(error) = [body |-> "empty", backend |-> "self_hosted", mode |-> "unavailable",
                          completion |-> "BLOCKED", error |-> error]
    BY <1>1 DEF Refusal, WrapEnvelope, CompletionState
  <1>3. Refusal(error) \in EnvelopeType
    BY <1>2 DEF EnvelopeType, Bodies, BackendTypes, CapabilityModes, CompletionStates
  <1> QED BY <1>1, <1>2, <1>3 DEF HttpStatus, Conforms

LEMMA RefusalSays ==
  ASSUME NEW status \in {400, 401, 403, 503}, NEW error \in ErrorCodes,
         Reply(status, Refusal(error))
  PROVE  /\ pc' = "done" /\ AnswerType' /\ Says' /\ ~Delivered'
         /\ answer' = [status |-> status, envelope |-> Refusal(error)]
         /\ answer' # None /\ answer'.status # 500 /\ answer'.envelope.error = error
  <1>1. pc' = "done" /\ ~Delivered'
    BY RefusalKeeps
  <1>2. answer' = [status |-> status, envelope |-> Refusal(error)]
    BY RefusalType DEF Reply
  <1>3. answer' # None
    BY <1>2, RefusalType, RouteConstants DEF Statuses
  <1> QED BY <1>1, <1>2, <1>3, RefusalType DEF AnswerType, Says, Statuses

LEMMA ThrowSays ==
  ASSUME Throw
  PROVE  pc' = "done" /\ AnswerType' /\ Says' /\ ~Delivered'
  BY ErrorNotNone DEF Throw, AnswerType, Says, ServerError, Delivered

LEMMA DegradeType ==
  ASSUME NEW e \in EnvelopeType, degraded \in BOOLEAN
  PROVE  /\ Degrade(e) \in EnvelopeType
         /\ Degrade(e).error = e.error /\ Degrade(e).body = e.body
         /\ ~(degraded /\ e.completion = "DONE") => Degrade(e) = e
         /\ degraded /\ e.completion = "DONE" => Degrade(e).completion = "DONE_WITH_CONCERNS"
  BY DEF Degrade, EnvelopeType, CapabilityModes, CompletionStates

(* A business function of this back end: an envelope that is not degraded, *)
(* and gives the reason of a refusal and no more.                          *)
LEMMA SendSays ==
  ASSUME Remembered, NEW e \in EnvelopeType, Send(e), degraded \in BOOLEAN,
         pc # "new", UNCHANGED <<req, degraded>>,
         \/ called' # None
         \/ /\ e.mode # "degraded"
            /\ e.completion = "BLOCKED" => e.error # NoError /\ e.body = "empty"
            /\ e.error = NoError <=> e.completion = "DONE"
            /\ e.error = NoError => e.body # "empty"
  PROVE  /\ pc' = "done" /\ AnswerType' /\ Says' /\ answer' # None
         /\ Delivered' => e.error = NoError
         /\ \/ answer' = ServerError
            \/ /\ answer'.envelope.error = e.error /\ (e.error = NoError => called' # None \/ Delivered')
               /\ e.completion # "BLOCKED" => answer'.envelope.completion # "BLOCKED"
  <1> DEFINE d == Degrade(e)
  <1>1. /\ d \in EnvelopeType /\ d.error = e.error /\ d.body = e.body
        /\ ~(degraded /\ e.completion = "DONE") => d = e
        /\ degraded /\ e.completion = "DONE" => d.completion = "DONE_WITH_CONCERNS"
    BY DegradeType
  <1> HIDE DEF d
  <1>2. /\ HttpStatus(e) \in {200, 403, 503}
        /\ HttpStatus(e) = 200 <=> e.completion \in {"DONE", "DONE_WITH_CONCERNS"}
    BY DEF HttpStatus
  <1>3. pc' = "done" /\ (answer' = [status |-> HttpStatus(e), envelope |-> d] \/ answer' = ServerError)
    BY DEF Send, Reply, d
  <1>6. answer' = [status |-> HttpStatus(e), envelope |-> d] => Conforms(d) \/ answer' = ServerError
    BY DEF Send, Reply, d
  <1>4. CASE answer' = ServerError
    BY <1>3, <1>4, ErrorNotNone DEF AnswerType, Says, ServerError, Delivered
  <1>5. CASE answer' = [status |-> HttpStatus(e), envelope |-> d] /\ Conforms(d)
    <2>1. AnswerType' /\ (Delivered' => e.error = NoError)
      BY <1>1, <1>2, <1>5 DEF AnswerType, Delivered, Statuses
    <2> /\ answer' # None /\ answer'.envelope = d /\ answer'.status = HttpStatus(e)
      BY <1>1, <1>2, <1>5, RouteConstants DEF Statuses
    <2>2. d.completion \in {"DONE", "DONE_WITH_CONCERNS"} <=> HttpStatus(e) = 200
      BY <1>1, <1>2
    <2>6. /\ d.completion = "DONE" => d.error = NoError /\ d.body = "complete"
          /\ d.body # "invalid" /\ d.body \in Bodies
      BY <1>1, <1>5 DEF Conforms, EnvelopeType
    <2>7. d.completion = "BLOCKED" => d.completion = e.completion
      BY <1>1
    <2>8. called' = None /\ e.error = NoError => Delivered' /\ d.body = "complete"
      <3>1. called' = None /\ e.error = NoError => HttpStatus(e) = 200 /\ d.error = NoError
        BY <1>1, <1>2
      <3>2. called' = None /\ e.error = NoError => d.body = "complete"
        BY <2>6, <1>1 DEF Bodies
      <3> QED BY <3>1, <3>2 DEF Delivered
    <2>9. Delivered' => d.error = NoError
      BY DEF Delivered
    <2>3. CASE called' # None
      BY <1>3, <2>1, <2>2, <2>3, <2>6, <2>7, <1>1 DEF Says
    <2>4. CASE called' = None /\ ~(degraded /\ e.completion = "DONE")
      BY <1>3, <2>1, <1>1, <2>2, <2>4, <2>6, <2>7, <2>8 DEF Says
    <2>5. CASE called' = None /\ degraded /\ e.completion = "DONE"
      <3>1. HttpStatus(e) = 200 /\ d.error = NoError /\ d.completion = "DONE_WITH_CONCERNS"
        BY <1>1, <1>2, <2>5
      <3>2. Delivered'
        BY <3>1 DEF Delivered
      <3>3. req'.kind = "content_stream" /\ req'.cap # None
        BY <2>5 DEF Remembered
      <3> QED BY <1>3, <2>1, <2>2, <2>5, <2>6, <2>8, <3>1, <3>2, <3>3 DEF Says
    <2> QED BY <1>1, <1>3, <2>1, <2>3, <2>4, <2>5, <2>7, <2>8
  <1> QED BY <1>3, <1>4, <1>5, <1>6

-----------------------------------------------------------------------------
(* What every step of the handler has to show: that it goes on, or how it  *)
(* ends.                                                                   *)
LEMMA SInvInit == Init => SInv
  <1> SUFFICES ASSUME Init PROVE SInv
    OBVIOUS
  <1>1. emitted = << >> /\ served = {} /\ path = None /\ answer = None
    BY DEF Init
  <1>2. TypeOK
    <2>1. emitted \in Seq(Events) /\ stored \subseteq PolicyRows /\ superseded \subseteq stored
      BY DEF Init
    <2>2. /\ tracks \in [Tracks -> TrackRows \cup {None}]
          /\ lyrics \in [Tracks -> LyricSheets \cup {<< >>}]
      BY DEF Init
    <2> QED BY <2>1, <2>2 DEF Init, TypeOK
  <1> QED BY <1>1, <1>2 DEF Init, SInv, Remembered, Trails, AuditTrail, Says, Shown,
                            Delivered, Early, Past

LEMMA GoesOn ==
  ASSUME IInv, SInv, pc # "done", pc' # "done", UNCHANGED <<answer, called, served>>,
         TypeOK', Remembered', Trails'
  PROVE  SInv'
  <1>1. answer = None /\ served = {}
    BY TrailNow
  <1>2. AuditTrail'
    <2>1. pc' \in Early \cup {"authorize"} \cup Past
      BY DEF TypeOK, Early, Past
    <2> QED BY <2>1 DEF AuditTrail, Remembered, Trails
  <1> QED BY <1>1, <1>2 DEF SInv, Says, Shown, Delivered

(* A step within the checks behind the handle, which writes no event.      *)
LEMMA StaysPast ==
  ASSUME IInv, SInv, pc \in Past, pc' \in Past, UNCHANGED <<req, verified, answer, emitted>>
  PROVE  Trails'
  <1>1. pc # "done" /\ pc' \notin Early \cup {"authorize"}
    BY DEF Past, Early
  <1>2. HandleTrail' = HandleTrail
    BY <1>1, TrailNow, SameTrails DEF TokenRefused
  <1> QED BY <1>1, <1>2, TrailNow DEF Trails

(* An end without further rows. *)
LEMMA Ends ==
  ASSUME IInv, SInv, pc \notin {"new", "done"}, pc' = "done", UNCHANGED <<tables, req, decided, served>>,
         lapsed' \in BOOLEAN, failed' \in BOOLEAN, called' = None,
         AnswerType', Says', emitted' \in Seq(Events), AuditTrail'
  PROVE  SInv'
  <1>1. TypeOK'
    BY DEF SInv, TypeOK, AnswerType, tables, decided
  <1>2. Remembered'
    BY DEF SInv, Remembered, Early, decided
  <1>3. Trails' /\ Shown'
    BY TrailNow DEF Trails, Shown, Early, Past
  <1> QED BY <1>1, <1>2, <1>3 DEF SInv

(* A refusal that leaves no event. *)
LEMMA Refuses ==
  ASSUME IInv, SInv, pc \in Past, UNCHANGED <<tables, req, decided, called, served, emitted>>,
         lapsed' \in BOOLEAN, failed' \in BOOLEAN,
         NEW status \in {400, 401, 403, 503},
         NEW error \in {"AUTH_FAILED", "BACKEND_UNAVAILABLE", "CAPABILITY_UNSUPPORTED"},
         Reply(status, Refusal(error))
  PROVE  SInv'
  <1>1. error \in ErrorCodes /\ pc \notin {"new", "done"}
    BY DEF ErrorCodes, Past
  <1>2. /\ pc' = "done" /\ AnswerType' /\ Says' /\ ~Delivered' /\ answer'.envelope.error = error
    BY <1>1, RefusalSays
  <1>3. ~TokenRefused' /\ ~GuardRefused'
    BY <1>2 DEF TokenRefused, GuardRefused, TokenErrors, GuardErrors
  <1> QED BY <1>1, <1>2, <1>3, EndsQuiet, Ends, BeforeEnd

LEMMA RefusesToken ==
  ASSUME IInv, SInv, pc \in Early \ {"new"}, UNCHANGED <<tables, req, decided, called, served>>,
         lapsed' \in BOOLEAN, failed' \in BOOLEAN,
         NEW status \in {400, 401, 403, 503}, NEW error \in TokenErrors, RefuseToken(status, error)
  PROVE  SInv'
  <1>1. error \in ErrorCodes /\ pc \notin {"new", "done"} /\ Emit("token_refused")
    BY DEF ErrorCodes, TokenErrors, Early, RefuseToken
  <1>2. /\ pc' = "done" /\ AnswerType' /\ Says' /\ answer' # None
        /\ answer'.status # 500 /\ answer'.envelope.error = error
    BY <1>1, RefusalSays DEF RefuseToken
  <1>3. TokenRefused' /\ called' = None
    BY <1>1, <1>2, BeforeEnd DEF TokenRefused, TokenErrors
  <1> QED BY <1>1, <1>2, <1>3, EndsToken, Ends

LEMMA Throws ==
  ASSUME IInv, SInv, pc \in Past, UNCHANGED <<tables, req, decided, called, served, emitted>>,
         lapsed' \in BOOLEAN, failed' \in BOOLEAN, Throw
  PROVE  SInv'
  <1>1. pc \notin {"new", "done"}
    BY DEF Past
  <1>2. ~TokenRefused' /\ ~GuardRefused'
    BY DEF Throw, TokenRefused, GuardRefused, ServerError
  <1> QED BY <1>1, <1>2, ThrowSays, EndsQuiet, Ends, BeforeEnd

-----------------------------------------------------------------------------
(* The steps up to the guard.                                              *)
LEMMA ArriveSays == ASSUME IInv, SInv, Arrive PROVE SInv'
  <1>1. /\ pc = "new" /\ pc' = "verify" /\ req' \in Requests /\ lapsed' \in BOOLEAN
        /\ UNCHANGED <<tables, decided, called, served, emitted, failed, answer>>
    BY DEF Arrive, Goto, Restricts
  <1>2. TypeOK'
    BY <1>1 DEF SInv, TypeOK, tables, decided
  <1>3. Remembered'
    BY <1>1 DEF SInv, Remembered, Early, decided
  <1>4. Trails'
    BY <1>1, TrailNow DEF Trails, Early, Past
  <1> QED BY <1>1, <1>2, <1>3, <1>4, GoesOn

LEMMA VerifyEnvelopeSays == ASSUME IInv, SInv, VerifyEnvelope PROVE SInv'
  <1>1. /\ pc = "verify" /\ UNCHANGED <<tables, req, decided, called, served, lapsed, failed>>
        /\ lapsed \in BOOLEAN /\ failed \in BOOLEAN
    BY DEF VerifyEnvelope, SInv, TypeOK
  <1>2. CASE RefuseToken(400, "INVALID_ENVELOPE")
    BY <1>1, <1>2, RefusesToken DEF TokenErrors, Early
  <1>3. CASE (Goto("authorize") \/ Goto("jwt")) /\ UNCHANGED emitted
    <2>1. pc' \in {"authorize", "jwt"} /\ UNCHANGED <<answer, called>>
      BY <1>1, <1>3 DEF Goto
    <2>2. TypeOK'
      BY <1>1, <1>3, <2>1 DEF SInv, TypeOK, tables, decided
    <2>3. Remembered'
      BY <1>1, <2>1 DEF SInv, Remembered, Early, decided
    <2>4. Trails'
      BY <1>1, <1>3, <2>1, TrailNow DEF Trails, TokenTrail, TokenRefused, Early, Past, decided
    <2> QED BY <1>1, <2>1, <2>2, <2>3, <2>4, GoesOn
  <1> QED BY <1>2, <1>3 DEF VerifyEnvelope

LEMMA VerifyTokenSays == ASSUME IInv, SInv, VerifyToken PROVE SInv'
  <1>1. /\ pc = "jwt" /\ UNCHANGED <<tables, req, decided, called, served, lapsed, failed>>
        /\ lapsed \in BOOLEAN /\ failed \in BOOLEAN
    BY DEF VerifyToken, SInv, TypeOK
  <1>2. CASE RefuseToken(503, "JWKS_UNAVAILABLE") \/ RefuseToken(401, "INVALID_TOKEN")
    BY <1>1, <1>2, RefusesToken DEF TokenErrors, Early
  <1>3. CASE Goto("lookup") /\ UNCHANGED emitted
    <2>1. pc' = "lookup" /\ UNCHANGED <<answer, called>>
      BY <1>1, <1>3 DEF Goto
    <2>2. TypeOK'
      BY <1>1, <1>3, <2>1 DEF SInv, TypeOK, tables, decided
    <2>3. Remembered'
      BY <1>1, <2>1 DEF SInv, Remembered, Early, decided
    <2>4. Trails'
      BY <1>1, <1>3, <2>1, TrailNow DEF Trails, Early, Past
    <2> QED BY <1>1, <2>1, <2>2, <2>3, <2>4, GoesOn
  <1> QED BY <1>2, <1>3 DEF VerifyToken

LEMMA LookupBindingSays == ASSUME IInv, SInv, LookupBinding PROVE SInv'
  <1>1. /\ pc = "lookup" /\ UNCHANGED <<tables, req, path, row, degraded, called, served, lapsed, failed>>
        /\ lapsed \in BOOLEAN /\ failed \in BOOLEAN
    BY DEF LookupBinding, SInv, TypeOK
  <1>2. CASE /\ RefuseToken(403, "DEVICE_NOT_BOUND") \/ RefuseToken(503, "LOOKUP_UNAVAILABLE")
             /\ UNCHANGED verified
    BY <1>1, <1>2, RefusesToken DEF TokenErrors, Early, decided
  <1>3. CASE verified' = TRUE /\ Goto("authorize") /\ Emit("token_verified")
    <2>1. pc' = "authorize" /\ UNCHANGED <<answer, called>>
      BY <1>1, <1>3 DEF Goto
    <2>2. emitted' = <<"token_verified">>
      <3>1. emitted' = Append(<< >>, "token_verified")
        BY <1>1, <1>3, TrailNow DEF Emit, Early
      <3> QED BY <3>1
    <2>3. emitted' \in Seq(Events)
      BY <2>2 DEF Events
    <2>4. TypeOK'
      BY <1>1, <1>3, <2>1, <2>3 DEF SInv, TypeOK, tables
    <2>5. Remembered'
      BY <1>1, <2>1 DEF SInv, Remembered, Early
    <2>6. ~TokenRefused'
      BY <1>1, <2>1, TrailNow DEF TokenRefused
    <2>7. Trails'
      BY <1>3, <2>1, <2>2, <2>6 DEF Trails, TokenTrail, Early, Past
    <2> QED BY <1>1, <2>1, <2>4, <2>5, <2>7, GoesOn
  <1> QED BY <1>2, <1>3 DEF LookupBinding

LEMMA ReceiveAndAuthorizeSays == ASSUME IInv, SInv, ReceiveAndAuthorize PROVE SInv'
  <1>1. /\ pc = "authorize" /\ UNCHANGED <<tables, req, decided, called, served, lapsed, failed>>
        /\ lapsed \in BOOLEAN /\ failed \in BOOLEAN
    BY DEF ReceiveAndAuthorize, SInv, TypeOK
  <1>2. CASE /\ Reply(403, Refusal("AUTH_FAILED")) /\ Emit("unauthorized") /\ req.handle # None
             /\ ~HandleAllowed
    <2>1. /\ pc' = "done" /\ AnswerType' /\ Says' /\ called' = None
          /\ answer' = [status |-> 403, envelope |-> Refusal("AUTH_FAILED")]
      BY <1>1, <1>2, RefusalSays, BeforeEnd DEF ErrorCodes
    <2> QED BY <1>1, <1>2, <2>1, EndsHandle, Ends
  <1>3. CASE /\ Goto("path")
             /\ \/ req.handle = None /\ UNCHANGED emitted
                \/ req.handle # None /\ HandleAllowed /\ Emit("handle")
    <2>1. pc' = "path" /\ UNCHANGED <<answer, called>>
      BY <1>1, <1>3 DEF Goto
    <2>2. emitted' = HandleTrail' /\ emitted' \in Seq(Events)
      <3>1. emitted = TokenTrail /\ ~TokenRefused
        BY <1>1, TrailNow
      <3>2. emitted' = HandleTrail
        BY <1>3, <3>1 DEF HandleTrail, Emit
      <3>3. HandleTrail' = HandleTrail
        BY <1>1, <2>1, SameTrails DEF TokenRefused, decided
      <3> QED BY <3>2, <3>3, TrailTypes
    <2>3. TypeOK'
      BY <1>1, <2>1, <2>2 DEF SInv, TypeOK, tables, decided
    <2>4. Remembered'
      BY <1>1, <2>1 DEF SInv, Remembered, Early, decided
    <2>5. Trails'
      BY <2>1, <2>2 DEF Trails, Early, Past
    <2> QED BY <1>1, <2>1, <2>3, <2>4, <2>5, GoesOn
  <1>4. req.handle # None =>
           (<<InboundCaller(req.caller), req.handle.source>> \in AllowMatrix <=> HandleAllowed)
    BY InboundHandle DEF HandleAllowed, InboundCaller, AllowMatrix
  <1> QED BY <1>2, <1>3, <1>4 DEF ReceiveAndAuthorize

LEMMA TakePathSays ==
  ASSUME IInv, SInv, pc = "path", NEW backend \in BackendTypes, NEW handle \in Handles \cup {None},
         TakePath(backend, handle),
         UNCHANGED <<tables, req, verified, row, degraded, called, served, emitted, lapsed, failed>>
  PROVE  SInv'
  <1>1. lapsed \in BOOLEAN /\ failed \in BOOLEAN
    BY DEF SInv, TypeOK
  <1>2. CASE Reply(403, Refusal("AUTH_FAILED")) /\ UNCHANGED path
    BY <1>1, <1>2, Refuses DEF Past, decided
  <1>3. CASE /\ path' = [backend |-> backend, handle |-> handle]
             /\ Goto(IF req.kind = "content_stream" THEN "row" ELSE "capability")
    <2>1. /\ pc' \in {"row", "capability"} /\ UNCHANGED <<answer, called>>
          /\ pc' = "row" => req.kind = "content_stream"
      BY <1>3 DEF Goto
    <2>2. TypeOK'
      BY <1>3, <2>1 DEF SInv, TypeOK, tables
    <2>3. path' # None
      BY <1>3, RouteConstants
    <2>4. Remembered'
      BY <2>1, <2>3 DEF SInv, Remembered, Early
    <2>5. Trails'
      BY <2>1, StaysPast DEF Past
    <2> QED BY <2>1, <2>2, <2>4, <2>5, GoesOn
  <1> QED BY <1>2, <1>3 DEF TakePath

LEMMA ResolvePathSays == ASSUME IInv, SInv, ResolvePath PROVE SInv'
  <1>1. /\ pc = "path" /\ UNCHANGED <<tables, req, verified, row, degraded, called, served, emitted, lapsed>>
        /\ lapsed \in BOOLEAN /\ failed \in BOOLEAN
    BY DEF ResolvePath, SInv, TypeOK
  <1>2. CASE Throw /\ UNCHANGED path /\ failed' \in BOOLEAN
    BY <1>1, <1>2, Throws DEF decided, Past
  <1>3. \A p \in Active : p.ref \in Handles \cup {None}
    BY RouteConstants DEF SInv, TypeOK, Active, Policies!InForce, PolicyType
  <1>4. \A provider, authorized, kind : SelectPath(provider, authorized, kind).backend \in BackendTypes
    BY DEF SelectPath, BackendTypes
  <1>5. CASE /\ UNCHANGED failed
             /\ \E backend \in BackendTypes, handle \in Handles \cup {None} : TakePath(backend, handle)
    BY <1>1, <1>5, TakePathSays
  <1>6. "self_hosted" \in BackendTypes
    BY DEF BackendTypes
  <1> QED BY <1>1, <1>2, <1>3, <1>4, <1>5, <1>6 DEF ResolvePath

LEMMA ReadRowSays == ASSUME IInv, SInv, ReadRow PROVE SInv'
  <1>1. /\ pc = "row" /\ UNCHANGED <<tables, req, verified, path, degraded, called, served, emitted, lapsed, failed>>
        /\ lapsed \in BOOLEAN /\ failed \in BOOLEAN
    BY DEF ReadRow, SInv, TypeOK
  <1>2. CASE Throw /\ UNCHANGED row
    BY <1>1, <1>2, Throws DEF decided, Past
  <1>3. CASE \E t \in req.wanted : row' = tracks[t] /\ Goto("capability")
    <2>1. pc' = "capability" /\ UNCHANGED <<answer, called>>
      BY <1>1, <1>3 DEF Goto
    <2>2. row' \in TrackRows \cup {None}
      <3>1. req.wanted \subseteq Tracks
        BY <1>1, RouteConstants DEF IInv, Shape, RequestType
      <3> QED BY <1>3, <3>1 DEF SInv, TypeOK
    <2>3. TypeOK'
      BY <1>1, <2>1, <2>2 DEF SInv, TypeOK, tables
    <2>4. Remembered'
      BY <1>1, <2>1 DEF SInv, Remembered, Early
    <2>5. Trails'
      BY <1>1, <2>1, StaysPast DEF Past
    <2> QED BY <1>1, <2>1, <2>3, <2>4, <2>5, GoesOn
  <1> QED BY <1>2, <1>3 DEF ReadRow

LEMMA CapabilityFilterSays == ASSUME IInv, SInv, CapabilityFilter PROVE SInv'
  <1>1. /\ pc = "capability" /\ UNCHANGED <<tables, req, verified, path, row, called, served, emitted, lapsed>>
        /\ lapsed \in BOOLEAN /\ failed \in BOOLEAN
    BY DEF CapabilityFilter, SInv, TypeOK
  <1>2. ASSUME NEW error \in {"BACKEND_UNAVAILABLE", "CAPABILITY_UNSUPPORTED"},
               Reply(403, Refusal(error)), failed' \in BOOLEAN, UNCHANGED degraded
        PROVE  SInv'
    BY <1>1, <1>2, Refuses DEF decided, Past
  <1>4. ASSUME Goto("drm"), UNCHANGED failed, degraded' \in BOOLEAN,
               degraded' => degraded \/ (req.cap # None /\ row # None)
        PROVE  SInv'
    <2>1. pc' = "drm" /\ UNCHANGED <<answer, called>>
      BY <1>1, <1>4 DEF Goto
    <2>2. TypeOK'
      BY <1>1, <1>4, <2>1 DEF SInv, TypeOK, tables
    <2>3. Remembered'
      BY <1>1, <1>4, <2>1 DEF SInv, Remembered, Early
    <2>4. Trails'
      BY <1>1, <2>1, StaysPast DEF Past
    <2> QED BY <1>1, <2>1, <2>2, <2>3, <2>4, GoesOn
  <1>5. degraded \in BOOLEAN
    BY DEF SInv, TypeOK
  <1>6. CASE req.cap = None /\ Goto("drm") /\ UNCHANGED <<degraded, failed>>
    BY <1>4, <1>5, <1>6
  <1>7. CASE /\ req.cap # None /\ degraded' = (row # None /\ row.bitrate > req.cap.maxBitrate)
             /\ Goto("drm") /\ UNCHANGED failed
    <2>1. degraded' \in BOOLEAN
      BY <1>7
    <2> QED BY <1>4, <1>7, <2>1
  <1> QED BY <1>1, <1>2, <1>6, <1>7 DEF CapabilityFilter

LEMMA DrmGuardSays == ASSUME IInv, SInv, DrmGuard PROVE SInv'
  <1>1. /\ pc = "drm" /\ UNCHANGED <<tables, req, decided, called, served, lapsed>>
        /\ lapsed \in BOOLEAN /\ failed \in BOOLEAN
    BY DEF DrmGuard, SInv, TypeOK
  <1>2. CASE /\ Reply(HttpStatus(Refusal("BACKEND_UNAVAILABLE")), Refusal("BACKEND_UNAVAILABLE"))
             /\ failed' = TRUE /\ UNCHANGED emitted
    <2>1. HttpStatus(Refusal("BACKEND_UNAVAILABLE")) \in {400, 401, 403, 503}
      BY RefusalType DEF ErrorCodes
    <2> QED BY <1>1, <1>2, <2>1, Refuses DEF Past
  <1>3. ASSUME NEW error \in DrmErrors(Active, req),
               Reply(HttpStatus(Refusal(error)), Refusal(error)), Emit("content"), UNCHANGED failed
        PROVE  SInv'
    <2>1. error \in ErrorCodes /\ error \in GuardErrors /\ error \notin TokenErrors
      BY DEF DrmErrors, ErrorCodes, GuardErrors, TokenErrors
    <2>2. HttpStatus(Refusal(error)) \in {400, 401, 403, 503}
      BY <2>1, RefusalType
    <2>3. /\ pc' = "done" /\ AnswerType' /\ Says' /\ answer'.envelope.error = error
          /\ called' = None
      BY <1>1, <1>3, <2>1, <2>2, RefusalSays, BeforeEnd
    <2>4. ~TokenRefused'
      BY <2>1, <2>3 DEF TokenRefused, TokenErrors
    <2> QED BY <1>1, <1>3, <2>1, <2>3, <2>4, EndsContent, Ends DEF Past
  <1>4. CASE Goto("serve") /\ UNCHANGED <<emitted, failed>>
    <2>1. pc' = "serve" /\ UNCHANGED <<answer, called>>
      BY <1>1, <1>4 DEF Goto
    <2>2. TypeOK'
      BY <1>1, <1>4, <2>1 DEF SInv, TypeOK, tables, decided
    <2>3. Remembered'
      BY <1>1, <2>1 DEF SInv, Remembered, Early, decided
    <2>4. Trails'
      BY <1>1, <1>4, <2>1, StaysPast DEF Past, decided
    <2> QED BY <1>1, <2>1, <2>2, <2>3, <2>4, GoesOn
  <1> QED BY <1>1, <1>2, <1>3, <1>4 DEF DrmGuard

-----------------------------------------------------------------------------
(* The steps behind the guard.                                             *)
LEMMA WrapType ==
  ASSUME NEW body \in Bodies, NEW backend \in BackendTypes, NEW mode \in CapabilityModes,
         NEW outcome \in {"ok", "no_result", "blocked"}, NEW error \in ErrorCodes \cup {NoError}
  PROVE  LET e == WrapEnvelope(body, backend, mode, outcome, error)
         IN  /\ e \in EnvelopeType
             /\ e.mode = mode /\ e.body = body
             /\ outcome = "ok" <=> e.error = NoError
             /\ outcome = "blocked" <=> e.completion = "BLOCKED"
             /\ outcome = "no_result" => e.error = "NO_RESULT"
             /\ outcome = "blocked" /\ error # NoError => e.error = error
             /\ e.completion = "DONE" => e.error = NoError
             /\ outcome = "ok" /\ mode # "degraded" => e.completion = "DONE"
  <1> DEFINE cs == CompletionState(mode, outcome, error)
             e == WrapEnvelope(body, backend, mode, outcome, error)
  <1>1. /\ cs[1] \in CompletionStates /\ cs[2] \in ErrorCodes \cup {NoError}
        /\ outcome = "ok" <=> cs[2] = NoError
        /\ outcome = "blocked" <=> cs[1] = "BLOCKED"
        /\ outcome = "no_result" => cs[2] = "NO_RESULT"
        /\ outcome = "blocked" /\ error # NoError => cs[2] = error
        /\ cs[1] = "DONE" => cs[2] = NoError
        /\ outcome = "ok" /\ mode # "degraded" => cs[1] = "DONE"
    <2>1. CASE outcome = "ok"
      <3>1. cs = << IF mode = "degraded" THEN "DONE_WITH_CONCERNS" ELSE "DONE", NoError >>
        BY <2>1 DEF CompletionState
      <3> QED BY <2>1, <3>1 DEF CompletionStates
    <2>2. CASE outcome = "no_result"
      <3>1. cs = << "DONE_WITH_CONCERNS", "NO_RESULT" >>
        BY <2>2 DEF CompletionState
      <3> QED BY <2>2, <3>1 DEF CompletionStates, ErrorCodes, NoError
    <2>3. CASE outcome = "blocked"
      <3>1. cs = << "BLOCKED", IF error = NoError THEN "COPYRIGHT_RESTRICTED" ELSE error >>
        BY <2>3 DEF CompletionState
      <3>2. cs[2] \in ErrorCodes /\ cs[2] # NoError
        BY <3>1 DEF ErrorCodes, NoError
      <3> QED BY <2>3, <3>1, <3>2 DEF CompletionStates
    <2> QED BY <2>1, <2>2, <2>3
  <1>2. e = [body |-> body, backend |-> backend, mode |-> mode, completion |-> cs[1], error |-> cs[2]]
    BY DEF WrapEnvelope
  <1> HIDE DEF cs
  <1> QED BY <1>1, <1>2 DEF EnvelopeType

(* No result, or a refusal, by a business function. *)
LEMMA FinishesEmpty ==
  ASSUME IInv, SInv, pc = "serve",
         NEW body \in Bodies, NEW backend \in BackendTypes, NEW mode \in CapabilityModes \ {"degraded"},
         NEW outcome \in {"no_result", "blocked"}, NEW error \in ErrorCodes \cup {NoError},
         outcome = "blocked" => /\ body = "empty"
                                /\ error \in {"AUTH_FAILED", "BACKEND_UNAVAILABLE", "COPYRIGHT_RESTRICTED"}
                                /\ error = "COPYRIGHT_RESTRICTED" =>
                                      req.kind \in {"content_lyrics", "content_stream"},
         Finish(body, backend, mode, outcome, error),
         UNCHANGED <<tables, req, decided, called, served, emitted, lapsed, failed>>
  PROVE  SInv'
  <1> DEFINE e == WrapEnvelope(body, backend, mode, outcome, error)
  <1>1. /\ e \in EnvelopeType /\ e.mode # "degraded" /\ e.error # NoError
        /\ e.completion = "BLOCKED" => e.body = "empty"
        /\ e.completion # "DONE"
        /\ e.error \in {"NO_RESULT", "AUTH_FAILED", "BACKEND_UNAVAILABLE", "COPYRIGHT_RESTRICTED"}
        /\ e.error = "COPYRIGHT_RESTRICTED" => req.kind \in {"content_lyrics", "content_stream"}
    <2>1. "AUTH_FAILED" # NoError /\ "BACKEND_UNAVAILABLE" # NoError /\ "COPYRIGHT_RESTRICTED" # NoError
      BY DEF NoError
    <2> QED BY <2>1, WrapType
  <1>2. Send(e)
    BY DEF Finish
  <1> HIDE DEF e
  <1>3. degraded \in BOOLEAN /\ lapsed' \in BOOLEAN /\ failed' \in BOOLEAN /\ Remembered
    BY DEF SInv, TypeOK
  <1>4. UNCHANGED <<req, degraded>>
    BY DEF decided
  <1>5. /\ pc' = "done" /\ AnswerType' /\ Says' /\ ~Delivered'
        /\ answer' = ServerError \/ answer'.envelope.error = e.error
    BY <1>1, <1>2, <1>3, <1>4, SendSays
  <1>6. ~TokenRefused' /\ ~GuardRefused'
    <2>1. CASE answer' = ServerError
      BY <2>1 DEF TokenRefused, GuardRefused, ServerError
    <2>2. CASE answer'.envelope.error = e.error
      BY <1>1, <2>2 DEF TokenRefused, GuardRefused, TokenErrors, GuardErrors
    <2> QED BY <1>5, <2>1, <2>2
  <1> QED BY <1>3, <1>5, <1>6, EndsQuiet, Ends, BeforeEnd DEF Past

(* Content from the catalogue. *)
LEMMA Serves ==
  ASSUME IInv, SInv, pc = "serve", NEW rows \in SUBSET TrackRows, NEW body \in {"complete", "invalid"},
         ServeRows(rows, body),
         UNCHANGED <<tables, req, decided, called, lapsed, failed>>
  PROVE  SInv'
  <1> DEFINE e == WrapEnvelope(body, "self_hosted", "real", "ok", NoError)
  <1>1. /\ e \in EnvelopeType /\ e.mode # "degraded" /\ e.body # "empty"
        /\ e.completion = "DONE" /\ e.error = NoError
    BY WrapType DEF BackendTypes, CapabilityModes, Bodies
  <1>2. Send(e) /\ served' = rows /\ Emit("content")
    BY DEF ServeRows, Finish
  <1> HIDE DEF e
  <1>3. degraded \in BOOLEAN /\ Remembered /\ called = None
    BY BeforeEnd DEF SInv, TypeOK
  <1>4. /\ pc' = "done" /\ AnswerType' /\ Says' /\ called' = None
        /\ \/ answer' = ServerError
           \/ answer'.envelope.error = NoError /\ answer'.envelope.completion # "BLOCKED" /\ Delivered'
    BY <1>1, <1>2, <1>3, SendSays DEF decided
  <1>5. emitted' \in Seq(Events) /\ AuditTrail'
    <2>1. ~TokenRefused'
      <3>1. CASE answer' = ServerError
        BY <3>1 DEF TokenRefused, ServerError
      <3>2. CASE answer'.envelope.error = NoError
        BY <3>2 DEF TokenRefused, TokenErrors, NoError
      <3> QED BY <1>4, <3>1, <3>2
    <2> QED BY <1>2, <1>4, <2>1, EndsContent DEF Past
  <1>6. TypeOK'
    BY <1>2, <1>4, <1>5 DEF SInv, TypeOK, AnswerType, tables, decided
  <1>7. Remembered'
    BY <1>3, <1>4 DEF Remembered, Early, decided
  <1>8. Trails' /\ Shown'
    <2>1. answer'.status # 500 => answer' # ServerError
      BY DEF ServerError
    <2> QED BY <1>4, <2>1 DEF Trails, Shown, Early, Past
  <1> QED BY <1>4, <1>5, <1>6, <1>7, <1>8 DEF SInv

LEMMA MatchingType ==
  ASSUME IInv, SInv, pc # "new"
  PROVE  Matching \subseteq TrackRows /\ req.wanted \subseteq Tracks
  <1>1. req.wanted \subseteq Tracks
    BY RouteConstants DEF IInv, Shape, RequestType
  <1> QED BY <1>1 DEF SInv, TypeOK, Matching

(* Queries, matches, metadata and streams. *)
LEMMA TracksSays ==
  ASSUME IInv, SInv, QueryBusiness \/ MatchBusiness \/ MetadataBusiness \/ StreamBusiness
  PROVE  SInv'
  <1>1. /\ pc = "serve" /\ UNCHANGED <<tables, req, decided, called, lapsed, failed>>
    BY DEF QueryBusiness, MatchBusiness, MetadataBusiness, StreamBusiness, SelfHosted
  <1>2. ASSUME NEW rows \in SUBSET Matching, NEW body \in {"complete", "invalid"}, ServeRows(rows, body)
        PROVE  SInv'
    BY <1>1, <1>2, Serves, MatchingType
  <1>3. ASSUME NEW body \in {"complete", "empty"}, ServeNothing(body, "real", "no_result", NoError)
        PROVE  SInv'
    <2>1. /\ "self_hosted" \in BackendTypes /\ "real" \in CapabilityModes \ {"degraded"}
          /\ body \in Bodies
      BY DEF BackendTypes, CapabilityModes, Bodies
    <2> QED BY <1>1, <1>3, <2>1, FinishesEmpty DEF ServeNothing
  <1>4. ASSUME req.kind = "content_stream",
               ServeNothing("empty", "unavailable", "blocked", "COPYRIGHT_RESTRICTED")
        PROVE  SInv'
    <2>1. /\ "self_hosted" \in BackendTypes /\ "unavailable" \in CapabilityModes \ {"degraded"}
          /\ "empty" \in Bodies /\ "COPYRIGHT_RESTRICTED" \in ErrorCodes
      BY DEF BackendTypes, CapabilityModes, Bodies, ErrorCodes
    <2> QED BY <1>1, <1>4, <2>1, FinishesEmpty DEF ServeNothing
  <1>5. CASE QueryBusiness
    BY <1>2, <1>3, <1>5 DEF QueryBusiness
  <1>6. CASE MatchBusiness \/ MetadataBusiness
    BY <1>2, <1>3, <1>6 DEF MatchBusiness, MetadataBusiness
  <1>7. CASE StreamBusiness
    <2> DEFINE selected == SelectPath(req.provider, FALSE, "content_stream")
    <2>1. selected.mode = "unavailable" => selected.error = "COPYRIGHT_RESTRICTED"
      BY DEF SelectPath
    <2> HIDE DEF selected
    <2>2. /\ req.kind = "content_stream"
          /\ \/ /\ selected.mode = "unavailable"
                /\ ServeNothing("empty", selected.mode, "blocked", selected.error)
             \/ ServeNothing("empty", "real", "no_result", NoError)
             \/ \E r \in Matching : ServeRows({r}, IF r.format = "ogg" \/ r.bitrate = 0 THEN "invalid"
                                                  ELSE "complete")
      BY <1>7 DEF StreamBusiness, SelfHosted, selected
    <2> QED BY <1>2, <1>3, <1>4, <2>1, <2>2
  <1> QED BY <1>5, <1>6, <1>7

LEMMA LyricsSays == ASSUME IInv, SInv, LyricsBusiness PROVE SInv'
  <1>1. /\ pc = "serve" /\ UNCHANGED <<tables, req, decided, called, lapsed, failed>>
        /\ req.kind = "content_lyrics"
    BY DEF LyricsBusiness, SelfHosted
  <1>2. \/ ServeNothing("empty", "real", "no_result", NoError)
        \/ ServeNothing("empty", "real", "blocked", "COPYRIGHT_RESTRICTED")
        \/ ServeRows({}, "complete")
    BY DEF LyricsBusiness
  <1>3. /\ "self_hosted" \in BackendTypes /\ "real" \in CapabilityModes \ {"degraded"}
        /\ {"complete", "empty"} \subseteq Bodies /\ "COPYRIGHT_RESTRICTED" \in ErrorCodes
    BY DEF BackendTypes, CapabilityModes, Bodies, ErrorCodes
  <1>4. CASE \/ ServeNothing("empty", "real", "no_result", NoError)
             \/ ServeNothing("empty", "real", "blocked", "COPYRIGHT_RESTRICTED")
    BY <1>1, <1>3, <1>4, FinishesEmpty DEF ServeNothing
  <1>5. CASE ServeRows({}, "complete")
    BY <1>1, <1>3, <1>5, Serves
  <1> QED BY <1>2, <1>4, <1>5

LEMMA BusinessFailsSays == ASSUME IInv, SInv, BusinessFails PROVE SInv'
  <1>1. /\ pc = "serve" /\ UNCHANGED <<tables, req, decided, called, served, emitted, lapsed, failed>>
        /\ Throw /\ lapsed \in BOOLEAN /\ failed \in BOOLEAN
    BY DEF BusinessFails, SInv, TypeOK
  <1> QED BY <1>1, Throws DEF Past

LEMMA RefuseThirdPartySays == ASSUME IInv, SInv, RefuseThirdParty PROVE SInv'
  <1>1. pc = "serve" /\ UNCHANGED <<tables, req, decided, called, served, emitted, lapsed, failed>>
    BY DEF RefuseThirdParty
  <1>2. PICK error \in {"AUTH_FAILED", "BACKEND_UNAVAILABLE"} :
           Finish("empty", "third_party_api", "unavailable", "blocked", error)
    BY DEF RefuseThirdParty
  <1>3. /\ "third_party_api" \in BackendTypes /\ "unavailable" \in CapabilityModes \ {"degraded"}
        /\ "empty" \in Bodies /\ error \in ErrorCodes
    BY DEF BackendTypes, CapabilityModes, Bodies, ErrorCodes
  <1> QED BY <1>1, <1>2, <1>3, FinishesEmpty

(* Whatever a provider answers: the status agrees with what the envelope   *)
(* says in the end, and a code that is in no contract is a 500.            *)
LEMMA FetchThirdPartySays == ASSUME IInv, SInv, FetchThirdParty PROVE SInv'
  <1>1. /\ pc = "serve" /\ UNCHANGED <<tables, req, decided, served, emitted, lapsed, failed>>
        /\ req.provider \in Providers /\ path.handle # None
        /\ called' = [provider |-> req.provider, handle |-> path.handle]
    BY RouteConstants DEF FetchThirdParty
  <1>2. degraded \in BOOLEAN /\ Remembered
    BY DEF SInv, TypeOK
  <1>3. path.handle \in Handles
    <2>1. path # None
      BY <1>1, <1>2 DEF Remembered
    <2> QED BY <1>1, <2>1 DEF SInv, TypeOK
  <1>4. called' \in [provider : Providers, handle : Handles] /\ called' # None
    BY <1>1, <1>3, RouteConstants
  <1>5. pc' = "done" /\ AnswerType' /\ Says'
    <2>1. ASSUME NEW e \in EnvelopeType, Send(e)
          PROVE  pc' = "done" /\ AnswerType' /\ Says'
      BY <1>1, <1>4, <1>2, <2>1, SendSays DEF decided
    <2>2. ASSUME NEW b \in ProviderBodies,
                 Send(Overlay(b, WrapEnvelope(b.body, "third_party_api", "real", "ok", NoError)))
          PROVE  pc' = "done" /\ AnswerType' /\ Says'
      <3> DEFINE e == WrapEnvelope(b.body, "third_party_api", "real", "ok", NoError)
      <3>1. e \in EnvelopeType
        BY WrapType, RouteConstants DEF BackendTypes, CapabilityModes
      <3> HIDE DEF e
      <3>2. Overlay(b, e) \in EnvelopeType
        BY <3>1, RouteConstants
      <3>3. Send(Overlay(b, e))
        BY <2>2 DEF e
      <3> QED BY <2>1, <3>2, <3>3
    <2>3. ASSUME NEW error \in ErrorCodes,
                 Finish("empty", "third_party_api", "unavailable", "blocked", error)
          PROVE  pc' = "done" /\ AnswerType' /\ Says'
      <3>1. WrapEnvelope("empty", "third_party_api", "unavailable", "blocked", error) \in EnvelopeType
        BY WrapType DEF BackendTypes, CapabilityModes, Bodies
      <3> QED BY <2>1, <2>3, <3>1 DEF Finish
    <2>4. ASSUME Finish("empty", "third_party_api", "unavailable", "blocked", "unlisted")
          PROVE  pc' = "done" /\ AnswerType' /\ Says'
      <3> DEFINE e == WrapEnvelope("empty", "third_party_api", "unavailable", "blocked", "unlisted")
      <3>1. e = [body |-> "empty", backend |-> "third_party_api", mode |-> "unavailable",
                 completion |-> "BLOCKED", error |-> "unlisted"]
        BY DEF WrapEnvelope, CompletionState, NoError
      <3>2. Degrade(e) = e
        BY <3>1 DEF Degrade
      <3>3. ~Conforms(e)
        BY <3>1 DEF Conforms, ErrorCodes, NoError
      <3>4. Reply(HttpStatus(e), Degrade(e))
        BY <2>4 DEF Finish, Send
      <3> HIDE DEF e
      <3> QED BY <3>2, <3>3, <3>4, ErrorNotNone DEF Reply, AnswerType, Says, ServerError
    <2> QED BY <2>2, <2>3, <2>4 DEF FetchThirdParty
  <1>6. emitted' \in Seq(Events) /\ AuditTrail'
    BY <1>1, <1>4, <1>5, EndsQuiet DEF TokenRefused, GuardRefused, Past, decided
  <1>7. TypeOK'
    BY <1>1, <1>4, <1>5, <1>6 DEF SInv, TypeOK, AnswerType, tables, decided
  <1>8. Remembered'
    BY <1>1, <1>2, <1>5 DEF Remembered, Early, decided
  <1>9. Trails' /\ Shown'
    BY <1>1, <1>5, TrailNow DEF Trails, Shown, Early, Past
  <1> QED BY <1>5, <1>6, <1>7, <1>8, <1>9 DEF SInv

-----------------------------------------------------------------------------
LEMMA StaysSame ==
  ASSUME Trails, AuditTrail, UNCHANGED <<pc, req, decided, called, emitted, answer>>
  PROVE  Trails' /\ AuditTrail'
  <1>1. (TokenRefused' <=> TokenRefused) /\ (GuardRefused' <=> GuardRefused)
        /\ (Delivered' <=> Delivered) /\ (HandleRefused' <=> HandleRefused)
    BY DEF TokenRefused, GuardRefused, Delivered, HandleRefused, HandleAllowed
  <1>2. TokenTrail' = TokenTrail /\ HandleTrail' = HandleTrail /\ ContentTrail' = ContentTrail
    BY <1>1, SameTrails DEF ContentTrail, decided
  <1> QED BY <1>1, <1>2 DEF Trails, AuditTrail, decided

LEMMA OthersSays == ASSUME IInv, SInv, Others PROVE SInv'
  <1>1. UNCHANGED <<pc, req, decided, called, served, emitted, answer, failed>>
    BY DEF Others, PushPolicy, RetirePolicy, PublishTrack, UnpublishTrack, SeedLyrics
  <1>2. Remembered'
    BY <1>1 DEF SInv, Remembered, decided
  <1>3. Trails' /\ AuditTrail'
    BY <1>1, StaysSame DEF SInv
  <1>4. Trails' /\ AuditTrail' /\ Says' /\ Shown'
    BY <1>1, <1>3 DEF SInv, Says, Shown, Delivered
  <1>5. ASSUME lapsed' \in BOOLEAN, stored' \subseteq PolicyRows, superseded' \subseteq stored',
               tracks' \in [Tracks -> TrackRows \cup {None}],
               lyrics' \in [Tracks -> LyricSheets \cup {<< >>}]
        PROVE  TypeOK'
    BY <1>1, <1>5 DEF SInv, TypeOK, decided
  <1>7. /\ stored \subseteq PolicyRows /\ superseded \subseteq stored /\ lapsed \in BOOLEAN
        /\ tracks \in [Tracks -> TrackRows \cup {None}]
        /\ lyrics \in [Tracks -> LyricSheets \cup {<< >>}]
    BY DEF SInv, TypeOK
  <1>8. CASE PushPolicy
    <2>1. TypeOK'
      BY <1>5, <1>7, <1>8 DEF PushPolicy, Watch, Restricts, Policies!Push
    <2> QED BY <1>2, <1>4, <2>1 DEF SInv
  <1>9. CASE RetirePolicy
    <2>1. TypeOK'
      BY <1>5, <1>7, <1>9 DEF RetirePolicy, Watch, Restricts, Policies!Retire, Policies!InForce
    <2> QED BY <1>2, <1>4, <2>1 DEF SInv
  <1>10. CASE PublishTrack \/ UnpublishTrack
    <2>1. TypeOK'
      BY <1>5, <1>7, <1>10 DEF PublishTrack, UnpublishTrack
    <2> QED BY <1>2, <1>4, <2>1 DEF SInv
  <1>11. CASE SeedLyrics
    <2>1. TypeOK'
      BY <1>5, <1>7, <1>11 DEF SeedLyrics
    <2> QED BY <1>2, <1>4, <2>1 DEF SInv
  <1> QED BY <1>8, <1>9, <1>10, <1>11 DEF Others

LEMMA StandsStill == ASSUME SInv, UNCHANGED vars PROVE SInv'
  <1>2. TypeOK' /\ Remembered'
    BY DEF SInv, TypeOK, Remembered, vars, tables, decided
  <1>3. Trails' /\ AuditTrail'
    BY StaysSame DEF SInv, vars
  <1>4. Says' /\ Shown'
    BY DEF SInv, Says, Shown, Delivered, vars
  <1> QED BY <1>2, <1>3, <1>4 DEF SInv

LEMMA NextSays == IInv /\ SInv /\ [Next]_vars => SInv'
  <1> SUFFICES ASSUME IInv, SInv, [Next]_vars PROVE SInv'
    OBVIOUS
  <1>1. CASE UNCHANGED vars
    BY <1>1, StandsStill
  <1>2. CASE Others
    BY <1>2, OthersSays
  <1>3. CASE Handler
    BY <1>3, ArriveSays, VerifyEnvelopeSays, VerifyTokenSays, LookupBindingSays,
       ReceiveAndAuthorizeSays, ResolvePathSays, ReadRowSays, CapabilityFilterSays, DrmGuardSays,
       TracksSays, LyricsSays, BusinessFailsSays, RefuseThirdPartySays, FetchThirdPartySays
    DEF Handler
  <1> QED BY <1>1, <1>2, <1>3 DEF Next

LEMMA AnswersInvariance == Spec => []SInv
  BY InitInv, NextInv, SInvInit, NextSays, PTL DEF Spec

-----------------------------------------------------------------------------
(* Requests, tables, trail and answers keep their types.                   *)
THEOREM RouteTypeCorrect == Spec => []TypeOK
  <1>1. SInv => TypeOK
    BY DEF SInv
  <1> QED BY <1>1, AnswersInvariance, PTL

(* Whatever a provider sends, status and completion agree, and DONE comes  *)
(* without an error and with every field; this back end's own refusals     *)
(* give their reason, and neither fields nor rows (createEnvelope, send).  *)
THEOREM RouteAnswers == Spec => []AnswerConsistent
  <1>1. IInv /\ SInv => AnswerConsistent
    <2> SUFFICES ASSUME IInv, SInv, pc = "done", answer.status # 500 PROVE AnswerConsistent
      BY DEF AnswerConsistent
    <2> QED BY DEF SInv, Says, Shown, AnswerConsistent
  <1> QED BY <1>1, Invariance, AnswersInvariance, PTL

(* Event by event: what a request owes for its token and its handle comes  *)
(* first, in this order and once, the event for content last, and there    *)
(* are no others, for provider calls and other refusals least of all.      *)
THEOREM RouteTrail == Spec => []AuditTrail
  <1>1. SInv => AuditTrail
    BY DEF SInv
  <1> QED BY <1>1, AnswersInvariance, PTL

(* Up to the guard nothing is delivered.                                   *)
LEMMA NotBefore ==
  ASSUME IInv, Handler, pc # "serve"
  PROVE  ~Delivered'
  <1>1. pc = "done" \/ answer = None
    BY DEF IInv, Shape
  <1>2. ASSUME answer = None, UNCHANGED answer PROVE ~Delivered'
    BY <1>2 DEF Delivered
  <1>3. \A status : \A error \in ErrorCodes : Reply(status, Refusal(error)) => ~Delivered'
    BY RefusalKeeps
  <1>4. Throw => ~Delivered'
    BY ThrowKeeps
  <1>5. /\ {"INVALID_ENVELOPE", "JWKS_UNAVAILABLE", "INVALID_TOKEN", "DEVICE_NOT_BOUND",
            "LOOKUP_UNAVAILABLE", "AUTH_FAILED", "BACKEND_UNAVAILABLE",
            "CAPABILITY_UNSUPPORTED"} \subseteq ErrorCodes
        /\ DrmErrors(Active, req) \subseteq ErrorCodes
    BY DEF ErrorCodes, DrmErrors
  <1>6. CASE Arrive
    BY <1>1, <1>2, <1>6 DEF Arrive, Goto
  <1>7. CASE VerifyEnvelope \/ VerifyToken \/ LookupBinding
    BY <1>1, <1>2, <1>3, <1>5, <1>7 DEF VerifyEnvelope, VerifyToken, LookupBinding, Goto, RefuseToken
  <1>8. CASE ReceiveAndAuthorize
    BY <1>1, <1>2, <1>3, <1>5, <1>8 DEF ReceiveAndAuthorize, Goto
  <1>9. CASE ResolvePath
    <2>1. \A backend, handle : TakePath(backend, handle) => ~Delivered'
      BY <1>1, <1>2, <1>3, <1>5, <1>9 DEF TakePath, Goto, ResolvePath
    <2> QED BY <1>4, <1>9, <2>1 DEF ResolvePath
  <1>10. CASE ReadRow
    BY <1>1, <1>2, <1>4, <1>10 DEF ReadRow, Goto
  <1>11. CASE CapabilityFilter
    BY <1>1, <1>2, <1>3, <1>5, <1>11 DEF CapabilityFilter, Goto
  <1>12. CASE DrmGuard
    BY <1>1, <1>2, <1>3, <1>5, <1>12 DEF DrmGuard, Goto
  <1> QED BY <1>6, <1>7, <1>8, <1>9, <1>10, <1>11, <1>12
          DEF Handler, QueryBusiness, MatchBusiness, MetadataBusiness, StreamBusiness,
              LyricsBusiness, SelfHosted, BusinessFails, RefuseThirdParty, FetchThirdParty

(* What a self-hosted handler answers without rows is no content. *)
LEMMA EmptyKeeps ==
  ASSUME IInv, SInv, pc = "serve", req' = req, called' = called, UNCHANGED decided,
         NEW backend \in BackendTypes, NEW mode \in CapabilityModes \ {"degraded"},
         NEW outcome \in {"no_result", "blocked"}, NEW error \in ErrorCodes \cup {NoError},
         Finish("empty", backend, mode, outcome, error)
  PROVE  ~Delivered'
  <1> DEFINE e == WrapEnvelope("empty", backend, mode, outcome, error)
  <1>1. /\ e \in EnvelopeType /\ e.mode # "degraded" /\ e.error # NoError
        /\ e.completion # "DONE" /\ e.body = "empty"
    BY WrapType DEF Bodies
  <1>2. Send(e)
    BY DEF Finish
  <1> HIDE DEF e
  <1> QED BY <1>1, <1>2, SendSays DEF SInv, TypeOK, decided

(* However long sheets are, and whatever is seeded meanwhile, lyrics are   *)
(* withheld while a restricted line is there.                              *)
THEOREM RouteLyrics == Spec => RestrictedLyricsWithheld
  <1> DEFINE Cleared == \A t \in req.wanted : \A n \in DOMAIN lyrics[t] : lyrics[t][n] = "cleared"
  <1>1. ASSUME IInv, SInv, [Next]_vars, ~Delivered, Delivered', req.kind = "content_lyrics",
               called' = None
        PROVE  Cleared
    <2>1. CASE Others \/ UNCHANGED vars
      BY <1>1, <2>1 DEF Others, PushPolicy, RetirePolicy, PublishTrack, UnpublishTrack, SeedLyrics,
                        vars, Delivered
    <2>2. CASE Handler /\ pc # "serve"
      BY <1>1, <2>2, NotBefore
    <2>3. CASE LyricsBusiness
      <3>1. /\ pc = "serve" /\ UNCHANGED <<req, called, decided>>
        BY <2>3 DEF LyricsBusiness, SelfHosted
      <3>2. /\ "self_hosted" \in BackendTypes /\ "real" \in CapabilityModes \ {"degraded"}
            /\ "COPYRIGHT_RESTRICTED" \in ErrorCodes
        BY DEF BackendTypes, CapabilityModes, ErrorCodes
      <3>3. ASSUME NEW outcome \in {"no_result", "blocked"}, NEW error \in ErrorCodes \cup {NoError},
                   ServeNothing("empty", "real", outcome, error)
            PROVE  FALSE
        BY <1>1, <3>1, <3>2, <3>3, EmptyKeeps DEF ServeNothing
      <3>4. PICK t \in req.wanted : ~Restricted(lyrics[t])
        BY <2>3, <3>2, <3>3 DEF LyricsBusiness
      <3>5. req.wanted = {t} /\ t \in Tracks
        BY <1>1, <3>1, <3>4, MatchingType, RouteConstants DEF IInv, Shape
      <3>6. lyrics[t] \in Seq({"cleared", "restricted"})
        <4>1. lyrics \in [Tracks -> LyricSheets \cup {<< >>}]
          BY <1>1 DEF SInv, TypeOK
        <4>2. lyrics[t] \in LyricSheets \cup {<< >>}
          BY <3>5, <4>1
        <4>3. << >> \in Seq({"cleared", "restricted"})
          OBVIOUS
        <4> QED BY <4>2, <4>3, RouteConstants
      <3>7. \A n \in DOMAIN lyrics[t] : lyrics[t][n] = "cleared"
        BY <3>4, <3>6 DEF Restricted
      <3> QED BY <3>5, <3>7
    <2>4. CASE QueryBusiness \/ MatchBusiness \/ MetadataBusiness \/ StreamBusiness
      BY <1>1, <2>4 DEF QueryBusiness, MatchBusiness, MetadataBusiness, StreamBusiness, SelfHosted
    <2>5. CASE BusinessFails
      BY <1>1, <2>5, ThrowKeeps DEF BusinessFails
    <2>6. CASE RefuseThirdParty
      <3>1. PICK error \in {"AUTH_FAILED", "BACKEND_UNAVAILABLE"} :
               Finish("empty", "third_party_api", "unavailable", "blocked", error)
        BY <2>6 DEF RefuseThirdParty
      <3>2. /\ "third_party_api" \in BackendTypes /\ "unavailable" \in CapabilityModes \ {"degraded"}
            /\ error \in ErrorCodes /\ pc = "serve" /\ UNCHANGED <<req, called, decided>>
        BY <2>6 DEF BackendTypes, CapabilityModes, ErrorCodes, RefuseThirdParty
      <3> QED BY <1>1, <3>1, <3>2, EmptyKeeps
    <2>7. CASE FetchThirdParty
      <3>1. called' = None /\ called' = [provider |-> req.provider, handle |-> path.handle]
        BY <1>1, <2>7 DEF FetchThirdParty
      <3>2. path.handle \in Handles /\ req.provider \in Providers
        BY <1>1, <2>7, RouteConstants DEF FetchThirdParty, SInv, TypeOK, Remembered
      <3> QED BY <3>1, <3>2, RouteConstants
    <2>8. CASE Handler /\ pc = "serve"
      BY <1>1, <2>3, <2>4, <2>5, <2>6, <2>7, <2>8
         DEF Handler, Arrive, VerifyEnvelope, VerifyToken, LookupBinding, ReceiveAndAuthorize,
             ResolvePath, ReadRow, CapabilityFilter, DrmGuard
    <2> QED BY <1>1, <2>1, <2>2, <2>8 DEF Next
  <1>2. IInv /\ SInv /\ [Next]_vars =>
           [~Delivered /\ Delivered' /\ req.kind = "content_lyrics" /\ called' = None => Cleared]_vars
    BY <1>1
  <1> QED BY <1>2, Invariance, AnswersInvariance, PTL DEF Spec, RestrictedLyricsWithheld
-----------------------------------------------------------------------------
(* No step of the handler touches the tables.                              *)
LEMMA HandlerTables ==
  ASSUME Handler
  PROVE  UNCHANGED tables
  BY DEF Handler, Arrive, VerifyEnvelope, VerifyToken, LookupBinding, ReceiveAndAuthorize,
         ResolvePath, ReadRow, CapabilityFilter, DrmGuard, QueryBusiness, MatchBusiness,
         MetadataBusiness, StreamBusiness, LyricsBusiness, BusinessFails, RefuseThirdParty,
         FetchThirdParty

(* After its arrival a request and its restrictions are as they were. *)
LEMMA HandlerKeeps ==
  ASSUME Handler, ~Arrive
  PROVE  UNCHANGED <<req, lapsed>> /\ pc # "new"
  BY DEF Handler, VerifyEnvelope, VerifyToken, LookupBinding, ReceiveAndAuthorize,
         ResolvePath, ReadRow, CapabilityFilter, DrmGuard, QueryBusiness, MatchBusiness,
         MetadataBusiness, StreamBusiness, LyricsBusiness, BusinessFails, RefuseThirdParty,
         FetchThirdParty, SelfHosted


-----------------------------------------------------------------------------
(* The policies as the handler sees them are the table of PolicyTable,     *)
(* which PolicyStore implements: what the route does to them is a push, an *)
(* update, or nothing.                                                     *)
THEOREM RoutePolicies == Spec => Policies!Spec
  <1>1. Init => Policies!Init
    BY DEF Init, Policies!Init
  <1>2. [Next]_vars => [Policies!Next]_(Policies!policyVars)
    <2> SUFFICES ASSUME [Next]_vars PROVE [Policies!Next]_(Policies!policyVars)
      OBVIOUS
    <2>1. CASE UNCHANGED <<stored, superseded>>
      BY <2>1 DEF Policies!policyVars
    <2>2. CASE PushPolicy
      BY <2>2 DEF PushPolicy, Policies!Next
    <2>3. CASE RetirePolicy
      BY <2>3 DEF RetirePolicy, Policies!Next
    <2>4. CASE Others \/ UNCHANGED vars
      BY <2>1, <2>2, <2>3, <2>4 DEF Others, PublishTrack, UnpublishTrack, SeedLyrics, vars, tables
    <2>5. CASE Handler
      BY <2>1, <2>5, HandlerTables DEF tables
    <2> QED BY <2>4, <2>5 DEF Next
  <1> QED BY <1>1, <1>2, PTL DEF Spec, Policies!Spec

(* The catalogue as the handler sees it is that of Catalogue, which        *)
(* ReviewTx implements: what the route assumes is done to it is a listing, *)
(* a takedown, or a line.                                                  *)
THEOREM RouteCatalogue == Spec => Catalog!Spec
  <1> DEFINE listed == {t \in Tracks : tracks[t] # None}
             worded == {t \in Tracks : lyrics[t] # << >>}
  <1>1. Init => Catalog!Init
    BY DEF Init, Catalog!Init
  <1>2. ASSUME TypeOK, [Next]_vars PROVE [Catalog!Next]_(Catalog!catalogueVars)
    <2>1. /\ tracks \in [Tracks -> TrackRows \cup {None}]
          /\ lyrics \in [Tracks -> LyricSheets \cup {<< >>}]
      BY <1>2 DEF TypeOK
    <2>2. CASE PublishTrack
      <3>1. PICK t \in Tracks, r \in TrackRows :
               tracks[t] = None /\ tracks' = [tracks EXCEPT ![t] = r] /\ lyrics' = lyrics
        BY <2>2 DEF PublishTrack
      <3>2. r # None
        BY RouteConstants
      <3>3. listed' = listed \cup {t} /\ worded' = worded
        BY <2>1, <3>1, <3>2
      <3> QED BY <3>1, <3>3 DEF Catalog!Next, Catalog!List
    <2>3. CASE UnpublishTrack
      <3>1. PICK t \in Tracks : /\ tracks[t] # None /\ lyrics[t] = << >>
                                /\ tracks' = [tracks EXCEPT ![t] = None] /\ lyrics' = lyrics
        BY <2>3 DEF UnpublishTrack
      <3>2. listed' = listed \ {t} /\ worded' = worded
        BY <2>1, <3>1
      <3> QED BY <3>1, <3>2 DEF Catalog!Next, Catalog!TakeDown
    <2>4. CASE SeedLyrics
      <3>1. PICK t \in Tracks, licence \in {"cleared", "restricted"} :
               /\ tracks[t] # None /\ tracks' = tracks
               /\ lyrics' = [lyrics EXCEPT ![t] = Append(@, licence)]
               /\ Append(lyrics[t], licence) \in LyricSheets
        BY <2>4 DEF SeedLyrics
      <3>2. Append(lyrics[t], licence) # << >>
        <4>1. lyrics[t] \in Seq({"cleared", "restricted"})
          <5>1. lyrics[t] \in LyricSheets \cup {<< >>}
            BY <2>1
          <5>2. << >> \in Seq({"cleared", "restricted"})
            OBVIOUS
          <5> QED BY <5>1, <5>2, RouteConstants
        <4> QED BY <4>1, AppendProperties
      <3>3. worded' = worded \cup {t} /\ listed' = listed
        BY <2>1, <3>1, <3>2
      <3> QED BY <3>1, <3>3 DEF Catalog!Next, Catalog!AddLine
    <2>5. CASE UNCHANGED <<tracks, lyrics>>
      BY <2>5 DEF Catalog!catalogueVars
    <2>6. CASE Handler \/ PushPolicy \/ RetirePolicy \/ UNCHANGED vars
      BY <2>5, <2>6, HandlerTables DEF PushPolicy, RetirePolicy, vars, tables
    <2> QED BY <1>2, <2>2, <2>3, <2>4, <2>6 DEF Next, Others
  <1> QED BY <1>1, <1>2, RouteTypeCorrect, PTL DEF Spec, Catalog!Spec

(* A restriction that is in the table when a request arrives, and still in *)
(* force when it is answered, keeps the request from content and provider, *)
(* whatever else is pushed and retired in between (drmGuard in handle()).  *)
THEOREM RouteStanding ==
  ASSUME NEW p \in PolicyRows
  PROVE  Spec => []( pc = "new" /\ p \in stored =>
                     [](pc = "done" /\ p \in Active /\ Restricts({p}, req) =>
                           ~Delivered /\ called = None) )
  <1> DEFINE Stands == p \in Active /\ Restricts({p}, req)
             Under  == p \in stored /\ (pc # "new" /\ Stands => ~lapsed)
  <1>1. pc = "new" /\ p \in stored => Under
    OBVIOUS
  <1>2. \A policies, q : p \in policies /\ Restricts({p}, q) => Restricts(policies, q)
    BY DEF Restricts
  <1>3. Under /\ IInv /\ [Next]_vars => Under'
    <2> SUFFICES ASSUME Under, IInv, [Next]_vars PROVE Under'
      OBVIOUS
    <2>1. CASE Arrive
      BY <1>2, <2>1 DEF Arrive, tables, Active, Policies!InForce
    <2>2. CASE Handler /\ ~Arrive
      <3>1. UNCHANGED <<tables, req, lapsed>> /\ pc # "new"
        BY <2>2, HandlerTables, HandlerKeeps
      <3> QED BY <3>1 DEF tables, Active, Policies!InForce
    <2>3. CASE PushPolicy \/ RetirePolicy
      <3>1. /\ Watch(Active') /\ UNCHANGED <<pc, req>>
            /\ stored \subseteq stored' /\ superseded \subseteq superseded'
        BY <2>3 DEF PushPolicy, RetirePolicy, Policies!Push, Policies!Retire
      <3>2. p \in Active' => p \in Active
        BY <3>1 DEF Active, Policies!InForce
      <3> QED BY <1>2, <3>1, <3>2 DEF Watch
    <2>4. CASE PublishTrack \/ UnpublishTrack \/ SeedLyrics \/ UNCHANGED vars
      BY <2>4 DEF PublishTrack, UnpublishTrack, SeedLyrics, vars, tables, Active, Policies!InForce
    <2> QED BY <2>1, <2>2, <2>3, <2>4 DEF Next, Others
  <1>4. Under /\ IInv => (pc = "done" /\ p \in Active /\ Restricts({p}, req) =>
                             ~Delivered /\ called = None)
    BY DEF IInv, Noticed, Used
  <1> HIDE DEF Under, Stands
  <1> QED BY <1>1, <1>3, <1>4, Invariance, PTL DEF Spec

(* Only a stored newer version of its rule puts a policy out of force:     *)
(* the UPDATE of a late push retires what is older than itself, no more.   *)
THEOREM RouteReplaced == Spec => []Policies!Replaced
  <1>1. Policies!Init => Policies!Replaced
    BY DEF Policies!Init, Policies!Replaced
  <1>2. ASSUME Policies!Replaced, [Policies!Next]_(Policies!policyVars)
        PROVE  Policies!Replaced'
    <2>1. ASSUME NEW p \in PolicyRows, Policies!Push(p) PROVE Policies!Replaced'
      BY <1>2, <2>1 DEF Policies!Push, Policies!Replaced, Policies!Newer
    <2>2. ASSUME NEW p \in PolicyRows, Policies!Retire(p) PROVE Policies!Replaced'
      BY <1>2, <2>2 DEF Policies!Retire, Policies!Replaced, Policies!Newer, Policies!InForce
    <2>3. CASE UNCHANGED Policies!policyVars
      BY <1>2, <2>3 DEF Policies!policyVars, Policies!Replaced, Policies!Newer
    <2> QED BY <1>2, <2>1, <2>2, <2>3 DEF Policies!Next
  <1> QED BY <1>1, <1>2, RoutePolicies, PTL DEF Policies!Spec

(* A restriction that was pushed before a request arrived, and is still    *)
(* the newest version of its rule when the request is answered, keeps it   *)
(* from content and provider: of the pushes only their order in the table  *)
(* matters, however late their UPDATEs come, or if they come at all.       *)
THEOREM RouteNewest ==
  ASSUME NEW p \in PolicyRows
  PROVE  Spec => []( pc = "new" /\ p \in stored =>
                     [](/\ pc = "done" /\ Restricts({p}, req)
                        /\ p \in stored /\ \A o \in stored : ~Policies!Newer(o, p)
                        => ~Delivered /\ called = None) )
  <1> DEFINE Newest == p \in stored /\ \A o \in stored : ~Policies!Newer(o, p)
  <1>1. Policies!Replaced /\ Newest => p \in Active
    BY DEF Policies!Replaced, Active, Policies!InForce
  <1> HIDE DEF Newest
  <1>2. Spec => []( pc = "new" /\ p \in stored =>
                    [](pc = "done" /\ Restricts({p}, req) /\ Newest => ~Delivered /\ called = None) )
    BY <1>1, RouteReplaced, RouteStanding, PTL
  <1> QED BY <1>2, PTL DEF Newest
=============================================================================
