---------------------------- MODULE ContentRoute ----------------------------
(***************************************************************************)
(* One request to the content API (index.ts): the token hook, the caller   *)
(* and handle checks, the choice of back end, the capability filter, the   *)
(* drm guard, the business function, the contract check of the answer.     *)
(* At each await others change the policies and the catalogue, and a read  *)
(* may fail.  Handlers share nothing but these tables and the audit file,  *)
(* so one handler among changing tables stands for all of them.            *)
(***************************************************************************)
EXTENDS Envelope, Sequences, FiniteSets

CONSTANTS
    Requests,            \* the requests that may arrive
    PolicyRows,          \* rows that may be pushed: [rule, version, action, ref]
    Tracks,              \* values of tracks.track_id
    TrackRows,           \* what may be published: [format, bitrate, album]
    LyricSheets,         \* sheets as far as they may be seeded: lyrics_license by line
    SecretHandles,       \* handles that the secret store knows
    ProvidersWithUrl,    \* providers with a PROVIDER_BASE_URL
    ProviderBodies,      \* bodies that providers answer: [body, ...], see Overlay
    ProviderAvailable,   \* PROVIDER_AVAILABLE # "false"
    IamConfigured,       \* IAM_JWKS_URL is set
    None

Providers == {"self", "qq", "netease", "kugou"}
Handles   == [source : {"^cloud:", "^backend:", "^ops:"}, provider : Providers \cup {None}]

(* wanted: the tracks that the request names, or that match its query.     *)
(* token: "none" also stands for version 1; "malformed" for an envelope    *)
(* that does not parse.  away: X-Region is not the region of the back end. *)
RequestType ==
    [kind : Kinds, provider : Providers \cup {"unknown"}, wanted : SUBSET Tracks,
     caller : {"cloud-ext", "device-hub", "content-backend"}, handle : Handles \cup {None},
     away : BOOLEAN, token : {"none", "good", "bad", "malformed"},
     cap : {None} \cup [kinds : SUBSET Kinds, formats : SUBSET {"mp3", "aac", "flac", "ogg"},
                        maxBitrate : Nat]]

PolicyType == [rule : Providers \cup {"drm"}, version : Nat,
               action : {"allow", "block", "region_restrict"}, ref : Handles \cup {None}]

(* The statuses of answers with an envelope. *)
Statuses == {200, 400, 401, 403, 503}

(* Bitrates are ranks; 0 is below the minimum of the contract. *)
TrackType  == [format : {"mp3", "aac", "flac", "ogg"}, bitrate : Nat, album : BOOLEAN]

ASSUME RouteConstants ==
    /\ Requests \subseteq RequestType
    /\ \A q \in Requests : q.kind \notin {"content_query", "content_match"} =>
                            \E t \in Tracks : q.wanted = {t}
    /\ PolicyRows \subseteq PolicyType
    /\ TrackRows \subseteq TrackType
    /\ LyricSheets \subseteq Seq({"cleared", "restricted"})
    /\ SecretHandles \subseteq Handles
    /\ ProvidersWithUrl \subseteq Providers
    /\ \A b \in ProviderBodies :
          b.body \in Bodies /\ \A e \in EnvelopeType : Overlay(b, e) \in EnvelopeType
    /\ ProviderAvailable \in BOOLEAN /\ IamConfigured \in BOOLEAN
    /\ None \notin RequestType \cup TrackType \cup Handles
    /\ None \notin Kinds \cup Providers
    /\ None \notin [status : Statuses \cup {500}, envelope : EnvelopeType \cup {None}]
    /\ None \notin [backend : BackendTypes, handle : Handles \cup {None}]
    /\ None \notin [provider : Providers, handle : Handles]

VARIABLES
    stored, superseded,  \* rows of content_policy, and those marked superseded
    tracks, lyrics,      \* the catalogue: a row or None, the licences of the lines
    pc, req,             \* the await the handler is in; the request
    verified,            \* req.endUser is set
    path,                \* [backend, handle]: what resolveProviderPath returned
    row,                 \* the row the stream route read for the capability filter
    degraded,            \* capDec.degraded
    called,              \* the provider and handle of the call to a provider, or None
    served,              \* rows of tracks put into the answer
    emitted,             \* audit events emitted, in order
    answer,              \* the status and envelope sent, or None
    lapsed,              \* history: since arrival there was a moment without restriction
    failed               \* history: a read of the policies has failed

tables  == <<stored, superseded, tracks, lyrics>>
decided == <<verified, path, row, degraded>>
vars    == <<tables, pc, req, decided, called, served, emitted, answer, lapsed, failed>>

-----------------------------------------------------------------------------
(* What the code decides, as operators.                                    *)

(* The table that PolicyStore implements; a row is known by its content.   *)
Policies == INSTANCE PolicyTable
               WITH Rows      <- PolicyRows,
                    RuleOf    <- [p \in PolicyRows |-> p.rule],
                    VersionOf <- [p \in PolicyRows |-> p.version]

(* The catalogue that ReviewTx implements. *)
Catalog == INSTANCE Catalogue
               WITH published <- {t \in Tracks : tracks[t] # None},
                    sung      <- {t \in Tracks : lyrics[t] # << >>}

(* latestPolicy(); the SELECT has no ORDER BY. *)
Active == Policies!InForce

(* History only: a row restricts q, whatever checkDrm makes of it. *)
Restricts(policies, q) ==
    \E p \in policies : p.action = "block" \/ (p.action = "region_restrict" /\ q.away)

(* The error codes checkDrm may return; {} is "allow".  It returns at the  *)
(* first row that hits, so the order of the rows decides between two.      *)
(* Variant: a rule that allows ends the loop. *)
DrmErrors_AllowEnds(policies, q) ==
    LET hits == {p \in policies : p.action = "block" \/ (p.action = "region_restrict" /\ q.away)}
    IN  IF \E p \in policies : p.action = "allow" THEN {}
        ELSE {IF p.action = "block" THEN "COPYRIGHT_RESTRICTED" ELSE "REGION_RESTRICTED" : p \in hits}

DrmErrors(policies, q) ==
    LET hits == {p \in policies : p.action = "block" \/ (p.action = "region_restrict" /\ q.away)}
    IN  {IF p.action = "block" THEN "COPYRIGHT_RESTRICTED" ELSE "REGION_RESTRICTED" : p \in hits}

InboundCaller(raw) == IF raw \in {"cloud-ext", "device-hub"} THEN raw ELSE "anonymous"

(* ALLOW_MATRIX: callers and the sources they may name.  device-hub has none. *)
AllowMatrix == {<<"content-backend", "^backend:">>, <<"cloud-ext", "^cloud:">>,
                <<"ops-platform", "^ops:">>, <<"provisioning-service", "^device:">>}

AuthorizeBackendType(caller, backend) == backend = "self_hosted" \/ caller = "cloud-ext"

(* resolveHandle(handle, "content-backend", provider) succeeds. *)
(* Variant: expectedProvider is ignored. *)
Resolves_AnyProvider(h, provider) ==
    <<"content-backend", h.source>> \in AllowMatrix /\ h \in SecretHandles

Resolves(h, provider) ==
    /\ <<"content-backend", h.source>> \in AllowMatrix
    /\ h.provider \in {provider, None}
    /\ h \in SecretHandles

SelectPath(provider, authorized, kind) ==
    LET own      == provider = "self"
        granted  == authorized /\ ProviderAvailable
        fallback == kind \in {"content_query", "content_match"}
    IN  [backend |-> IF ~own /\ granted THEN "third_party_api" ELSE "self_hosted",
         mode    |-> IF own \/ granted THEN "real"
                     ELSE IF fallback THEN "degraded" ELSE "unavailable",
         error   |-> IF own \/ granted \/ fallback THEN NoError
                     ELSE IF authorized THEN "BACKEND_UNAVAILABLE" ELSE "COPYRIGHT_RESTRICTED"]

(* capabilityFilter refuses; only the stream route has a row to compare. *)
Unsupported(kind, r) ==
    kind \notin req.cap.kinds \/ (r # None /\ r.format \notin req.cap.formats)

(* The stream route turns DONE into a degraded answer.                     *)
(* Variant: whatever the answer was. *)
Degrade_Always(e) ==
    IF degraded THEN [e EXCEPT !.mode = "degraded", !.completion = "DONE_WITH_CONCERNS"] ELSE e

Degrade(e) ==
    IF degraded /\ e.completion = "DONE"
    THEN [e EXCEPT !.mode = "degraded", !.completion = "DONE_WITH_CONCERNS"] ELSE e

-----------------------------------------------------------------------------
Init ==
    /\ stored = {} /\ superseded = {}
    /\ tracks = [t \in Tracks |-> None] /\ lyrics = [t \in Tracks |-> << >>]
    /\ pc = "new" /\ req = None
    /\ verified = FALSE /\ path = None /\ row = None /\ degraded = FALSE
    /\ called = None /\ served = {} /\ emitted = << >> /\ answer = None
    /\ lapsed = FALSE /\ failed = FALSE

Emit(event) == emitted' = Append(emitted, event)

ServerError == [status |-> 500, envelope |-> None]

(* The onSend hook turns an answer that breaks the contract into a 500. *)
Reply(status, e) ==
    /\ pc' = "done"
    /\ answer' = IF Conforms(e) THEN [status |-> status, envelope |-> e] ELSE ServerError

Throw == pc' = "done" /\ answer' = ServerError

Goto(to) == pc' = to /\ UNCHANGED answer

Arrive ==
    /\ pc = "new"
    /\ \E q \in Requests : req' = q /\ lapsed' = ~Restricts(Active, q)
    /\ Goto("verify")
    /\ UNCHANGED <<tables, decided, called, served, emitted, failed>>

(* A refusal of tokenVerifyHook.  Variant: it leaves no event. *)
RefuseToken_Silent(status, error) == Reply(status, Refusal(error)) /\ UNCHANGED emitted

RefuseToken(status, error) == Reply(status, Refusal(error)) /\ Emit("token_refused")

(* tokenVerifyHook: parseRequestEnvelope, and the way out for anonymous    *)
(* requests.  Without IAM the hook does nothing.                           *)
VerifyEnvelope ==
    /\ pc = "verify"
    /\ \/ /\ IamConfigured => req.token = "none"
          /\ Goto("authorize") /\ UNCHANGED emitted
       \/ /\ IamConfigured /\ req.token \in {"good", "bad"}
          /\ Goto("jwt") /\ UNCHANGED emitted
       \/ /\ IamConfigured /\ req.token = "malformed"
          /\ RefuseToken(400, "INVALID_ENVELOPE")
    /\ UNCHANGED <<tables, req, decided, called, served, lapsed, failed>>

(* verifyUserToken: a good token; a key set that cannot be fetched and is  *)
(* recognised as such by code and message; a bad token, as which a failure *)
(* that is not recognised counts too, whatever the token.                  *)
VerifyToken ==
    /\ pc = "jwt"
    /\ \/ /\ req.token = "good"
          /\ Goto("lookup") /\ UNCHANGED emitted
       \/ RefuseToken(503, "JWKS_UNAVAILABLE")
       \/ RefuseToken(401, "INVALID_TOKEN")
    /\ UNCHANGED <<tables, req, decided, called, served, lapsed, failed>>

(* lookupDeviceBinding at the ops service: bound, not bound, no answer. *)
LookupBinding ==
    /\ pc = "lookup"
    /\ \/ verified' = TRUE /\ Goto("authorize") /\ Emit("token_verified")
       \/ RefuseToken(403, "DEVICE_NOT_BOUND") /\ UNCHANGED verified
       \/ RefuseToken(503, "LOOKUP_UNAVAILABLE") /\ UNCHANGED verified
    /\ UNCHANGED <<tables, req, path, row, degraded, called, served, lapsed, failed>>

(* receiveAndAuthorize: X-Caller-Identity against the source of            *)
(* X-Secret-Handle.                                                        *)
ReceiveAndAuthorize ==
    /\ pc = "authorize"
    /\ \/ req.handle = None /\ Goto("path") /\ UNCHANGED emitted
       \/ /\ req.handle # None
          /\ <<InboundCaller(req.caller), req.handle.source>> \in AllowMatrix
          /\ Goto("path") /\ Emit("handle")
       \/ /\ req.handle # None
          /\ <<InboundCaller(req.caller), req.handle.source>> \notin AllowMatrix
          /\ Reply(403, Refusal("AUTH_FAILED")) /\ Emit("unauthorized")
    /\ UNCHANGED <<tables, req, decided, called, served, lapsed, failed>>

-----------------------------------------------------------------------------
NamesTrack == req.kind \notin {"content_query", "content_match"}

(* The end of resolveProviderPath, and authorizeBackendType. *)
TakePath(backend, handle) ==
    IF AuthorizeBackendType(InboundCaller(req.caller), backend)
    THEN /\ path' = [backend |-> backend, handle |-> handle]
         /\ Goto(IF req.kind = "content_stream" THEN "row" ELSE "capability")
    ELSE Reply(403, Refusal("AUTH_FAILED")) /\ UNCHANGED path

(* parseTrackId, which throws at an unknown prefix, and                    *)
(* resolveProviderPath, which keeps only the back end of selectPath.       *)
ResolvePath ==
    /\ pc = "path"
    /\ \/ /\ NamesTrack /\ req.provider = "unknown"
          /\ Throw /\ UNCHANGED <<path, failed>>
       \/ /\ req.provider = "self"
          /\ TakePath("self_hosted", None) /\ UNCHANGED failed
       \/ /\ req.provider # "self" /\ (NamesTrack => req.provider # "unknown")
          /\ LET allows == {p \in Active : p.action = "allow" /\ p.rule = req.provider}
                 Take(h) == TakePath(SelectPath(req.provider, allows # {}, req.kind).backend, h)
             IN  \/ Throw /\ failed' = TRUE /\ UNCHANGED path
                 \/ allows = {} /\ Take(None) /\ UNCHANGED failed
                 \/ \E p \in allows : Take(p.ref) /\ UNCHANGED failed
    /\ UNCHANGED <<tables, req, verified, row, degraded, called, served, emitted, lapsed>>

(* The stream route reads format and bitrate for the capability filter. *)
ReadRow ==
    /\ pc = "row"
    /\ \/ \E t \in req.wanted : row' = tracks[t] /\ Goto("capability")
       \/ Throw /\ UNCHANGED row
    /\ UNCHANGED <<tables, req, verified, path, degraded, called, served, emitted, lapsed, failed>>

(* capabilityFilter; its latestPolicy() only probes the store. *)
CapabilityFilter ==
    /\ pc = "capability"
    /\ \/ req.cap = None /\ Goto("drm") /\ UNCHANGED <<degraded, failed>>
       \/ /\ req.cap # None
          /\ Reply(403, Refusal("BACKEND_UNAVAILABLE")) /\ failed' = TRUE /\ UNCHANGED degraded
       \/ /\ req.cap # None /\ Unsupported(req.kind, row)
          /\ Reply(403, Refusal("CAPABILITY_UNSUPPORTED")) /\ UNCHANGED <<degraded, failed>>
       \/ /\ req.cap # None /\ ~Unsupported(req.kind, row)
          /\ degraded' = (row # None /\ row.bitrate > req.cap.maxBitrate)
          /\ Goto("drm") /\ UNCHANGED failed
    /\ UNCHANGED <<tables, req, verified, path, row, called, served, emitted, lapsed>>

(* drmGuard, and the answer of handle() when it blocks. *)
(* Variant: a failing store allows. *)
DrmGuard_FailOpen ==
    /\ pc = "drm"
    /\ \/ Goto("serve") /\ failed' = TRUE /\ UNCHANGED emitted
       \/ DrmErrors(Active, req) = {} /\ Goto("serve") /\ UNCHANGED <<emitted, failed>>
    /\ UNCHANGED <<tables, req, decided, called, served, lapsed>>

DrmGuard ==
    LET Block(error) == Reply(HttpStatus(Refusal(error)), Refusal(error))
    IN  /\ pc = "drm"
        /\ \/ Block("BACKEND_UNAVAILABLE") /\ failed' = TRUE /\ UNCHANGED emitted
           \/ \E error \in DrmErrors(Active, req) :
                 Block(error) /\ Emit("content") /\ UNCHANGED failed
           \/ DrmErrors(Active, req) = {} /\ Goto("serve") /\ UNCHANGED <<emitted, failed>>
        /\ UNCHANGED <<tables, req, decided, called, served, lapsed>>

-----------------------------------------------------------------------------
(* handle() wraps what the business function returned; the status is that  *)
(* of the envelope before it is degraded.                                  *)
Send(e) == Reply(HttpStatus(e), Degrade(e))

Finish(body, backend, mode, outcome, error) ==
    Send(WrapEnvelope(body, backend, mode, outcome, error))

(* A self-hosted handler at work: an answer with the given rows is audited. *)
SelfHosted(kind) == pc = "serve" /\ path.backend = "self_hosted" /\ req.kind = kind

ServeRows(rows, body) ==
    /\ Finish(body, "self_hosted", "real", "ok", NoError)
    /\ served' = rows /\ Emit("content")

ServeNothing(body, mode, outcome, error) ==
    Finish(body, "self_hosted", mode, outcome, error) /\ UNCHANGED <<served, emitted>>

Matching == {tracks[t] : t \in req.wanted} \ {None}

(* queryTracks hands album over as it is stored; the contract has no null. *)
QueryBusiness ==
    /\ SelfHosted("content_query")
    /\ \/ Matching = {} /\ ServeNothing("complete", "real", "no_result", NoError)
       \/ /\ Matching # {}
          /\ ServeRows(Matching, IF \A r \in Matching : r.album THEN "complete" ELSE "invalid")
    /\ UNCHANGED <<tables, req, decided, called, lapsed, failed>>

(* matchTrack and getMetadata leave a missing album out. *)
MatchBusiness ==
    /\ SelfHosted("content_match")
    /\ \/ Matching = {} /\ ServeNothing("empty", "real", "no_result", NoError)
       \/ \E r \in Matching : ServeRows({r}, "complete")
    /\ UNCHANGED <<tables, req, decided, called, lapsed, failed>>

MetadataBusiness ==
    /\ SelfHosted("content_metadata")
    /\ \/ Matching = {} /\ ServeNothing("empty", "real", "no_result", NoError)
       \/ \E r \in Matching : ServeRows({r}, "complete")
    /\ UNCHANGED <<tables, req, decided, called, lapsed, failed>>

(* streamBusiness selects the path again, as if nothing were authorised    *)
(* and no provider available, and reads the row again.                     *)
StreamBusiness ==
    LET selected == SelectPath(req.provider, FALSE, "content_stream")
    IN  /\ SelfHosted("content_stream")
        /\ \/ /\ selected.mode = "unavailable"
              /\ ServeNothing("empty", selected.mode, "blocked", selected.error)
           \/ /\ selected.mode # "unavailable"
              /\ \/ Matching = {} /\ ServeNothing("empty", "real", "no_result", NoError)
                 \/ \E r \in Matching :
                       ServeRows({r}, IF r.format = "ogg" \/ r.bitrate = 0 THEN "invalid"
                                      ELSE "complete")
        /\ UNCHANGED <<tables, req, decided, called, lapsed, failed>>

(* getLyrics: one restricted line withholds them all. *)
(* Variant: the licence of the first line decides. *)
Restricted_FirstLine(sheet) == sheet # << >> /\ sheet[1] = "restricted"

Restricted(sheet) == \E n \in DOMAIN sheet : sheet[n] = "restricted"

LyricsBusiness ==
    /\ SelfHosted("content_lyrics")
    /\ \E t \in req.wanted :
          \/ lyrics[t] = << >> /\ ServeNothing("empty", "real", "no_result", NoError)
          \/ Restricted(lyrics[t]) /\ ServeNothing("empty", "real", "blocked", "COPYRIGHT_RESTRICTED")
          \/ lyrics[t] # << >> /\ ~Restricted(lyrics[t]) /\ ServeRows({}, "complete")
    /\ UNCHANGED <<tables, req, decided, called, lapsed, failed>>

(* A query of the catalogue, or presigning, throws; handle() does not catch. *)
BusinessFails ==
    /\ pc = "serve" /\ path.backend = "self_hosted"
    /\ Throw
    /\ UNCHANGED <<tables, req, decided, called, served, emitted, lapsed, failed>>

(* fetchThirdParty without a call, and with one: the provider gives a      *)
(* body, refuses with a code of its own choice, or is out of reach.        *)
RefuseThirdParty ==
    LET resolved == path.handle # None /\ Resolves(path.handle, req.provider)
        Blocked(error) == Finish("empty", "third_party_api", "unavailable", "blocked", error)
    IN  /\ pc = "serve" /\ path.backend = "third_party_api"
        /\ \/ ~resolved /\ Blocked("AUTH_FAILED")
           \/ resolved /\ req.provider \notin ProvidersWithUrl /\ Blocked("BACKEND_UNAVAILABLE")
        /\ UNCHANGED <<tables, req, decided, called, served, emitted, lapsed, failed>>

FetchThirdParty ==
    /\ pc = "serve" /\ path.backend = "third_party_api"
    /\ path.handle # None /\ Resolves(path.handle, req.provider)
    /\ req.provider \in ProvidersWithUrl
    /\ called' = [provider |-> req.provider, handle |-> path.handle]
    /\ \/ \E b \in ProviderBodies :
             Send(Overlay(b, WrapEnvelope(b.body, "third_party_api", "real", "ok", NoError)))
       \/ \E error \in ErrorCodes \cup {"unlisted"} :
             Finish("empty", "third_party_api", "unavailable", "blocked", error)
    /\ UNCHANGED <<tables, req, decided, served, emitted, lapsed, failed>>

-----------------------------------------------------------------------------
(* What others do: policies are pushed and retired, tracks published,      *)
(* given lyrics and taken down.                                            *)
Watch(policies) ==
    lapsed' = (lapsed \/ (pc \notin {"new", "done"} /\ ~Restricts(policies, req)))

PushPolicy ==
    /\ \E p \in PolicyRows : Policies!Push(p)
    /\ Watch(Active')
    /\ UNCHANGED <<tracks, lyrics, pc, req, decided, called, served, emitted, answer, failed>>

RetirePolicy ==
    /\ \E p \in PolicyRows : Policies!Retire(p)
    /\ Watch(Active')
    /\ UNCHANGED <<tracks, lyrics, pc, req, decided, called, served, emitted, answer, failed>>

PublishTrack ==
    /\ \E t \in Tracks : /\ tracks[t] = None
                         /\ \E r \in TrackRows : tracks' = [tracks EXCEPT ![t] = r]
    /\ UNCHANGED <<stored, superseded, lyrics, pc, req, decided, called, served, emitted, answer, lapsed, failed>>

UnpublishTrack ==
    /\ \E t \in Tracks : /\ tracks[t] # None /\ lyrics[t] = << >>
                         /\ tracks' = [tracks EXCEPT ![t] = None]
    /\ UNCHANGED <<stored, superseded, lyrics, pc, req, decided, called, served, emitted, answer, lapsed, failed>>

(* Lines are inserted one by one: a reader may find part of a sheet. *)
SeedLyrics ==
    /\ \E t \in Tracks, licence \in {"cleared", "restricted"} :
          /\ tracks[t] # None /\ Append(lyrics[t], licence) \in LyricSheets
          /\ lyrics' = [lyrics EXCEPT ![t] = Append(@, licence)]
    /\ UNCHANGED <<stored, superseded, tracks, pc, req, decided, called, served, emitted, answer, lapsed, failed>>

Handler ==
    \/ Arrive \/ VerifyEnvelope \/ VerifyToken \/ LookupBinding \/ ReceiveAndAuthorize
    \/ ResolvePath \/ ReadRow \/ CapabilityFilter \/ DrmGuard
    \/ QueryBusiness \/ MatchBusiness \/ MetadataBusiness \/ StreamBusiness \/ LyricsBusiness
    \/ BusinessFails \/ RefuseThirdParty \/ FetchThirdParty

Others == PushPolicy \/ RetirePolicy \/ PublishTrack \/ UnpublishTrack \/ SeedLyrics

Next == Handler \/ Others
Spec == Init /\ [][Next]_vars

-----------------------------------------------------------------------------
(* An answer with content. *)
Delivered == /\ answer # None /\ answer.status = 200
             /\ answer.envelope.error = NoError

Events == {"token_refused", "token_verified", "handle", "unauthorized", "content"}

(* The variables have their types. *)
TypeOK ==
    /\ stored \subseteq PolicyRows /\ superseded \subseteq stored
    /\ tracks \in [Tracks -> TrackRows \cup {None}]
    /\ lyrics \in [Tracks -> LyricSheets \cup {<< >>}]
    /\ pc \in {"new", "verify", "jwt", "lookup", "authorize", "path", "row", "capability",
               "drm", "serve", "done"}
    /\ req \in Requests \cup {None}
    /\ path \in {None} \cup [backend : BackendTypes, handle : Handles \cup {None}]
    /\ row \in TrackRows \cup {None} /\ served \subseteq TrackRows
    /\ called \in {None} \cup [provider : Providers, handle : Handles]
    /\ emitted \in Seq(Events)
    /\ answer \in {None, ServerError} \cup [status : Statuses, envelope : EnvelopeType]
    /\ verified \in BOOLEAN /\ degraded \in BOOLEAN /\ lapsed \in BOOLEAN /\ failed \in BOOLEAN

(* A restriction that is in force all the time a request is handled, by    *)
(* whichever rows in turn, keeps the request from content and from the     *)
(* provider, however reads interleave with pushes (drmGuard in handle()).  *)
RestrictionHonoured == pc = "done" /\ ~lapsed => ~Delivered /\ called = None

(* Fail closed: whichever of its up to three reads of the policies fails,  *)
(* the request gets no content and no provider is called.                  *)
FailClosed == failed => ~Delivered /\ called = None

(* Content, from the catalogue or from a provider, is for requests that    *)
(* passed every check: token, handle source, device kinds; providers are   *)
(* called for cloud-ext only, with a secret that is theirs.                *)
ServedIsAdmitted ==
    Delivered \/ called # None =>
       /\ IamConfigured /\ req.token # "none" => verified
       /\ req.handle # None => req.caller = "cloud-ext" /\ req.handle.source = "^cloud:"
       /\ req.cap # None => req.kind \in req.cap.kinds
       /\ called # None => /\ req.caller = "cloud-ext"
                           /\ called.handle.source = "^backend:"
                           /\ called.handle.provider \in {called.provider, None}

(* What the answer says agrees, whatever a provider sends: 200 exactly     *)
(* when it is DONE, with concerns or without, and DONE only with all the   *)
(* fields of its kind.  An answer of this back end that refuses gives its  *)
(* reason and neither fields nor rows; one without error has its fields;   *)
(* and degraded only ever qualifies a delivered stream.                    *)
AnswerConsistent ==
    pc = "done" /\ answer.status # 500 =>
       LET e == answer.envelope
       IN  /\ answer.status = 200 <=> e.completion \in {"DONE", "DONE_WITH_CONCERNS"}
           /\ e.completion = "DONE" => e.error = NoError /\ e.body = "complete"
           /\ called = None =>
                 /\ e.completion = "BLOCKED" => e.error # NoError /\ e.body = "empty" /\ served = {}
                 /\ e.error = NoError => Delivered /\ e.body = "complete"
                 /\ e.mode = "degraded" =>
                       Delivered /\ req.kind = "content_stream" /\ req.cap # None

(* The hook for tokens refused the request: its codes, and no provider's.  *)
TokenErrors == {"INVALID_ENVELOPE", "INVALID_TOKEN", "DEVICE_NOT_BOUND", "JWKS_UNAVAILABLE",
                "LOOKUP_UNAVAILABLE"}

TokenRefused ==
    /\ answer # None /\ called = None /\ answer.status # 500
    /\ answer.envelope.error \in TokenErrors

HandleAllowed == req.caller = "cloud-ext" /\ req.handle.source = "^cloud:"

HandleRefused == ~TokenRefused /\ req.handle # None /\ ~HandleAllowed

(* The drm guard kept the request back.  Licences of lyrics, and the       *)
(* stream handler, have a code in common with it, which does not tell.     *)
GuardErrors == {"COPYRIGHT_RESTRICTED", "REGION_RESTRICTED"}

GuardRefused ==
    /\ called = None /\ answer.status # 500 /\ answer.envelope.error \in GuardErrors
    /\ req.kind \in {"content_lyrics", "content_stream"} =>
          answer.envelope.error = "REGION_RESTRICTED"

(* The events a request owes for its token, then for its handle, and then  *)
(* for the content.                                                        *)
TokenTrail ==
    IF TokenRefused THEN <<"token_refused">>
    ELSE IF verified THEN <<"token_verified">> ELSE << >>

HandleTrail ==
    IF TokenRefused \/ req.handle = None THEN TokenTrail
    ELSE Append(TokenTrail, IF HandleAllowed THEN "handle" ELSE "unauthorized")

ContentTrail == Append(HandleTrail, "content")

(* The audit trail of a request, event by event and in this order: one for *)
(* a token, refused or verified; one for a handle, allowed or not, unless  *)
(* the token was refused; both before a back end is chosen for the request *)
(* and the last ones for what was refused, a handle with 403 AUTH_FAILED;  *)
(* and one for content of this back end that is delivered, breaks the      *)
(* contract, or is kept back by the drm guard.  There are no others: no    *)
(* call of a provider has one, nor has any other refusal (capabilities,    *)
(* the back end's caller, failing reads, licences of lyrics).              *)
AuditTrail ==
    /\ pc # "done" /\ path # None => emitted = HandleTrail
    /\ pc = "done" =>
          /\ emitted \in {HandleTrail, ContentTrail}
          /\ TokenRefused => ~verified
          /\ HandleRefused => answer = [status |-> 403, envelope |-> Refusal("AUTH_FAILED")]
          /\ TokenRefused \/ HandleRefused \/ called # None => emitted = HandleTrail
          /\ (Delivered /\ called = None) \/ GuardRefused => emitted = ContentTrail
          /\ emitted = ContentTrail =>
                Delivered \/ answer = ServerError \/ answer.envelope.error \in GuardErrors

(* Lyrics are never delivered off a sheet that has a restricted line,      *)
(* wherever it stands, at the moment the sheet is read: LyricsBusiness is  *)
(* the SELECT and the answer in one step (content/lyrics.ts:46-74).        *)
RestrictedLyricsWithheld ==
    [][~Delivered /\ Delivered' /\ req.kind = "content_lyrics" /\ called' = None =>
          \A t \in req.wanted : \A n \in DOMAIN lyrics[t] : lyrics[t][n] = "cleared"]_vars

-----------------------------------------------------------------------------
(* What comments, docs and tests say and the code does not do.             *)

(* What selectPath decides of a provider that no rule permits, or that is  *)
(* down, is what the caller sees: queries and matches are answered from    *)
(* the catalogue, degraded, and nothing else is answered with success      *)
(* (path-select.ts:30).                                                    *)
SelectedPathFollowed ==
    pc = "done" /\ answer.status = 200 /\ req.provider # "self" /\ called = None =>
       ~NamesTrack /\ (Delivered => answer.envelope.mode = "degraded")

(* A format the device does not support is never streamed.                 *)
UnsupportedNotStreamed ==
    Delivered /\ req.kind = "content_stream" /\ req.cap # None =>
       \A r \in served : r.format \in req.cap.formats
=============================================================================
