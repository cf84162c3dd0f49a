------------------------------ MODULE Envelope ------------------------------
(***************************************************************************)
(* The envelope every answer of the content API is wrapped in              *)
(* (envelope.ts), its HTTP status (routes/http-mapping.ts), and the        *)
(* content contract the onSend hook validates each answer against.  Of the *)
(* business fields only their conformance is kept: all there ("complete"), *)
(* none ("empty"), or one with a value the contract does not allow         *)
(* ("invalid").                                                            *)
(***************************************************************************)
EXTENDS Naturals

Kinds == {"content_query", "content_match", "content_stream", "content_lyrics",
          "content_metadata"}

BackendTypes     == {"self_hosted", "third_party_api"}
CapabilityModes  == {"real", "degraded", "unavailable"}
CompletionStates == {"DONE", "DONE_WITH_CONCERNS", "BLOCKED", "NEEDS_CONTEXT"}
Bodies           == {"complete", "empty", "invalid"}

ErrorCodes == {"NO_RESULT", "COPYRIGHT_RESTRICTED", "REGION_RESTRICTED", "BACKEND_UNAVAILABLE",
               "AUTH_FAILED", "CAPABILITY_UNSUPPORTED", "INVALID_TOKEN", "DEVICE_NOT_BOUND",
               "JWKS_UNAVAILABLE", "LOOKUP_UNAVAILABLE", "INVALID_ENVELOPE"}

NoError == "-"

(* completionState(): the completion state and the error code. *)
CompletionState(mode, outcome, error) ==
    [ok          |-> << IF mode = "degraded" THEN "DONE_WITH_CONCERNS" ELSE "DONE", NoError >>,
     no_result   |-> << "DONE_WITH_CONCERNS", "NO_RESULT" >>,
     blocked     |-> << "BLOCKED", IF error = NoError THEN "COPYRIGHT_RESTRICTED" ELSE error >>,
     unavailable |-> << "BLOCKED", "BACKEND_UNAVAILABLE" >>][outcome]

WrapEnvelope(body, backend, mode, outcome, error) ==
    LET cs == CompletionState(mode, outcome, error)
    IN  [body |-> body, backend |-> backend, mode |-> mode, completion |-> cs[1], error |-> cs[2]]

EnvelopeType == [body : Bodies, backend : BackendTypes, mode : CapabilityModes,
                 completion : CompletionStates, error : ErrorCodes \cup {NoError}]

(* The business fields come last in the envelope: where they have a field  *)
(* of its name, theirs wins.  Only a provider's body may.                  *)
Overlay(business, e) ==
    [f \in DOMAIN e |-> IF f \in DOMAIN business THEN business[f] ELSE e[f]]

(* The envelope of every refusal that the routes and hooks write themselves. *)
Refusal(error) == WrapEnvelope("empty", "self_hosted", "unavailable", "blocked", error)

ClientBlock == {"COPYRIGHT_RESTRICTED", "REGION_RESTRICTED", "CAPABILITY_UNSUPPORTED"}

(* Variant: an empty result is not found. *)
HttpStatus_NotFound(e) ==
    IF e.error = "NO_RESULT" THEN 404 ELSE IF e.completion = "BLOCKED" THEN 503 ELSE 200

HttpStatus(e) ==
    IF e.completion \in {"DONE", "DONE_WITH_CONCERNS"} THEN 200
    ELSE IF e.error \in ClientBlock THEN 403 ELSE 503

(* content-contract.schema.json, as far as the runtime can break it. *)
Conforms(e) ==
    /\ e.error \in ErrorCodes \cup {NoError}
    /\ e.body # "invalid"
    /\ e.mode = "unavailable" => e.completion \in {"BLOCKED", "NEEDS_CONTEXT"}
    /\ e.mode = "degraded" => e.completion # "DONE"
    /\ e.completion = "DONE" => e.error = NoError /\ e.body = "complete"
=============================================================================
