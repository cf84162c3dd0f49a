---------------------------- MODULE ReviewRules -----------------------------
(***************************************************************************)
(* The vocabulary of content review: ingests and the tracks they are       *)
(* submitted for, and the state machine of src/src/review/state-machine.ts *)
(***************************************************************************)

CONSTANTS
    Ingests,      \* rows of table ingest that may be created
    Tracks,       \* track_id values
    Requests,     \* admin requests, each of which decides at most once
    TrackOf,      \* the track_id an ingest was submitted with (immutable)
    IsrcOf,       \* isrc in an ingest's raw_metadata, and in a seeded row
    SeedTracks,   \* the track_ids the seed script installs
    NoIsrc,       \* a missing isrc: NULLs never collide in a unique index
    Nobody,       \* "no row" in tracks
    Seeded        \* owner of a tracks row installed by the seed script

ASSUME ReviewConstants ==
    /\ TrackOf \in [Ingests -> Tracks]
    /\ SeedTracks \subseteq Tracks
    /\ Nobody \notin Ingests /\ Seeded \notin Ingests /\ Nobody # Seeded

Actions == {"approve", "reject", "revoke", "resubmit"}
States  == {"pending", "approved", "rejected", "revoked"}

NextState == [a \in Actions |-> CASE a = "approve"  -> "approved"
                                  [] a = "reject"   -> "rejected"
                                  [] a = "revoke"   -> "revoked"
                                  [] a = "resubmit" -> "pending"]

Allowed == [s \in States |-> CASE s = "pending"  -> {"approve", "reject"}
                               [] s = "approved" -> {"revoke"}
                               [] OTHER          -> {"resubmit"}]
=============================================================================
