----------------------------- MODULE ReviewSpec -----------------------------
(***************************************************************************)
(* What the content-review part of the backend promises: every decision on *)
(* an ingest (approve, reject, revoke, resubmit) takes effect at once, as  *)
(* one change of the ingest's state, its review history and the published  *)
(* catalogue.  The statement-level behaviour of src/src/review and         *)
(* src/src/db/transaction.ts, with its interleavings and failures, is      *)
(* module ReviewTx, which implements this one.                             *)
(***************************************************************************)
EXTENDS ReviewRules, Integers, Sequences

VARIABLES
    ingest,       \* ingest[i]: column state of row i, or "absent"
    review,       \* review[i]: the review rows of ingest i, in commit order
    tracks,       \* tracks[t]: who published the row t, or Nobody
    lyrics        \* the track_ids that lyrics rows reference

absVars == <<ingest, review, tracks, lyrics>>

-----------------------------------------------------------------------------
(* The isrc of the row published for t. *)
RowIsrc(t) == IF tracks[t] = Seeded THEN IsrcOf[t] ELSE IsrcOf[tracks[t]]

(* The rows of tracks a new row with this key would collide with: primary  *)
(* key track_id and unique index tracks_isrc_uk.                           *)
Clashing(t, isrc) ==
    {u \in Tracks : /\ tracks[u] # Nobody
                    /\ u = t \/ (isrc # NoIsrc /\ RowIsrc(u) = isrc)}

Deciders == {r \in Requests :
               \E i \in Ingests : \E n \in DOMAIN review[i] : review[i][n].by = r}

-----------------------------------------------------------------------------
Init ==
    /\ ingest = [i \in Ingests |-> "absent"]
    /\ review = [i \in Ingests |-> << >>]
    /\ tracks = [t \in Tracks |-> Nobody]
    /\ lyrics = {}

IngestCreate(i) ==
    /\ ingest[i] = "absent"
    /\ ingest' = [ingest EXCEPT ![i] = "pending"]
    /\ UNCHANGED <<review, tracks, lyrics>>

Decide(r, i, a) ==
    /\ r \notin Deciders
    /\ ingest[i] # "absent" /\ a \in Allowed[ingest[i]]
    /\ ingest' = [ingest EXCEPT ![i] = NextState[a]]
    /\ review' = [review EXCEPT ![i] = Append(@, [action |-> a, by |-> r])]
    /\ UNCHANGED lyrics

Approve(r, i) ==
    /\ Decide(r, i, "approve")
    /\ Clashing(TrackOf[i], IsrcOf[i]) = {}
    /\ tracks' = [tracks EXCEPT ![TrackOf[i]] = i]

(* A published track that lyrics rows reference cannot be taken down.      *)
Revoke(r, i) ==
    /\ Decide(r, i, "revoke")
    /\ TrackOf[i] \notin lyrics
    /\ tracks' = [tracks EXCEPT ![TrackOf[i]] = Nobody]

Reject(r, i)   == Decide(r, i, "reject") /\ UNCHANGED tracks
Resubmit(r, i) == Decide(r, i, "resubmit") /\ UNCHANGED tracks

SeedTrack(t) ==
    /\ Clashing(t, IsrcOf[t]) = {}
    /\ tracks' = [tracks EXCEPT ![t] = Seeded]
    /\ UNCHANGED <<ingest, review, lyrics>>

SeedLyrics(t) ==
    /\ tracks[t] # Nobody
    /\ lyrics' = lyrics \cup {t}
    /\ UNCHANGED <<ingest, review, tracks>>

Next ==
    \/ \E i \in Ingests : IngestCreate(i)
    \/ \E r \in Requests, i \in Ingests :
          Approve(r, i) \/ Reject(r, i) \/ Revoke(r, i) \/ Resubmit(r, i)
    \/ \E t \in SeedTracks : SeedTrack(t) \/ SeedLyrics(t)

Spec == Init /\ [][Next]_absVars

-----------------------------------------------------------------------------
ReviewRow == [action : Actions, by : Requests]

(* The tables hold values of their types, and a published row names an     *)
(* ingest of that very track_id.                                           *)
TypeOK ==
    /\ ingest \in [Ingests -> States \cup {"absent"}]
    /\ review \in [Ingests -> Seq(ReviewRow)]
    /\ tracks \in [Tracks -> Ingests \cup {Seeded, Nobody}]
    /\ lyrics \subseteq Tracks

(* tracks is the published projection of the approved ingests: an ingest   *)
(* is approved exactly when the row of its track_id was published from it  *)
(* (state-machine.ts:97-132; the state "revoked, yet still listed" is the  *)
(* defect the transaction was introduced for).                             *)
Projection ==
    \A i \in Ingests : (ingest[i] = "approved") <=> (tracks[TrackOf[i]] = i)

(* A row published from an ingest sits under the track_id of that ingest.  *)
OwnRow == \A t \in Tracks : tracks[t] \in Ingests => TrackOf[tracks[t]] = t

(* The review rows of an ingest are a legal walk of the state machine that *)
(* ends in the ingest's present state: no decision is lost, none is        *)
(* recorded that did not happen, none was taken from a state that forbids  *)
(* it (state-machine.ts:75-95).                                            *)
StateAfter(i, n) == IF n = 0 THEN "pending" ELSE NextState[review[i][n].action]

HistoryExplainsState ==
    \A i \in Ingests :
       /\ ingest[i] = "absent" => review[i] = << >>
       /\ ingest[i] # "absent" => ingest[i] = StateAfter(i, Len(review[i]))
       /\ \A n \in DOMAIN review[i] :
             review[i][n].action \in Allowed[StateAfter(i, n - 1)]

(* The two unique indexes of tracks (schema.ts:34,49).                     *)
KeysUnique ==
    \A t, u \in Tracks :
       /\ tracks[t] # Nobody /\ tracks[u] # Nobody
       /\ RowIsrc(t) # NoIsrc /\ RowIsrc(t) = RowIsrc(u)
       => t = u

(* Two ingests may be submitted with one track_id or one isrc (table ingest *)
(* has no unique index on them), but at most one is approved at a time.    *)
OneApprovedPerKey ==
    \A i, j \in Ingests :
       /\ ingest[i] = "approved" /\ ingest[j] = "approved"
       /\ TrackOf[i] = TrackOf[j] \/ (IsrcOf[i] # NoIsrc /\ IsrcOf[i] = IsrcOf[j])
       => i = j

(* The foreign key of lyrics never dangles, although takedowns and seeding *)
(* run concurrently.                                                       *)
LyricsHaveTrack == \A t \in lyrics : tracks[t] # Nobody
=============================================================================
