----------------------------- MODULE Catalogue ------------------------------
(***************************************************************************)
(* What the tables tracks and lyrics promise to those who read them: a     *)
(* track is listed and taken down in one step, and while it has lyrics it  *)
(* is not taken down.  ReviewTx, the transactions of the admins beside the *)
(* seed script, implements this module; ContentRoute, a request that reads *)
(* the catalogue at its awaits, runs beside it.                            *)
(***************************************************************************)

CONSTANT Tracks

VARIABLES
    published,    \* the tracks with a row in table tracks
    sung          \* those with rows in table lyrics

catalogueVars == <<published, sung>>

-----------------------------------------------------------------------------
Init == published = {} /\ sung = {}

(* INSERT INTO tracks: track_id is the primary key.                        *)
List(t) ==
    /\ t \notin published
    /\ published' = published \cup {t}
    /\ UNCHANGED sung

(* DELETE FROM tracks: refused while rows of lyrics refer to the track.    *)
TakeDown(t) ==
    /\ t \in published \ sung
    /\ published' = published \ {t}
    /\ UNCHANGED sung

(* INSERT INTO lyrics: refused without the track.                          *)
AddLine(t) ==
    /\ t \in published
    /\ sung' = sung \cup {t}
    /\ UNCHANGED published

Next == \E t \in Tracks : List(t) \/ TakeDown(t) \/ AddLine(t)

Spec == Init /\ [][Next]_catalogueVars
=============================================================================
