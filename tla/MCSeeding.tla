------------------------------ MODULE MCSeeding -----------------------------
(* A finite instance of Seeding for TLC: a catalog of two tracks and a     *)
(* template of one, an ingest for the track of the template, and two for   *)
(* the first of the catalog, one of them with the isrc of the template's.  *)
EXTENDS Seeding, TLC

CONSTANTS i1, i2, i3, t1, t2, t3, r1, r2, r3, x

TwoForOne  == i1 :> t1 @@ i2 :> t3 @@ i3 :> t1
SomeIsrcOf == i1 :> x @@ i2 :> NoIsrc @@ i3 :> NoIsrc
              @@ t1 :> NoIsrc @@ t2 :> NoIsrc @@ t3 :> x
TwoTracks  == <<t1, t2>>
OneTrack   == <<t3>>
Sheets     == t1 :> 2 @@ t2 :> 1 @@ t3 :> 2

SeedSymmetry == Permutations(Requests)
=============================================================================
