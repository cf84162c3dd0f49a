--------------------------- MODULE Seeding_proofs ---------------------------
(* What the seed scripts promise, for all plans, sheets, ingests and       *)
(* requests.                                                               *)
EXTENDS Seeding, TLAPS

-----------------------------------------------------------------------------
(* The inductive invariant, in parts.                                      *)

(* A row published from an ingest goes when that ingest is revoked, and    *)
(* only then: a seeded row stays.                                          *)
ProjectionInv ==
    \A i \in Ingests : ingest[i] = "approved" => tracks[TrackOf[i]] = i

Complete(t) == tracks[t] # Nobody /\ 1 .. Sheet[t] \subseteq lines[t]

(* t is complete after the step. *)
Kept(t) == tracks'[t] # Nobody /\ 1 .. Sheet[t] \subseteq lines'[t]

(* The tracks that the script has left behind are complete.                *)
BehindInv ==
    /\ (At("put") /\ run.script # "template") \/ At("track") \/ At("line") =>
          \A n \in 1 .. (run.k - 1) : Complete(Plan(run.script)[n])
    /\ At("line") => \A n \in 1 .. (run.l - 1) : n \in lines[Track]

ObjectInv == At("track") /\ run.script # "template" => Track \in objects

(* A run of init or template that is not the first cannot get to its end.  *)
FreshInv ==
    /\ At("migrate") => /\ run.script = "init" /\ run.k \in 1 .. Files
                        /\ run.fresh \/ (run.k = 1 /\ files > 0)
    /\ run # NoRun /\ run.script = "init" => run.fresh \/ run.phase = "migrate"
    /\ run # NoRun /\ run.script = "template" /\ ~run.fresh =>
          \E n \in DOMAIN Template :
             /\ tracks[Template[n]] = Seeded
             /\ run.phase = "track" => n >= run.k
             /\ run.phase = "line" => n > run.k

SeedInv ==
    /\ SeedingTypeOK /\ ProjectionInv /\ BehindInv /\ ObjectInv /\ FreshInv
    /\ SeededPlayable /\ FinishedStays /\ SheetFromTop

-----------------------------------------------------------------------------
LEMMA PlanTyped ==
    ASSUME NEW script \in Scripts
    PROVE  /\ Plan(script) \in Seq(SeedTracks) /\ Len(Plan(script)) \in Nat \ {0}
           /\ DOMAIN Plan(script) = 1 .. Len(Plan(script))
           /\ \A k \in 1 .. Len(Plan(script)) :
                 /\ Plan(script)[k] \in SeedTracks /\ Plan(script)[k] \in Tracks
                 /\ Sheet[Plan(script)[k]] \in Nat \ {0}
BY SeedingConstants, ReviewConstants DEF Plan

(* Where a script stands that is at a track.                               *)
LEMMA TrackTyped ==
    ASSUME SeedingTypeOK, At("put") \/ At("track") \/ At("line")
    PROVE  /\ run \in RunType /\ run.script \in Scripts
           /\ run.k \in 1 .. Len(Plan(run.script))
           /\ Track \in SeedTracks /\ Track \in Tracks /\ Sheet[Track] \in Nat \ {0}
BY PlanTyped DEF SeedingTypeOK, At, Track, RunType

(* How the steps of the scripts and of the admins map to ReviewSpec.       *)
LEMMA SeedingRefine ==
    ASSUME SeedingTypeOK, [SeedingNext]_seedVars
    PROVE  [Abs!Next]_(Abs!absVars)
<1>1. CASE TrackCatalog \/ TrackTemplate
  <2>1. Track \in SeedTracks
    BY <1>1, TrackTyped DEF TrackCatalog, TrackTemplate
  <2>2. UNCHANGED <<ingest, review, lines>>
    BY <1>1 DEF TrackCatalog, TrackTemplate
  <2>3. UNCHANGED tracks \/ Abs!SeedTrack(Track)
    BY <1>1, <2>2 DEF TrackCatalog, TrackTemplate, NewTrack, Abs!SeedTrack
  <2> QED BY <2>1, <2>2, <2>3 DEF Abs!Next, Abs!absVars
<1>2. CASE LineCatalog \/ LineTemplate
  <2>1. Track \in SeedTracks /\ Track \in Tracks
    BY <1>2, TrackTyped DEF LineCatalog, LineTemplate
  <2>2. PICK t \in SeedTracks : t = Track
    BY <2>1
  <2>3. /\ t \in Tracks /\ tracks[t] # Nobody /\ UNCHANGED <<ingest, review, tracks>>
        /\ lines' = [lines EXCEPT ![t] = @ \cup {run.l}]
    BY <1>2, <2>1, <2>2 DEF LineCatalog, LineTemplate
  <2>4. {u \in Tracks : lines'[u] # {}} = {u \in Tracks : lines[u] # {}} \cup {t}
    BY <2>3 DEF SeedingTypeOK
  <2>5. Abs!SeedLyrics(t)
    BY <2>3, <2>4 DEF Abs!SeedLyrics
  <2> QED BY <2>5 DEF Abs!Next
<1>3. CASE Admin
  BY <1>3 DEF Admin, Abs!Next
<1>4. CASE UNCHANGED tableVars
  BY <1>4 DEF tableVars, Abs!absVars
<1> QED
  BY <1>1, <1>2, <1>3, <1>4 DEF SeedingNext, Start, Migrate, CreateBucket, PutCatalog, PutTemplate,
     Stop, seedVars

-----------------------------------------------------------------------------
LEMMA SeedInitInv == SeedingInit => SeedInv
<1> SUFFICES ASSUME SeedingInit
             PROVE  SeedInv
  OBVIOUS
<1>1. SeedingTypeOK
  BY SeedingConstants, ReviewConstants
     DEF SeedingInit, SeedingTypeOK, Abs!TypeOK, At, States
<1>2. ProjectionInv /\ BehindInv /\ ObjectInv /\ FreshInv
  BY ReviewConstants DEF SeedingInit, ProjectionInv, BehindInv, ObjectInv, FreshInv, At, States
<1>3. SeededPlayable
  <2> SUFFICES ASSUME NEW k \in DOMAIN Catalog, tracks[Catalog[k]] = Seeded
               PROVE  FALSE
    BY DEF SeededPlayable
  <2>1. Catalog[k] \in Tracks
    BY SeedingConstants, ReviewConstants
  <2> QED BY <2>1, ReviewConstants DEF SeedingInit
<1>4. FinishedStays
  BY DEF SeedingInit, FinishedStays
<1>5. SheetFromTop
  <2> SUFFICES ASSUME NEW t \in SeedTracks
               PROVE  \E n \in 0 .. Sheet[t] : lines[t] = 1 .. n
    BY DEF SheetFromTop
  <2>1. lines[t] = 1 .. 0 /\ 0 \in 0 .. Sheet[t]
    BY SeedingConstants, ReviewConstants DEF SeedingInit
  <2> QED BY <2>1
<1> QED BY <1>1, <1>2, <1>3, <1>4, <1>5 DEF SeedInv

(* Where a script goes that goes on. *)
LEMMA GotoRun ==
    ASSUME run \in RunType, NEW phase \in Phases, NEW k \in Nat, NEW l \in Nat,
           Goto(phase, k, l)
    PROVE  /\ run' \in RunType /\ run' # NoRun
           /\ run'.script = run.script /\ run'.fresh = run.fresh
           /\ run'.phase = phase /\ run'.k = k /\ run'.l = l
BY SeedingConstants DEF Goto, RunType

(* A row that is inserted was not there. *)
LEMMA NewTrackRow ==
    ASSUME SeedingTypeOK, Track \in Tracks, NewTrack
    PROVE  /\ tracks[Track] = Nobody
           /\ tracks' \in [Tracks -> Ingests \cup {Seeded, Nobody}]
           /\ \A t \in Tracks : tracks'[t] = IF t = Track THEN Seeded ELSE tracks[t]
BY DEF NewTrack, Abs!Clashing, SeedingTypeOK, Abs!TypeOK

(* The instance has the rules of ReviewRules under names of its own. *)
LEMMA SameRules ==
    /\ Abs!States = States /\ Abs!Actions = Actions
    /\ Abs!NextState = NextState /\ Abs!Allowed = Allowed
BY DEF Abs!States, Abs!Actions, Abs!NextState, Abs!Allowed, States, Actions, NextState, Allowed

(* What a decision does to the tables. *)
LEMMA DecideRow ==
    ASSUME SeedingTypeOK, ProjectionInv, Admin
    PROVE  /\ Abs!TypeOK' /\ ProjectionInv'
           /\ UNCHANGED <<lines, storeVars, run, finished>>
           /\ \A t \in Tracks : /\ tracks'[t] # Seeded \/ tracks[t] = Seeded
                                /\ tracks[t] = Seeded => tracks'[t] = Seeded
                                /\ tracks[t] # Nobody /\ lines[t] # {} => tracks'[t] # Nobody
<1> USE ReviewConstants, SameRules
<1>1. UNCHANGED <<lines, storeVars, run, finished>>
  BY DEF Admin
<1>2. ASSUME NEW i \in Ingests, Abs!IngestCreate(i)
      PROVE  Abs!TypeOK' /\ ProjectionInv' /\ UNCHANGED tracks
  BY <1>1, <1>2 DEF Abs!IngestCreate, SeedingTypeOK, Abs!TypeOK, ProjectionInv, States
<1>3. ASSUME NEW r \in Requests, NEW i \in Ingests, NEW a \in Actions, Abs!Decide(r, i, a)
      PROVE  /\ ingest' \in [Ingests -> States \cup {"absent"}]
             /\ review' \in [Ingests -> Seq(Abs!ReviewRow)]
             /\ ingest[i] \in States /\ a \in Allowed[ingest[i]]
             /\ \A j \in Ingests : ingest'[j] = IF j = i THEN NextState[a] ELSE ingest[j]
  <2>1. /\ ingest[i] \in States /\ NextState[a] \in States
        /\ a \in Allowed[ingest[i]]
    BY <1>3 DEF Abs!Decide, SeedingTypeOK, Abs!TypeOK, NextState, States, Actions
  <2>2. [action |-> a, by |-> r] \in Abs!ReviewRow /\ review[i] \in Seq(Abs!ReviewRow)
    BY DEF Abs!ReviewRow, SeedingTypeOK, Abs!TypeOK
  <2>3. Append(review[i], [action |-> a, by |-> r]) \in Seq(Abs!ReviewRow)
    BY <2>2
  <2>4. review' \in [Ingests -> Seq(Abs!ReviewRow)]
    BY <1>3, <2>3 DEF Abs!Decide, SeedingTypeOK, Abs!TypeOK
  <2> QED BY <1>3, <2>1, <2>4 DEF Abs!Decide, SeedingTypeOK, Abs!TypeOK
<1>4. ASSUME NEW r \in Requests, NEW i \in Ingests, Abs!Approve(r, i)
      PROVE  /\ Abs!TypeOK' /\ ProjectionInv'
             /\ tracks[TrackOf[i]] = Nobody
             /\ \A t \in Tracks : tracks'[t] = IF t = TrackOf[i] THEN i ELSE tracks[t]
  <2>1. /\ tracks[TrackOf[i]] = Nobody
        /\ tracks' \in [Tracks -> Ingests \cup {Seeded, Nobody}]
        /\ \A t \in Tracks : tracks'[t] = IF t = TrackOf[i] THEN i ELSE tracks[t]
    BY <1>4 DEF Abs!Approve, Abs!Clashing, SeedingTypeOK, Abs!TypeOK
  <2>2. Abs!TypeOK'
    BY <1>4, <1>3, <2>1, <1>1 DEF Abs!Approve, Abs!TypeOK, Actions, SeedingTypeOK
  <2>3. \A j \in Ingests : ingest'[j] = IF j = i THEN NextState["approve"] ELSE ingest[j]
    BY <1>4, <1>3 DEF Abs!Approve, Actions
  <2>4. ProjectionInv'
    BY <2>1, <2>3 DEF ProjectionInv
  <2> QED BY <2>1, <2>2, <2>4
<1>5. ASSUME NEW r \in Requests, NEW i \in Ingests, Abs!Revoke(r, i)
      PROVE  /\ Abs!TypeOK' /\ ProjectionInv'
             /\ tracks[TrackOf[i]] = i /\ lines[TrackOf[i]] = {}
             /\ \A t \in Tracks : tracks'[t] = IF t = TrackOf[i] THEN Nobody ELSE tracks[t]
  <2>1. /\ lines[TrackOf[i]] = {}
        /\ tracks' \in [Tracks -> Ingests \cup {Seeded, Nobody}]
        /\ \A t \in Tracks : tracks'[t] = IF t = TrackOf[i] THEN Nobody ELSE tracks[t]
    BY <1>5 DEF Abs!Revoke, SeedingTypeOK, Abs!TypeOK
  <2>2. /\ ingest' \in [Ingests -> States \cup {"absent"}]
        /\ review' \in [Ingests -> Seq(Abs!ReviewRow)]
        /\ ingest[i] \in States /\ "revoke" \in Allowed[ingest[i]]
        /\ \A j \in Ingests : ingest'[j] = IF j = i THEN NextState["revoke"] ELSE ingest[j]
    BY <1>5, <1>3 DEF Abs!Revoke, Actions
  <2>3. ingest[i] = "approved" /\ NextState["revoke"] # "approved"
    BY <2>2 DEF States, Allowed, NextState, Actions
  <2>4. Abs!TypeOK'
    BY <2>1, <2>2, <1>1 DEF Abs!TypeOK, SeedingTypeOK
  <2>5. ProjectionInv'
    BY <2>1, <2>2, <2>3 DEF ProjectionInv
  <2> QED BY <2>1, <2>3, <2>4, <2>5 DEF ProjectionInv
<1>6. ASSUME NEW r \in Requests, NEW i \in Ingests, Abs!Reject(r, i)
      PROVE  Abs!TypeOK' /\ ProjectionInv' /\ UNCHANGED tracks
  <2>1. /\ ingest' \in [Ingests -> States \cup {"absent"}]
        /\ review' \in [Ingests -> Seq(Abs!ReviewRow)]
        /\ \A j \in Ingests : ingest'[j] = IF j = i THEN NextState["reject"] ELSE ingest[j]
        /\ UNCHANGED tracks
    BY <1>6, <1>3 DEF Abs!Reject, Actions
  <2>2. NextState["reject"] # "approved"
    BY DEF NextState, Actions
  <2> QED BY <2>1, <2>2, <1>1 DEF Abs!TypeOK, SeedingTypeOK, ProjectionInv
<1>7. ASSUME NEW t \in Tracks
      PROVE  /\ tracks'[t] # Seeded \/ tracks[t] = Seeded
             /\ tracks[t] = Seeded => tracks'[t] = Seeded
             /\ tracks[t] # Nobody /\ lines[t] # {} => tracks'[t] # Nobody
  BY <1>2, <1>4, <1>5, <1>6 DEF Admin
<1> QED BY <1>1, <1>2, <1>4, <1>5, <1>6, <1>7 DEF Admin

(* What any step does to the tables: seeded rows stay, and so does a row   *)
(* that has lines; a sheet grows from the top.                             *)
LEMMA TablesKept ==
    ASSUME SeedInv, [SeedingNext]_seedVars
    PROVE  /\ Abs!TypeOK' /\ ProjectionInv' /\ SeededPlayable' /\ SheetFromTop'
           /\ lines' \in [Tracks -> SUBSET Nat]
           /\ \A t \in Tracks : tracks[t] = Seeded => tracks'[t] = Seeded
           /\ \A t \in SeedTracks : Complete(t) => Kept(t)
<1> USE ReviewConstants, SeedingConstants DEF SeedInv
<1>1. CASE Admin
  <2>1. /\ lines' = lines /\ objects' = objects
        /\ \A t \in Tracks : /\ tracks'[t] # Seeded \/ tracks[t] = Seeded
                             /\ tracks[t] = Seeded => tracks'[t] = Seeded
                             /\ tracks[t] # Nobody /\ lines[t] # {} => tracks'[t] # Nobody
    BY <1>1, DecideRow DEF storeVars
  <2>2. SeededPlayable'
    <3> SUFFICES ASSUME NEW k \in DOMAIN Catalog, tracks'[Catalog[k]] = Seeded,
                        \A n \in DOMAIN Template : Template[n] # Catalog[k]
                 PROVE  Catalog[k] \in objects'
      BY DEF SeededPlayable
    <3>1. tracks[Catalog[k]] = Seeded
      BY <2>1
    <3> QED BY <2>1, <3>1 DEF SeededPlayable
  <2>3. \A t \in SeedTracks : Complete(t) => Kept(t)
    <3> SUFFICES ASSUME NEW t \in SeedTracks, Complete(t)
                 PROVE  Kept(t)
      OBVIOUS
    <3>1. 1 \in lines[t]
      BY DEF Complete, Kept
    <3> QED BY <2>1, <3>1 DEF Complete, Kept
  <2>4. SheetFromTop' /\ lines' \in [Tracks -> SUBSET Nat]
    BY <2>1 DEF SheetFromTop, SeedingTypeOK
  <2> QED BY <2>1, <2>2, <2>3, <2>4, <1>1, DecideRow
<1>2. CASE TrackCatalog \/ TrackTemplate
  <2>1. /\ run.k \in 1 .. Len(Plan(run.script)) /\ run.script \in Scripts
        /\ Track \in SeedTracks /\ Track \in Tracks
    BY <1>2, TrackTyped DEF TrackCatalog, TrackTemplate
  <2>2. /\ UNCHANGED <<ingest, review, lines, objects>>
        /\ (UNCHANGED tracks /\ run.script # "template") \/ NewTrack
    BY <1>2 DEF TrackCatalog, TrackTemplate, storeVars
  <2>3. /\ tracks' \in [Tracks -> Ingests \cup {Seeded, Nobody}]
        /\ \A t \in Tracks : tracks'[t] = tracks[t]
                              \/ (t = Track /\ tracks[t] = Nobody /\ tracks'[t] = Seeded)
    BY <2>1, <2>2, NewTrackRow DEF SeedingTypeOK, Abs!TypeOK
  <2>4. Abs!TypeOK' /\ lines' \in [Tracks -> SUBSET Nat] /\ SheetFromTop'
    BY <2>2, <2>3 DEF SeedingTypeOK, Abs!TypeOK, SheetFromTop
  <2>5. ProjectionInv'
    BY <2>2, <2>3 DEF ProjectionInv
  <2>6. SeededPlayable'
    <3> SUFFICES ASSUME NEW k \in DOMAIN Catalog, tracks'[Catalog[k]] = Seeded,
                        \A n \in DOMAIN Template : Template[n] # Catalog[k]
                 PROVE  Catalog[k] \in objects
      BY <2>2 DEF SeededPlayable
    <3>1. CASE tracks[Catalog[k]] = Seeded
      BY <3>1 DEF SeededPlayable
    <3>2. CASE tracks[Catalog[k]] # Seeded
      <4>1. Catalog[k] = Track
        BY <3>2, <2>3
      <4>2. CASE run.script = "template"
        <5>1. Track = Template[run.k] /\ run.k \in DOMAIN Template
          BY <4>2, <2>1 DEF Track, Plan
        <5> QED BY <4>1, <5>1
      <4>3. CASE run.script # "template"
        BY <4>1, <4>3, <1>2 DEF TrackCatalog, TrackTemplate, ObjectInv
      <4> QED BY <4>2, <4>3
    <3> QED BY <3>1, <3>2
  <2>7. \A t \in SeedTracks : Complete(t) => Kept(t)
    BY <2>2, <2>3 DEF Complete, Kept
  <2> QED BY <2>3, <2>4, <2>5, <2>6, <2>7
<1>3. CASE LineCatalog \/ LineTemplate
  <2>1. /\ Track \in SeedTracks /\ Track \in Tracks /\ run.l \in 1 .. Sheet[Track]
        /\ At("line") /\ Sheet[Track] \in Nat
    BY <1>3, TrackTyped DEF LineCatalog, LineTemplate, SeedingTypeOK
  <2>2. /\ UNCHANGED <<ingest, review, tracks, objects>> /\ tracks[Track] # Nobody
        /\ lines' = [lines EXCEPT ![Track] = @ \cup {run.l}]
    BY <1>3 DEF LineCatalog, LineTemplate, storeVars
  <2>3. /\ lines' \in [Tracks -> SUBSET Nat]
        /\ \A t \in Tracks : lines'[t] = IF t = Track THEN lines[t] \cup {run.l} ELSE lines[t]
    <3>1. lines \in [Tracks -> SUBSET Nat] /\ lines[Track] \cup {run.l} \in SUBSET Nat
      BY <2>1 DEF SeedingTypeOK
    <3> QED BY <2>1, <2>2, <3>1
  <2>4. Abs!TypeOK'
    BY <2>1, <2>2, <2>3 DEF SeedingTypeOK, Abs!TypeOK
  <2>5. SheetFromTop'
    <3> SUFFICES ASSUME NEW t \in SeedTracks
                 PROVE  \E n \in 0 .. Sheet[t] : lines'[t] = 1 .. n
      BY DEF SheetFromTop
    <3>1. PICK n \in 0 .. Sheet[t] : lines[t] = 1 .. n
      BY DEF SheetFromTop
    <3>2. CASE t # Track
      BY <3>1, <3>2, <2>3
    <3>3. CASE t = Track /\ run.l \in 1 .. n
      BY <3>1, <3>3, <2>3
    <3>4. CASE t = Track /\ run.l > n
      <4>1. run.l = n + 1
        <5>1. \A m \in 1 .. (run.l - 1) : m \in 1 .. n
          BY <2>1, <3>1, <3>4 DEF BehindInv
        <5> QED BY <5>1, <2>1, <3>4
      <4>2. lines'[t] = 1 .. (n + 1)
        <5>1. n \in Nat
          BY <3>1, <2>1, <3>4
        <5>2. (1 .. n) \cup {n + 1} = 1 .. (n + 1)
          BY <5>1
        <5> QED BY <4>1, <3>1, <3>4, <2>1, <2>3, <5>2
      <4> QED BY <4>1, <4>2, <3>4, <2>1
    <3> QED BY <3>2, <3>3, <3>4, <2>1
  <2>6. ProjectionInv' /\ SeededPlayable'
    BY <2>2 DEF ProjectionInv, SeededPlayable
  <2>7. \A t \in SeedTracks : Complete(t) => Kept(t)
    BY <2>2, <2>3 DEF Complete, Kept
  <2> QED BY <2>2, <2>3, <2>4, <2>5, <2>6, <2>7
<1>4. CASE UNCHANGED tableVars /\ objects \subseteq objects'
  BY <1>4 DEF tableVars, SeedingTypeOK, Abs!TypeOK, ProjectionInv, SeededPlayable,
              SheetFromTop, Complete, Kept
<1> QED
  BY <1>1, <1>2, <1>3, <1>4 DEF SeedingNext, Start, Migrate, CreateBucket, PutCatalog, PutTemplate,
     Stop, seedVars, storeVars

-----------------------------------------------------------------------------
(* Where the script stands after a step.                                   *)
RunInv ==
    /\ objects \subseteq Tracks /\ bucket \in BOOLEAN /\ files \in 0 .. Files
    /\ run \in RunType \cup {NoRun}
    /\ At("put") \/ At("track") \/ At("line") => run.k \in 1 .. Len(Plan(run.script))
    /\ At("line") => run.l \in 1 .. Sheet[Track]
    /\ BehindInv /\ ObjectInv /\ FreshInv

(* It stops, or the step is not its own.                                   *)
LEMMA RunEnds ==
    ASSUME SeedInv, [SeedingNext]_seedVars, run' = NoRun, UNCHANGED storeVars
    PROVE  RunInv'
BY DEF RunInv, BehindInv, ObjectInv, FreshInv, At, storeVars, SeedInv, SeedingTypeOK

LEMMA RunWaits ==
    ASSUME SeedInv, [SeedingNext]_seedVars, UNCHANGED <<run, storeVars>>
    PROVE  RunInv'
<1>1. /\ objects' \subseteq Tracks /\ bucket' \in BOOLEAN /\ files' \in 0 .. Files
      /\ run' \in RunType \cup {NoRun}
      /\ (At("put") \/ At("track") \/ At("line"))' => run'.k \in 1 .. Len(Plan(run'.script))
      /\ At("line")' => run'.l \in 1 .. Sheet[Track']
  BY DEF SeedInv, SeedingTypeOK, storeVars, At, Track
<1>2. BehindInv'
  <2>1. ASSUME At("put") \/ At("track") \/ At("line"), NEW n \in 1 .. (run.k - 1),
               Complete(Plan(run.script)[n])
        PROVE  Kept(Plan(run.script)[n])
    <3>1. n \in 1 .. Len(Plan(run.script)) /\ run.script \in Scripts
      BY <2>1, TrackTyped DEF SeedInv, RunType
    <3>2. Plan(run.script)[n] \in SeedTracks
      BY <3>1, PlanTyped
    <3>3. PICK t \in SeedTracks : t = Plan(run.script)[n]
      BY <3>2
    <3>4. Kept(t)
      BY <2>1, <3>3, TablesKept
    <3> QED BY <3>3, <3>4 DEF Complete, Kept, Plan
  <2>2. At("line") => lines[Track] \subseteq lines'[Track]
    <3>1. CASE Admin
      BY <3>1, DecideRow DEF SeedInv
    <3>2. CASE UNCHANGED lines
      BY <3>2
    <3>3. CASE LineCatalog \/ LineTemplate
      <4>1. Track \in Tracks /\ At("line")
        BY <3>3, TrackTyped DEF LineCatalog, LineTemplate, SeedInv
      <4> QED BY <3>3, <4>1 DEF LineCatalog, LineTemplate, SeedInv, SeedingTypeOK
    <3> QED
      BY <3>1, <3>2, <3>3 DEF SeedingNext, Start, Migrate, CreateBucket, PutCatalog, PutTemplate,
         TrackCatalog, TrackTemplate, Stop, seedVars, tableVars
  <2> QED BY <2>1, <2>2 DEF BehindInv, At, Track, Plan, SeedInv, Complete, Kept
<1>3. ObjectInv' 
  BY DEF ObjectInv, At, Track, Plan, storeVars, SeedInv
<1>4. FreshInv'
  <2>1. ASSUME NEW n \in DOMAIN Template, tracks[Template[n]] = Seeded
        PROVE  tracks'[Template[n]] = Seeded
    BY <2>1, TablesKept, SeedingConstants, ReviewConstants
  <2> QED BY <2>1 DEF FreshInv, At, storeVars, SeedInv
<1> QED BY <1>1, <1>2, <1>3, <1>4 DEF RunInv, Track

(* It goes on, at a track that it comes to or stands at.                   *)
LEMMA RunGoes ==
    ASSUME SeedInv, [SeedingNext]_seedVars,
           run \in RunType, NEW phase \in {"put", "track", "line"}, NEW k \in Nat, NEW l \in Nat,
           Goto(phase, k, l), k \in 1 .. Len(Plan(run.script)),
           l \in 1 .. Sheet[Plan(run.script)[k]],
           run.phase # "migrate",
           objects' \subseteq Tracks, UNCHANGED <<bucket, files>>,
           ~(phase = "put" /\ run.script = "template") =>
              \A n \in 1 .. (k - 1) : Kept(Plan(run.script)[n]),
           phase = "line" => \A n \in 1 .. (l - 1) : n \in lines'[Plan(run.script)[k]],
           phase = "track" /\ run.script # "template" => Plan(run.script)[k] \in objects',
           run.script = "template" /\ ~run.fresh =>
              \E n \in DOMAIN Template : /\ tracks[Template[n]] = Seeded
                                         /\ phase = "track" => n >= k
                                         /\ phase = "line" => n > k
    PROVE  RunInv'
<1>1. /\ run' \in RunType /\ run' # NoRun
      /\ run'.script = run.script /\ run'.fresh = run.fresh
      /\ run'.phase = phase /\ run'.k = k /\ run'.l = l
  BY GotoRun DEF Phases
<1>2. /\ Plan(run.script)' = Plan(run.script) /\ Track' = Plan(run.script)[k]
      /\ Plan(run'.script) = Plan(run.script)
  BY <1>1 DEF Track, Plan
<1>3. /\ objects' \subseteq Tracks /\ bucket' \in BOOLEAN /\ files' \in 0 .. Files
      /\ run' \in RunType \cup {NoRun}
      /\ (At("put") \/ At("track") \/ At("line"))' => run'.k \in 1 .. Len(Plan(run'.script))
      /\ At("line")' => run'.l \in 1 .. Sheet[Track']
  BY <1>1, <1>2 DEF SeedInv, SeedingTypeOK
<1>4. BehindInv'
  <2>1. ASSUME (At("put")' /\ run'.script # "template") \/ At("track")' \/ At("line")',
               NEW n \in 1 .. (run'.k - 1)
        PROVE  Kept(Plan(run.script)[n])
    BY <2>1, <1>1 DEF At
  <2>2. ASSUME At("line")', NEW n \in 1 .. (run'.l - 1)
        PROVE  n \in lines'[Track']
    BY <2>2, <1>1, <1>2 DEF At
  <2> QED BY <2>1, <2>2, <1>2 DEF BehindInv, Complete, Kept
<1>5. ObjectInv'
  BY <1>1, <1>2 DEF ObjectInv, At
<1>6. FreshInv'
  <2>1. \A n \in DOMAIN Template : tracks[Template[n]] = Seeded => tracks'[Template[n]] = Seeded
    BY TablesKept, SeedingConstants, ReviewConstants
  <2>2. run.script = "init" => run.fresh
    BY SeedingConstants DEF FreshInv, SeedInv
  <2> QED BY <1>1, <2>1, <2>2 DEF FreshInv, At
<1> QED BY <1>3, <1>4, <1>5, <1>6, <1>2 DEF RunInv

(* What comes after a line, when the line is in.                           *)
LEMMA AfterLineInv ==
    ASSUME SeedInv, LineCatalog \/ LineTemplate
    PROVE  RunInv' /\ FinishedStays' /\ finished' \subseteq Scripts
           /\ \A script \in finished' \ finished :
                 script = run.script /\ (script \in {"init", "template"} => run.fresh)
<1> USE DEF SeedInv
<1>1. [SeedingNext]_seedVars
  BY DEF SeedingNext
<1>2. /\ At("line") /\ run \in RunType /\ run.script \in Scripts /\ run.k \in Nat /\ run.l \in Nat
      /\ run.k \in 1 .. Len(Plan(run.script)) /\ Track \in SeedTracks
      /\ run.l \in 1 .. Sheet[Track] /\ Sheet[Track] \in Nat \ {0}
      /\ Len(Plan(run.script)) \in Nat
  BY TrackTyped, PlanTyped DEF LineCatalog, LineTemplate, SeedingTypeOK, RunType
<1>3. /\ UNCHANGED <<tracks, storeVars>> /\ tracks[Track] # Nobody /\ AfterLine
      /\ lines'[Track] = lines[Track] \cup {run.l}
  BY <1>2, ReviewConstants DEF LineCatalog, LineTemplate, SeedingTypeOK
<1>4. /\ \A n \in 1 .. run.l : n \in lines'[Track]
      /\ objects' \subseteq Tracks /\ UNCHANGED <<bucket, files>>
      /\ run.phase = "line" /\ run # NoRun
  BY <1>2, <1>3 DEF BehindInv, SeedingTypeOK, storeVars, At
<1>5. \A n \in 1 .. (run.k - 1) : Kept(Plan(run.script)[n])
  <2> SUFFICES ASSUME NEW n \in 1 .. (run.k - 1)
               PROVE  Kept(Plan(run.script)[n])
    OBVIOUS
  <2>1. n \in 1 .. Len(Plan(run.script))
    BY <1>2
  <2>2. PICK t \in SeedTracks : t = Plan(run.script)[n]
    BY <1>2, <2>1, PlanTyped
  <2>3. Complete(t)
    BY <1>2, <2>2 DEF BehindInv
  <2>4. Kept(t)
    BY <1>1, <2>3, TablesKept
  <2> QED BY <2>2, <2>4 DEF Complete, Kept, Plan
<1>6. run.l = Sheet[Track] => Kept(Plan(run.script)[run.k])
  BY <1>3, <1>4 DEF Complete, Kept, Track, Plan
<1>7. run.script = "template" /\ ~run.fresh =>
         \E n \in DOMAIN Template : tracks[Template[n]] = Seeded /\ n > run.k
  BY <1>2, <1>4 DEF FreshInv, At
<1>8. \A script \in finished : \A k \in DOMAIN Plan(script) : Kept(Plan(script)[k])
  <2> SUFFICES ASSUME NEW script \in finished, NEW k \in DOMAIN Plan(script)
               PROVE  Kept(Plan(script)[k])
    OBVIOUS
  <2>1. script \in Scripts
    BY DEF SeedingTypeOK
  <2>2. PICK t \in SeedTracks : t = Plan(script)[k]
    BY <2>1, PlanTyped
  <2>3. Kept(t)
    BY <1>1, <2>2, TablesKept DEF FinishedStays, Complete, Kept
  <2> QED BY <2>2, <2>3 DEF Complete, Kept, Plan
<1>9. CASE run.l < Sheet[Track]
  <2>1. Goto("line", run.k, run.l + 1) /\ UNCHANGED finished
    BY <1>3, <1>9, <1>2 DEF AfterLine
  <2>2. RunInv'
    BY <1>1, <1>2, <1>4, <1>5, <1>7, <1>9, <2>1, RunGoes DEF Track
  <2> QED BY <1>8, <2>1, <2>2 DEF FinishedStays, Complete, Kept, SeedingTypeOK, Plan
<1>10. CASE run.l = Sheet[Track] /\ run.k < Len(Plan(run.script))
  <2>1. /\ Goto(IF run.script = "template" THEN "track" ELSE "put", run.k + 1, 1)
        /\ UNCHANGED finished
    BY <1>3, <1>10, <1>2 DEF AfterLine
  <2>2. \A n \in 1 .. (run.k + 1 - 1) : Kept(Plan(run.script)[n])
    BY <1>5, <1>6, <1>10, <1>2
  <2>3. /\ run.k + 1 \in Nat /\ run.k + 1 \in 1 .. Len(Plan(run.script))
        /\ 1 \in 1 .. Sheet[Plan(run.script)[run.k + 1]]
    BY <1>2, <1>10, PlanTyped
  <2>4. RunInv'
    <3>1. CASE run.script = "template"
      <4>1. Goto("track", run.k + 1, 1)
        BY <2>1, <3>1
      <4>2. ~run.fresh => \E n \in DOMAIN Template : tracks[Template[n]] = Seeded /\ n >= run.k + 1
        BY <1>7, <3>1, <1>2, SeedingConstants
      <4> QED BY <1>1, <1>2, <1>4, <2>2, <2>3, <3>1, <4>1, <4>2, RunGoes
    <3>2. CASE run.script # "template"
      <4>1. Goto("put", run.k + 1, 1)
        BY <2>1, <3>2
      <4> QED BY <1>1, <1>2, <1>4, <2>2, <2>3, <3>2, <4>1, RunGoes
    <3> QED BY <3>1, <3>2
  <2> QED BY <1>8, <2>1, <2>4 DEF FinishedStays, Complete, Kept, SeedingTypeOK, Plan
<1>11. CASE run.l = Sheet[Track] /\ run.k = Len(Plan(run.script))
  <2>1. run' = NoRun /\ finished' = finished \cup {run.script}
    BY <1>3, <1>11, <1>2 DEF AfterLine
  <2>2. RunInv'
    BY <1>1, <1>3, <2>1, RunEnds
  <2>3. \A k \in DOMAIN Plan(run.script) : Kept(Plan(run.script)[k])
    BY <1>5, <1>6, <1>11, <1>2, PlanTyped
  <2>4. FinishedStays'
    <3> SUFFICES ASSUME NEW script \in finished', NEW k \in DOMAIN Plan(script)
                 PROVE  Kept(Plan(script)[k])
      BY DEF FinishedStays, Complete, Kept, Plan
    <3> QED BY <1>8, <2>1, <2>3
  <2>5. run.script = "template" => run.fresh
    <3> SUFFICES ASSUME run.script = "template", ~run.fresh
                 PROVE  FALSE
      OBVIOUS
    <3>1. PICK n \in DOMAIN Template : n > run.k
      BY <1>7
    <3>2. n \in 1 .. Len(Plan(run.script))
      BY <3>1, PlanTyped, <1>2 DEF Plan
    <3> QED BY <3>1, <3>2, <1>11, <1>2
  <2>6. run.script = "init" => run.fresh
    BY <1>4 DEF FreshInv
  <2> QED BY <2>1, <2>2, <2>4, <2>5, <2>6, <1>2 DEF SeedingTypeOK
<1> QED BY <1>2, <1>9, <1>10, <1>11

LEMMA SeedStepInv == SeedInv /\ [SeedingNext]_seedVars => SeedInv'
<1> SUFFICES ASSUME SeedInv, [SeedingNext]_seedVars
             PROVE  SeedInv'
  OBVIOUS
<1> USE DEF SeedInv
<1>1. RunInv' /\ FinishedStays' /\ finished' \subseteq Scripts => SeedInv'
  BY TablesKept DEF RunInv, SeedingTypeOK
<1>2. UNCHANGED finished => FinishedStays' /\ finished' \subseteq Scripts
  <2> SUFFICES ASSUME UNCHANGED finished, NEW script \in finished, NEW k \in DOMAIN Plan(script)
               PROVE  Kept(Plan(script)[k])
    BY DEF FinishedStays, Complete, Kept, Plan, SeedingTypeOK
  <2>1. script \in Scripts
    BY DEF SeedingTypeOK
  <2>2. PICK t \in SeedTracks : t = Plan(script)[k]
    BY <2>1, PlanTyped
  <2>3. Kept(t)
    BY <2>2, TablesKept DEF FinishedStays, Complete, Kept
  <2> QED BY <2>2, <2>3 DEF Complete, Kept, Plan
<1>3. ASSUME NEW script \in Scripts, Start(script)
      PROVE  SeedInv'
  <2>1. PICK phase \in Phases :
           /\ run' = [script |-> script, phase |-> phase, k |-> 1, l |-> 1, fresh |-> Fresh(script)]
           /\ script = "init" <=> phase = "migrate"
           /\ phase \in {"migrate", "put", "track"} /\ (phase = "track" => script = "template")
    BY <1>3 DEF Start, Phases, Scripts
  <2>2. /\ UNCHANGED <<tableVars, storeVars, finished>> /\ run = NoRun
        /\ Fresh(script) \in BOOLEAN
    BY <1>3 DEF Start, Fresh, Scripts
  <2>3. /\ run' \in RunType /\ run' # NoRun /\ run'.k = 1 /\ run'.l = 1
        /\ run'.script = script /\ run'.phase = phase /\ run'.fresh = Fresh(script)
    BY <2>1, <2>2, SeedingConstants DEF RunType
  <2>4. 1 \in 1 .. Len(Plan(script)) /\ DOMAIN Plan(script) = 1 .. Len(Plan(script))
    BY PlanTyped
  <2>5. BehindInv' /\ ObjectInv'
    BY <2>1, <2>3 DEF BehindInv, ObjectInv, At
  <2>6. FreshInv'
    <3>1. script = "init" => Fresh(script) \/ files' > 0
      BY <2>2, SeedingConstants DEF Fresh, storeVars, SeedingTypeOK
    <3>2. script = "template" /\ ~Fresh(script) =>
             \E n \in 1 .. Len(Template) : tracks'[Template[n]] = Seeded
      BY <2>2, SeedingConstants DEF Fresh, tableVars
    <3> QED BY <2>1, <2>3, <3>1, <3>2, SeedingConstants DEF FreshInv, At
  <2>7. RunInv'
    BY <2>1, <2>2, <2>3, <2>4, <2>5, <2>6 DEF RunInv, SeedingTypeOK, storeVars, At, Plan
  <2> QED BY <1>1, <1>2, <2>2, <2>7
<1>4. CASE Migrate
  <2>1. /\ run \in RunType /\ run # NoRun /\ run.script = "init" /\ run.k \in 1 .. Files /\ run.phase = "migrate"
        /\ run.fresh \/ (run.k = 1 /\ files > 0)
    BY <1>4 DEF Migrate, At, SeedingTypeOK, FreshInv
  <2>2. run.fresh /\ UNCHANGED <<objects, bucket, finished>>
    BY <1>4, <2>1, SeedingConstants DEF Migrate, SeedingTypeOK
  <2>3. PICK phase \in {"migrate", "bucket"}, k \in 1 .. Files : Goto(phase, k, 1)
    BY <1>4, <2>1, SeedingConstants DEF Migrate
  <2>4. /\ run' \in RunType /\ run' # NoRun
        /\ run'.script = "init" /\ run'.fresh /\ run'.phase = phase
        /\ run'.k \in 1 .. Files
    <3>1. phase \in Phases /\ k \in Nat /\ 1 \in Nat
      BY SeedingConstants DEF Phases
    <3> QED BY <2>1, <2>2, <2>3, <3>1, GotoRun
  <2>5. files' \in 0 .. Files
    BY <1>4, <2>1, SeedingConstants DEF Migrate, SeedingTypeOK, Goto
  <2>6. BehindInv' /\ ObjectInv' /\ FreshInv'
    BY <2>4 DEF BehindInv, ObjectInv, FreshInv, At
  <2> QED BY <1>1, <1>2, <2>2, <2>4, <2>5, <2>6 DEF RunInv, SeedingTypeOK, At
<1>5. CASE CreateBucket
  <2>1. /\ run \in RunType /\ run # NoRun /\ run.phase = "bucket" /\ Goto("put", 1, 1)
        /\ UNCHANGED <<tableVars, objects, files, finished>> /\ bucket' \in BOOLEAN
        /\ run.script \in Scripts
    BY <1>5 DEF CreateBucket, At, SeedingTypeOK, RunType
  <2>2. /\ run' \in RunType /\ run' # NoRun
        /\ run'.script = run.script /\ run'.fresh = run.fresh
        /\ run'.phase = "put" /\ run'.k = 1 /\ run'.l = 1
    BY <2>1, GotoRun DEF Phases
  <2>3. 1 \in 1 .. Len(Plan(run.script)) /\ Plan(run'.script) = Plan(run.script)
    BY <2>1, <2>2, PlanTyped
  <2>4. BehindInv' /\ ObjectInv'
    BY <2>2 DEF BehindInv, ObjectInv, At
  <2>5. FreshInv'
    BY <2>1, <2>2 DEF FreshInv, At, tableVars
  <2> QED BY <1>1, <1>2, <2>1, <2>2, <2>3, <2>4, <2>5 DEF RunInv, SeedingTypeOK, At, Plan
<1>6. CASE PutCatalog
  <2>1. /\ At("put") /\ run.phase = "put" /\ run.script # "template" /\ Goto("track", run.k, 1)
        /\ objects' = objects \cup {Track} /\ UNCHANGED <<tableVars, bucket, files, finished>>
    BY <1>6 DEF PutCatalog, At
  <2>2. /\ run \in RunType /\ run.k \in Nat /\ run.k \in 1 .. Len(Plan(run.script))
        /\ Track \in Tracks /\ 1 \in 1 .. Sheet[Track]
    BY <2>1, TrackTyped DEF RunType
  <2>3. \A n \in 1 .. (run.k - 1) : Kept(Plan(run.script)[n])
    BY <2>1 DEF BehindInv, Complete, Kept, Plan, tableVars
  <2>4. objects' \subseteq Tracks /\ Plan(run.script)[run.k] \in objects'
    BY <2>1, <2>2 DEF SeedingTypeOK, Track
  <2>5. RunInv'
    BY <2>1, <2>2, <2>3, <2>4, RunGoes DEF Track
  <2> QED BY <1>1, <1>2, <2>1, <2>5
<1>7. CASE PutTemplate
  <2>1. /\ At("put") /\ run.phase = "put" /\ run.script = "template" /\ run # NoRun
        /\ objects' = objects \cup {Track} /\ UNCHANGED <<tableVars, bucket, files, finished>>
        /\ IF run.k < Len(Template) THEN Goto("put", run.k + 1, 1) ELSE Goto("track", 1, 1)
    BY <1>7 DEF PutTemplate, At
  <2>2. /\ run \in RunType /\ run.k \in Nat /\ run.k \in 1 .. Len(Plan(run.script))
        /\ Track \in Tracks /\ run.script \in Scripts
    BY <2>1, TrackTyped DEF RunType
  <2>3. objects' \subseteq Tracks
    BY <2>1, <2>2 DEF SeedingTypeOK
  <2>4. ~run.fresh => \E n \in DOMAIN Template : tracks[Template[n]] = Seeded /\ n >= 1
    BY <2>1, SeedingConstants DEF FreshInv
  <2>5. CASE run.k < Len(Template)
    <3>1. /\ run.k + 1 \in Nat /\ run.k + 1 \in 1 .. Len(Plan(run.script))
          /\ 1 \in 1 .. Sheet[Plan(run.script)[run.k + 1]]
      BY <2>1, <2>2, <2>5, PlanTyped DEF Plan
    <3>2. RunInv'
      BY <2>1, <2>2, <2>3, <2>4, <2>5, <3>1, RunGoes
    <3> QED BY <1>1, <1>2, <2>1, <3>2
  <2>6. CASE ~(run.k < Len(Template))
    <3>1. 1 \in 1 .. Len(Plan(run.script)) /\ 1 \in 1 .. Sheet[Plan(run.script)[1]]
      BY <2>2, PlanTyped
    <3>2. RunInv'
      BY <2>1, <2>2, <2>3, <2>4, <2>6, <3>1, RunGoes
    <3> QED BY <1>1, <1>2, <2>1, <3>2
  <2> QED BY <2>5, <2>6
<1>8. CASE TrackCatalog \/ TrackTemplate
  <2>1. /\ At("track") /\ run.phase = "track" /\ Goto("line", run.k, 1) /\ run # NoRun
        /\ UNCHANGED <<ingest, review, lines, storeVars, finished>>
    BY <1>8 DEF TrackCatalog, TrackTemplate, At
  <2>2. /\ run \in RunType /\ run.k \in Nat /\ run.k \in 1 .. Len(Plan(run.script))
        /\ Track \in Tracks /\ 1 \in 1 .. Sheet[Track] /\ run.script \in Scripts
    BY <2>1, TrackTyped DEF RunType
  <2>3. \A n \in 1 .. (run.k - 1) : Kept(Plan(run.script)[n])
    <3> SUFFICES ASSUME NEW n \in 1 .. (run.k - 1)
                 PROVE  Kept(Plan(run.script)[n])
      OBVIOUS
    <3>1. n \in 1 .. Len(Plan(run.script))
      BY <2>2, PlanTyped
    <3>2. PICK t \in SeedTracks : t = Plan(run.script)[n]
      BY <2>2, <3>1, PlanTyped
    <3>3. Kept(t)
      BY <2>1, <3>2, TablesKept DEF BehindInv
    <3> QED BY <3>2, <3>3 DEF Complete, Kept, Plan
  <2>4. objects' \subseteq Tracks /\ UNCHANGED <<bucket, files>>
    BY <2>1 DEF SeedingTypeOK, storeVars
  <2>5. run.script = "template" /\ ~run.fresh =>
           \E n \in DOMAIN Template : tracks[Template[n]] = Seeded /\ n > run.k
    <3> SUFFICES ASSUME run.script = "template", ~run.fresh
                 PROVE  \E n \in DOMAIN Template : tracks[Template[n]] = Seeded /\ n > run.k
      OBVIOUS
    <3>1. PICK n \in DOMAIN Template : tracks[Template[n]] = Seeded /\ n >= run.k
      BY <2>1 DEF FreshInv
    <3>2. NewTrack
      BY <1>8 DEF TrackCatalog, TrackTemplate
    <3>3. tracks[Template[run.k]] = Nobody
      BY <2>2, <3>2, NewTrackRow DEF Track, Plan
    <3>4. n # run.k /\ n \in Nat
      BY <3>1, <3>3, ReviewConstants, SeedingConstants
    <3> QED BY <3>1, <3>4, <2>2
  <2>6. RunInv'
    BY <2>1, <2>2, <2>3, <2>4, <2>5, RunGoes DEF Track
  <2> QED BY <1>1, <1>2, <2>1, <2>6
<1>9. CASE LineCatalog \/ LineTemplate
  BY <1>1, <1>9, AfterLineInv
<1>10. CASE Stop
  BY <1>1, <1>2, <1>10, RunEnds DEF Stop
<1>11. CASE Admin
  BY <1>1, <1>2, <1>11, RunWaits DEF Admin
<1>12. CASE UNCHANGED seedVars
  BY <1>1, <1>2, <1>12, RunWaits DEF seedVars
<1> QED
  BY <1>3, <1>4, <1>5, <1>6, <1>7, <1>8, <1>9, <1>10, <1>11, <1>12 DEF SeedingNext

-----------------------------------------------------------------------------
(* A run of init or template that is not on a database that had nothing of *)
(* it does not end well.                                                   *)
LEMMA SeedStepFresh ==
    SeedInv /\ [SeedingNext]_seedVars =>
       [\A script \in {"init", "template"} :
           script \in finished' \ finished => run.fresh]_seedVars
<1> SUFFICES ASSUME SeedInv, [SeedingNext]_seedVars,
                    NEW script \in {"init", "template"}, script \in finished' \ finished
             PROVE  run.fresh
  OBVIOUS
<1>1. CASE LineCatalog \/ LineTemplate
  BY <1>1, AfterLineInv
<1>2. CASE UNCHANGED finished
  BY <1>2
<1> QED
  BY <1>1, <1>2 DEF SeedingNext, Start, Migrate, CreateBucket, PutCatalog, PutTemplate,
     TrackCatalog, TrackTemplate, Stop, Admin, seedVars

LEMMA SeedInvAlways == SeedingSpec => []SeedInv
BY SeedInitInv, SeedStepInv, PTL DEF SeedingSpec

(* The state of the scripts and of the tables they fill is always of its   *)
(* type, whatever the plans, the sheets and the number of migrations.      *)
THEOREM SeedingTypeCorrect == SeedingSpec => []SeedingTypeOK
<1>1. SeedInv => SeedingTypeOK
  BY DEF SeedInv
<1> QED BY <1>1, SeedInvAlways, PTL

LEMMA SeedingPromises == SeedingSpec => [](SeededPlayable /\ SheetFromTop /\ FinishedStays)
<1>1. SeedInv => SeededPlayable /\ SheetFromTop /\ FinishedStays
  BY DEF SeedInv
<1> QED BY <1>1, SeedInvAlways, PTL

(* The audio of a row that seed.ts installed is there, wherever runs of    *)
(* the scripts were stopped.                                               *)
THEOREM SeedingPlayable == SeedingSpec => []SeededPlayable
BY SeedingPromises, PTL

(* No sheet ever has a gap.                                                *)
THEOREM SeedingSheets == SeedingSpec => []SheetFromTop
BY SeedingPromises, PTL

(* What a script finished stays published with its whole sheet, whatever   *)
(* admins decide.                                                          *)
THEOREM SeedingFinished == SeedingSpec => []FinishedStays
BY SeedingPromises, PTL

(* init and template end well only in a database without their work.       *)
THEOREM SeedingFromScratch == SeedingSpec => CompletesFromScratch
BY SeedInvAlways, SeedStepFresh, PTL DEF SeedingSpec, CompletesFromScratch

(* Scripts and admins together change the tables as ReviewSpec allows, so  *)
(* all that ReviewSpec promises of them holds beside the scripts too.      *)
THEOREM SeedingImplements == SeedingSpec => Implements
<1>1. SeedingInit => Abs!Init
  BY ReviewConstants DEF SeedingInit, Abs!Init
<1>2. SeedInv /\ [SeedingNext]_seedVars => [Abs!Next]_(Abs!absVars)
  BY SeedingRefine DEF SeedInv
<1> QED BY <1>1, <1>2, SeedInvAlways, PTL DEF SeedingSpec, Implements, Abs!Spec
=============================================================================
