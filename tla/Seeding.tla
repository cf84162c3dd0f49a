------------------------------ MODULE Seeding -------------------------------
(***************************************************************************)
(* The scripts that fill the catalogue, beside admins who decide on it:    *)
(*   catalog   scripts/seed-self-hosted.ts, that is src/db/seed/seed.ts    *)
(*   init      scripts/e2e-init.ts: migrations, bucket, then the catalog   *)
(*   template  scripts/seed.ts                                             *)
(* Each works in statements of their own, with no transaction around them; *)
(* a statement that is refused, a fault or a kill ends the script wherever *)
(* it stands, and it can only be started again.  Decisions are the atomic  *)
(* ones of ReviewSpec, which this module implements.                       *)
(***************************************************************************)
EXTENDS ReviewRules, Integers, Sequences

CONSTANTS
    Catalog,      \* SEED_TRACKS of seed.ts: track_ids, in order
    Template,     \* SEED of scripts/seed.ts
    Sheet,        \* Sheet[t]: number of lines of t's sheet
    Files,        \* number of migration files
    NoRun         \* no script runs

Scripts == {"catalog", "init", "template"}
Phases  == {"migrate", "bucket", "put", "track", "line"}

(* Where a script stands: at the k-th track (or file) and its l-th line.   *)
RunType == [script : Scripts, phase : Phases, k : Nat, l : Nat, fresh : BOOLEAN]

ASSUME SeedingConstants ==
    /\ Catalog \in Seq(SeedTracks) /\ Template \in Seq(SeedTracks)
    /\ Catalog # << >> /\ Template # << >>
    /\ Sheet \in [SeedTracks -> Nat \ {0}]
    /\ Files \in Nat \ {0}
    /\ NoRun \notin RunType

VARIABLES
    ingest, review, tracks,      \* as in ReviewSpec
    lines,        \* lines[t]: the line_index values of t in table lyrics
    objects,      \* the tracks whose stream key is in the bucket
    bucket,       \* whether the bucket exists
    files,        \* how many migration files were applied
    run,          \* the script that runs: what it does next, or NoRun
    finished      \* history: scripts that once ended well

tableVars == <<ingest, review, tracks, lines>>
storeVars == <<objects, bucket, files>>
seedVars  == <<tableVars, storeVars, run, finished>>

Abs == INSTANCE ReviewSpec WITH lyrics <- {t \in Tracks : lines[t] # {}}

-----------------------------------------------------------------------------
Plan(script) == IF script = "template" THEN Template ELSE Catalog

(* Whether the run finds nothing that such a run has made. *)
Fresh(script) ==
    CASE script = "init"     -> files = 0
      [] script = "template" -> \A k \in DOMAIN Template : tracks[Template[k]] # Seeded
      [] OTHER               -> TRUE

SeedingInit ==
    /\ ingest = [i \in Ingests |-> "absent"]
    /\ review = [i \in Ingests |-> << >>]
    /\ tracks = [t \in Tracks |-> Nobody]
    /\ lines = [t \in Tracks |-> {}]
    /\ objects = {} /\ bucket \in BOOLEAN
    /\ files \in {0, Files}
    /\ run = NoRun /\ finished = {}

At(phase) == run # NoRun /\ run.phase = phase

Track == Plan(run.script)[run.k]

Goto(phase, k, l) == run' = [run EXCEPT !.phase = phase, !.k = k, !.l = l]

-----------------------------------------------------------------------------
(* Without S3_ENDPOINT the template uploads nothing. *)
Start(script) ==
    /\ run = NoRun
    /\ \E phase \in CASE script = "init"     -> {"migrate"}
                      [] script = "template" -> {"put", "track"}
                      [] OTHER               -> {"put"} :
          run' = [script |-> script, phase |-> phase, k |-> 1, l |-> 1, fresh |-> Fresh(script)]
    /\ UNCHANGED <<tableVars, storeVars, finished>>

(* Variant: the statements of a file that was applied are skipped. *)
Migrate_IfNotExists ==
    /\ At("migrate")
    /\ files' = IF run.k > files THEN run.k ELSE files
    /\ IF run.k < Files THEN Goto("migrate", run.k + 1, 1) ELSE Goto("bucket", 1, 1)
    /\ UNCHANGED <<tableVars, objects, bucket, finished>>

(* One file is one implicit transaction, and the first one, which creates  *)
(* tables, is refused when it was applied before.                          *)
Migrate ==
    /\ At("migrate") /\ run.k = files + 1
    /\ files' = run.k
    /\ IF run.k < Files THEN Goto("migrate", run.k + 1, 1) ELSE Goto("bucket", 1, 1)
    /\ UNCHANGED <<tableVars, objects, bucket, finished>>

(* Whatever CreateBucket answers is ignored. *)
CreateBucket ==
    /\ At("bucket")
    /\ bucket' \in {bucket, TRUE}
    /\ Goto("put", 1, 1)
    /\ UNCHANGED <<tableVars, objects, files, finished>>

(* Variant: the row first, its audio when it comes to the next track. *)
PutCatalog_Later ==
    /\ At("put") /\ run.script # "template" /\ bucket
    /\ objects' = objects \cup (IF run.k > 1 THEN {Catalog[run.k - 1]} ELSE {})
    /\ Goto("track", run.k, 1)
    /\ UNCHANGED <<tableVars, bucket, files, finished>>

(* The audio of a track before its row. *)
PutCatalog ==
    /\ At("put") /\ run.script # "template" /\ bucket
    /\ objects' = objects \cup {Track}
    /\ Goto("track", run.k, 1)
    /\ UNCHANGED <<tableVars, bucket, files, finished>>

(* uploadPlaceholderAudio: the audio of all tracks before any row. *)
PutTemplate ==
    /\ At("put") /\ run.script = "template" /\ bucket
    /\ objects' = objects \cup {Track}
    /\ IF run.k < Len(Template) THEN Goto("put", run.k + 1, 1) ELSE Goto("track", 1, 1)
    /\ UNCHANGED <<tableVars, bucket, files, finished>>

(* The INSERT of a row: no key may clash. *)
NewTrack == /\ Abs!Clashing(Track, IsrcOf[Track]) = {}
            /\ tracks' = [tracks EXCEPT ![Track] = Seeded]

(* Variant: a row that is there is replaced. *)
TrackCatalog_Upsert ==
    /\ At("track") /\ run.script # "template" /\ files > 0
    /\ tracks' = [tracks EXCEPT ![Track] = Seeded]
    /\ Goto("line", run.k, 1)
    /\ UNCHANGED <<ingest, review, lines, storeVars, finished>>

(* ON CONFLICT (track_id) DO NOTHING: a row of that track_id is left       *)
(* alone, be it that of an operator; a clash of isrcs is an error.         *)
TrackCatalog ==
    /\ At("track") /\ run.script # "template" /\ files > 0
    /\ (tracks[Track] # Nobody /\ UNCHANGED tracks) \/ NewTrack
    /\ Goto("line", run.k, 1)
    /\ UNCHANGED <<ingest, review, lines, storeVars, finished>>

(* Here any clash is an error. *)
TrackTemplate ==
    /\ At("track") /\ run.script = "template" /\ files > 0
    /\ NewTrack
    /\ Goto("line", run.k, 1)
    /\ UNCHANGED <<ingest, review, lines, storeVars, finished>>

(* Variant: one line too many is looked for. *)
AfterLine_OffByOne ==
    IF run.l <= Sheet[Track]
    THEN Goto("line", run.k, run.l + 1) /\ UNCHANGED finished
    ELSE run' = NoRun /\ finished' = finished \cup {run.script}

(* What follows a line: the next one, the next track, or the end.          *)
AfterLine ==
    \/ /\ run.l < Sheet[Track]
       /\ Goto("line", run.k, run.l + 1) /\ UNCHANGED finished
    \/ /\ run.l = Sheet[Track] /\ run.k < Len(Plan(run.script))
       /\ Goto(IF run.script = "template" THEN "track" ELSE "put", run.k + 1, 1)
       /\ UNCHANGED finished
    \/ /\ run.l = Sheet[Track] /\ run.k = Len(Plan(run.script))
       /\ run' = NoRun /\ finished' = finished \cup {run.script}

(* Variant: a track that is gone by now is passed over. *)
LineCatalog_Passes ==
    /\ At("line") /\ run.script # "template"
    /\ lines' = [lines EXCEPT ![Track] = IF tracks[Track] = Nobody THEN @ ELSE @ \cup {run.l}]
    /\ AfterLine
    /\ UNCHANGED <<ingest, review, tracks, storeVars>>

(* The track may have been taken down since: foreign key.                  *)
LineCatalog ==
    /\ At("line") /\ run.script # "template" /\ tracks[Track] # Nobody
    /\ lines' = [lines EXCEPT ![Track] = @ \cup {run.l}]
    /\ AfterLine
    /\ UNCHANGED <<ingest, review, tracks, storeVars>>

LineTemplate ==
    /\ At("line") /\ run.script = "template" /\ tracks[Track] # Nobody
    /\ run.l \notin lines[Track]
    /\ lines' = [lines EXCEPT ![Track] = @ \cup {run.l}]
    /\ AfterLine
    /\ UNCHANGED <<ingest, review, tracks, storeVars>>

(* A statement is refused, a service is out, or the process is killed. *)
Stop ==
    /\ run # NoRun /\ run' = NoRun
    /\ UNCHANGED <<tableVars, storeVars, finished>>

(* The admins, once all columns are there. *)
Admin ==
    /\ files = Files
    /\ UNCHANGED <<lines, storeVars, run, finished>>
    /\ \/ \E i \in Ingests : Abs!IngestCreate(i)
       \/ \E r \in Requests, i \in Ingests :
             Abs!Approve(r, i) \/ Abs!Reject(r, i) \/ Abs!Revoke(r, i)

SeedingNext ==
    \/ \E script \in Scripts : Start(script)
    \/ Migrate \/ CreateBucket \/ PutCatalog \/ TrackCatalog \/ LineCatalog
    \/ PutTemplate \/ TrackTemplate \/ LineTemplate
    \/ Stop \/ Admin

SeedingSpec == SeedingInit /\ [][SeedingNext]_seedVars

-----------------------------------------------------------------------------
(* Types, and a running script stands within its plan. *)
SeedingTypeOK ==
    /\ Abs!TypeOK
    /\ lines \in [Tracks -> SUBSET Nat]
    /\ objects \subseteq Tracks /\ bucket \in BOOLEAN /\ files \in 0 .. Files
    /\ run \in RunType \cup {NoRun}
    /\ finished \subseteq Scripts
    /\ At("put") \/ At("track") \/ At("line") => run.k \in 1 .. Len(Plan(run.script))
    /\ At("line") => run.l \in 1 .. Sheet[Track]

(* A row of the catalogue that seed.ts installed can be played: wherever   *)
(* the script was stopped, its audio was uploaded before (seed.ts:53-64).  *)
(* Rows of the template have no such promise (scripts/seed.ts:93-96).      *)
SeededPlayable ==
    \A k \in DOMAIN Catalog :
       tracks[Catalog[k]] = Seeded /\ (\A n \in DOMAIN Template : Template[n] # Catalog[k])
          => Catalog[k] \in objects

(* After a script said that it was done every track of its plan is         *)
(* published with its whole sheet, and stays so whatever admins decide     *)
(* later: the lines hold the track in place.  The row may be that of an    *)
(* operator (ON CONFLICT DO NOTHING), whose revoke then fails for good.    *)
FinishedStays ==
    \A script \in finished : \A k \in DOMAIN Plan(script) :
       LET t == Plan(script)[k] IN tracks[t] # Nobody /\ 1 .. Sheet[t] \subseteq lines[t]

(* The sheet of a row that has any lines is a beginning of the whole one:  *)
(* lines are inserted one by one, readers may see part of it, never a gap. *)
SheetFromTop ==
    \A t \in SeedTracks : \E n \in 0 .. Sheet[t] : lines[t] = 1 .. n

(* init and template end well only in a database that had nothing of what  *)
(* such a run makes: one that was stopped half way can never be completed  *)
(* by running the script again, whatever admins do in between              *)
(* (e2e-init.ts:24-30, scripts/seed.ts:112-139).                           *)
CompletesFromScratch ==
    [][\A script \in {"init", "template"} :
          script \in finished' \ finished => run.fresh]_seedVars

(* The scripts and the admins together change state, histories, catalogue  *)
(* and lyrics only as ReviewSpec allows.                                   *)
Implements == Abs!Spec
=============================================================================
