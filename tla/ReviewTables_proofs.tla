------------------------- MODULE ReviewTables_proofs ------------------------
(* The promises of ReviewSpec, as ReviewTx instantiates it, hold for every  *)
(* set of ingests, tracks and requests.                                     *)
EXTENDS ReviewTx, TLAPS

AbsInv ==
    /\ Abs!TypeOK
    /\ Abs!Projection
    /\ Abs!OwnRow
    /\ Abs!KeysUnique
    /\ Abs!HistoryExplainsState
    /\ Abs!LyricsHaveTrack

(* Where the state machine leads, and from where. *)
LEMMA RulesTyped ==
    /\ \A a \in Abs!Actions : Abs!NextState[a] \in Abs!States
    /\ \A s \in Abs!States : Abs!Allowed[s] \subseteq Abs!Actions
    /\ "absent" \notin Abs!States
    /\ \A s \in Abs!States : /\ "approve" \in Abs!Allowed[s] => s = "pending"
                             /\ "revoke" \in Abs!Allowed[s] => s = "approved"
                             /\ "reject" \in Abs!Allowed[s] => s # "approved"
                             /\ "resubmit" \in Abs!Allowed[s] => s # "approved"
    /\ Abs!NextState["approve"] = "approved"
    /\ Abs!NextState["revoke"] # "approved"
    /\ Abs!NextState["reject"] # "approved"
    /\ Abs!NextState["resubmit"] # "approved"
BY DEF Abs!Actions, Abs!States, Abs!NextState, Abs!Allowed

(* The four decisions share their effect on the tables but for tracks.     *)
LEMMA DecideInv ==
    ASSUME Abs!TypeOK, Abs!HistoryExplainsState,
           NEW r \in Requests, NEW i \in Ingests, NEW a \in Abs!Actions, Abs!Decide(r, i, a)
    PROVE  /\ ingest' \in [Ingests -> Abs!States \cup {"absent"}]
           /\ review' \in [Ingests -> Seq(Abs!ReviewRow)]
           /\ lyrics' \subseteq Tracks
           /\ ingest[i] \in Abs!States /\ a \in Abs!Allowed[ingest[i]]
           /\ \A j \in Ingests : ingest'[j] = IF j = i THEN Abs!NextState[a] ELSE ingest[j]
           /\ Abs!HistoryExplainsState'
<1> DEFINE row == [action |-> a, by |-> r]
<1>1. /\ row \in Abs!ReviewRow
      /\ ingest[i] \in Abs!States
      /\ Abs!NextState[a] \in Abs!States
  BY RulesTyped DEF Abs!TypeOK, Abs!ReviewRow, Abs!Decide
<1>2. /\ ingest' = [ingest EXCEPT ![i] = Abs!NextState[a]]
      /\ review' = [review EXCEPT ![i] = Append(@, row)]
      /\ lyrics' = lyrics
      /\ a \in Abs!Allowed[ingest[i]]
      /\ ingest[i] # "absent"
  BY DEF Abs!Decide
<1>3. /\ ingest' \in [Ingests -> Abs!States \cup {"absent"}]
      /\ \A j \in Ingests : ingest'[j] = IF j = i THEN Abs!NextState[a] ELSE ingest[j]
      /\ lyrics' \subseteq Tracks
  BY <1>1, <1>2 DEF Abs!TypeOK
<1>4. /\ review[i] \in Seq(Abs!ReviewRow)
      /\ Append(review[i], row) \in Seq(Abs!ReviewRow)
      /\ review' \in [Ingests -> Seq(Abs!ReviewRow)]
      /\ review'[i] = Append(review[i], row)
      /\ \A j \in Ingests \ {i} : review'[j] = review[j]
  BY <1>1, <1>2 DEF Abs!TypeOK
<1>5. Abs!HistoryExplainsState'
  <2> SUFFICES ASSUME NEW j \in Ingests
               PROVE  /\ ingest'[j] = "absent" => review'[j] = << >>
                      /\ ingest'[j] # "absent" => ingest'[j] = Abs!StateAfter(j, Len(review[j]))'
                      /\ \A n \in DOMAIN review'[j] :
                            review'[j][n].action \in Abs!Allowed[Abs!StateAfter(j, n - 1)']
    BY DEF Abs!HistoryExplainsState, Abs!StateAfter
  <2>1. CASE j # i
    BY <2>1, <1>3, <1>4 DEF Abs!HistoryExplainsState, Abs!StateAfter
  <2>2. CASE j = i
    <3>1. /\ Len(review'[i]) = Len(review[i]) + 1
          /\ Len(review[i]) \in Nat
          /\ review'[i][Len(review[i]) + 1] = row
          /\ \A n \in 1 .. Len(review[i]) : review'[i][n] = review[i][n]
          /\ DOMAIN review'[i] = 1 .. (Len(review[i]) + 1)
          /\ DOMAIN review[i] = 1 .. Len(review[i])
      BY <1>4
    <3>2. \A n \in 0 .. Len(review[i]) : Abs!StateAfter(i, n)' = Abs!StateAfter(i, n)
      BY <3>1 DEF Abs!StateAfter
    <3>3. ingest[i] = Abs!StateAfter(i, Len(review[i]))
      BY <1>2 DEF Abs!HistoryExplainsState
    <3>4. Abs!StateAfter(i, Len(review[i]))' = Abs!NextState[a]
      BY <3>1 DEF Abs!StateAfter
    <3>5. ASSUME NEW n \in DOMAIN review'[i]
          PROVE  review'[i][n].action \in Abs!Allowed[Abs!StateAfter(i, n - 1)']
      <4>1. CASE n = Len(review[i]) + 1
        BY <4>1, <3>1, <3>2, <3>3, <1>2
      <4>2. CASE n \in 1 .. Len(review[i])
        BY <4>2, <3>1, <3>2 DEF Abs!HistoryExplainsState
      <4> QED BY <4>1, <4>2, <3>1
    <3>6. ingest'[i] = Abs!NextState[a] /\ ingest'[i] # "absent"
      BY <1>3, <1>1, RulesTyped
    <3> QED BY <2>2, <3>4, <3>5, <3>6, <3>1
  <2> QED BY <2>1, <2>2
<1> QED BY <1>1, <1>2, <1>3, <1>4, <1>5

LEMMA AbsInitInv == Abs!Init => AbsInv
BY ReviewConstants DEF Abs!Init, AbsInv, Abs!TypeOK, Abs!Projection, Abs!OwnRow, Abs!KeysUnique,
   Abs!HistoryExplainsState, Abs!LyricsHaveTrack, Abs!States

LEMMA AbsStepInv == AbsInv /\ [Abs!Next]_(Abs!absVars) => AbsInv'
<1> SUFFICES ASSUME AbsInv, [Abs!Next]_(Abs!absVars)
             PROVE  AbsInv'
  OBVIOUS
<1> USE ReviewConstants
<1>1. ASSUME NEW i \in Ingests, Abs!IngestCreate(i)
      PROVE  AbsInv'
  <2>1. /\ Abs!TypeOK' /\ ingest'[i] = "pending" /\ ingest[i] = "absent"
        /\ \A j \in Ingests \ {i} : ingest'[j] = ingest[j]
        /\ review' = review /\ tracks' = tracks /\ lyrics' = lyrics
    BY <1>1 DEF Abs!IngestCreate, AbsInv, Abs!TypeOK, Abs!States
  <2>2. Abs!Projection' /\ Abs!OwnRow' /\ Abs!KeysUnique' /\ Abs!LyricsHaveTrack'
    BY <2>1 DEF AbsInv, Abs!Projection, Abs!OwnRow, Abs!KeysUnique, Abs!LyricsHaveTrack, Abs!RowIsrc
  <2>3. Abs!HistoryExplainsState'
    <3>1. \A j \in Ingests, n \in Int : Abs!StateAfter(j, n)' = Abs!StateAfter(j, n)
      BY <2>1 DEF Abs!StateAfter
    <3>2. review[i] = << >> /\ Abs!StateAfter(i, Len(review[i])) = "pending"
      BY <2>1 DEF AbsInv, Abs!HistoryExplainsState, Abs!StateAfter
    <3>3. \A j \in Ingests \ {i} :
             /\ ingest'[j] = "absent" => review'[j] = << >>
             /\ ingest'[j] # "absent" => ingest'[j] = Abs!StateAfter(j, Len(review[j]))
      BY <2>1 DEF AbsInv, Abs!HistoryExplainsState
    <3> QED BY <2>1, <3>1, <3>2, <3>3 DEF AbsInv, Abs!HistoryExplainsState, Abs!StateAfter
  <2> QED BY <2>1, <2>2, <2>3 DEF AbsInv
<1>2. ASSUME NEW r \in Requests, NEW i \in Ingests, Abs!Approve(r, i)
      PROVE  AbsInv'
  <2>1. /\ ingest' \in [Ingests -> Abs!States \cup {"absent"}]
        /\ review' \in [Ingests -> Seq(Abs!ReviewRow)]
        /\ lyrics' \subseteq Tracks /\ lyrics' = lyrics
        /\ ingest[i] \in Abs!States /\ "approve" \in Abs!Allowed[ingest[i]]
        /\ \A j \in Ingests : ingest'[j] = IF j = i THEN "approved" ELSE ingest[j]
        /\ Abs!HistoryExplainsState'
    BY <1>2, DecideInv, RulesTyped DEF Abs!Approve, AbsInv, Abs!Actions, Abs!Decide
  <2>2. /\ tracks[TrackOf[i]] = Nobody
        /\ \A u \in Tracks : tracks[u] # Nobody /\ IsrcOf[i] # NoIsrc
                                 => Abs!RowIsrc(u) # IsrcOf[i]
    BY <1>2 DEF Abs!Approve, Abs!Clashing
  <2>3. /\ tracks' \in [Tracks -> Ingests \cup {Seeded, Nobody}]
        /\ \A u \in Tracks : tracks'[u] = IF u = TrackOf[i] THEN i ELSE tracks[u]
    BY <1>2 DEF Abs!Approve, AbsInv, Abs!TypeOK
  <2>4. ingest[i] = "pending"
    BY <2>1 DEF Abs!States, Abs!Allowed
  <2>5. Abs!Projection' /\ Abs!OwnRow'
    <3>1. ASSUME NEW j \in Ingests
          PROVE  (ingest'[j] = "approved") <=> (tracks'[TrackOf[j]] = j)
      <4>1. TrackOf[j] \in Tracks /\ ((ingest[j] = "approved") <=> (tracks[TrackOf[j]] = j))
        BY DEF AbsInv, Abs!Projection
      <4>2. CASE j = i
        BY <4>1, <4>2, <2>1, <2>3
      <4>3. CASE j # i /\ TrackOf[j] = TrackOf[i]
        BY <4>1, <4>3, <2>1, <2>2, <2>3
      <4>4. CASE TrackOf[j] # TrackOf[i]
        <5>1. j # i /\ ingest'[j] = ingest[j] /\ tracks'[TrackOf[j]] = tracks[TrackOf[j]]
          BY <4>1, <4>4, <2>1, <2>3
        <5> QED BY <4>1, <5>1
      <4> QED BY <4>2, <4>3, <4>4
    <3>2. Abs!OwnRow'
      BY <2>3 DEF AbsInv, Abs!OwnRow
    <3> QED BY <3>1, <3>2 DEF Abs!Projection
  <2>6. Abs!KeysUnique'
    <3>1. \A u \in Tracks : Abs!RowIsrc(u)' = IF u = TrackOf[i] THEN IsrcOf[i] ELSE Abs!RowIsrc(u)
      BY <2>3 DEF Abs!RowIsrc
    <3> QED BY <3>1, <2>2, <2>3 DEF AbsInv, Abs!KeysUnique
  <2>7. Abs!LyricsHaveTrack'
    BY <2>1, <2>3 DEF AbsInv, Abs!LyricsHaveTrack, Abs!TypeOK
  <2> QED BY <2>1, <2>3, <2>5, <2>6, <2>7 DEF AbsInv, Abs!TypeOK
<1>3. ASSUME NEW r \in Requests, NEW i \in Ingests, Abs!Revoke(r, i)
      PROVE  AbsInv'
  <2>1. /\ ingest' \in [Ingests -> Abs!States \cup {"absent"}]
        /\ review' \in [Ingests -> Seq(Abs!ReviewRow)]
        /\ lyrics' \subseteq Tracks /\ lyrics' = lyrics
        /\ ingest[i] \in Abs!States /\ "revoke" \in Abs!Allowed[ingest[i]]
        /\ \A j \in Ingests : ingest'[j] = IF j = i THEN Abs!NextState["revoke"] ELSE ingest[j]
        /\ Abs!HistoryExplainsState'
    BY <1>3, DecideInv DEF Abs!Revoke, AbsInv, Abs!Actions, Abs!Decide
  <2>2. /\ tracks' \in [Tracks -> Ingests \cup {Seeded, Nobody}]
        /\ \A u \in Tracks : tracks'[u] = IF u = TrackOf[i] THEN Nobody ELSE tracks[u]
    BY <1>3 DEF Abs!Revoke, AbsInv, Abs!TypeOK
  <2>3. tracks[TrackOf[i]] = i /\ Abs!NextState["revoke"] # "approved"
    BY <2>1 DEF AbsInv, Abs!Projection, Abs!Actions, Abs!States, Abs!NextState, Abs!Allowed
  <2>4. Abs!Projection' /\ Abs!OwnRow'
    <3>1. ASSUME NEW j \in Ingests
          PROVE  (ingest'[j] = "approved") <=> (tracks'[TrackOf[j]] = j)
      <4>1. TrackOf[j] \in Tracks /\ ((ingest[j] = "approved") <=> (tracks[TrackOf[j]] = j))
        BY DEF AbsInv, Abs!Projection
      <4>2. CASE j = i
        BY <4>1, <4>2, <2>1, <2>2, <2>3
      <4>3. CASE j # i /\ TrackOf[j] = TrackOf[i]
        BY <4>1, <4>3, <2>1, <2>2, <2>3
      <4>4. CASE TrackOf[j] # TrackOf[i]
        <5>1. j # i /\ ingest'[j] = ingest[j] /\ tracks'[TrackOf[j]] = tracks[TrackOf[j]]
          BY <4>1, <4>4, <2>1, <2>2
        <5> QED BY <4>1, <5>1
      <4> QED BY <4>2, <4>3, <4>4
    <3>2. Abs!OwnRow'
      BY <2>2 DEF AbsInv, Abs!OwnRow
    <3> QED BY <3>1, <3>2 DEF Abs!Projection
  <2>5. Abs!KeysUnique'
    <3>1. \A u \in Tracks : u # TrackOf[i] => Abs!RowIsrc(u)' = Abs!RowIsrc(u)
      BY <2>2 DEF Abs!RowIsrc
    <3> QED BY <3>1, <2>2 DEF AbsInv, Abs!KeysUnique
  <2>6. Abs!LyricsHaveTrack'
    BY <1>3, <2>1, <2>2 DEF Abs!Revoke, AbsInv, Abs!LyricsHaveTrack, Abs!TypeOK
  <2> QED BY <2>1, <2>2, <2>4, <2>5, <2>6 DEF AbsInv, Abs!TypeOK
<1>4. ASSUME NEW r \in Requests, NEW i \in Ingests, Abs!Reject(r, i) \/ Abs!Resubmit(r, i)
      PROVE  AbsInv'
  <2>1. PICK a \in {"reject", "resubmit"} : Abs!Decide(r, i, a) /\ tracks' = tracks
    BY <1>4 DEF Abs!Reject, Abs!Resubmit
  <2>2. a \in Abs!Actions
    BY DEF Abs!Actions
  <2>3. /\ ingest' \in [Ingests -> Abs!States \cup {"absent"}]
        /\ review' \in [Ingests -> Seq(Abs!ReviewRow)]
        /\ lyrics' \subseteq Tracks /\ lyrics' = lyrics
        /\ ingest[i] \in Abs!States /\ a \in Abs!Allowed[ingest[i]]
        /\ \A j \in Ingests : ingest'[j] = IF j = i THEN Abs!NextState[a] ELSE ingest[j]
        /\ Abs!HistoryExplainsState'
    BY <2>1, <2>2, DecideInv DEF AbsInv, Abs!Decide
  <2>4. ingest[i] # "approved" /\ Abs!NextState[a] # "approved"
    BY <2>3 DEF Abs!Actions, Abs!States, Abs!NextState, Abs!Allowed
  <2>5. Abs!Projection'
    BY <2>1, <2>3, <2>4 DEF AbsInv, Abs!Projection
  <2>6. Abs!OwnRow' /\ Abs!KeysUnique' /\ Abs!LyricsHaveTrack'
    BY <2>1, <2>3 DEF AbsInv, Abs!OwnRow, Abs!KeysUnique, Abs!LyricsHaveTrack, Abs!RowIsrc
  <2> QED BY <2>1, <2>3, <2>5, <2>6 DEF AbsInv, Abs!TypeOK
<1>5. ASSUME NEW t \in SeedTracks, Abs!SeedTrack(t)
      PROVE  AbsInv'
  <2>1. /\ t \in Tracks /\ tracks[t] = Nobody
        /\ \A u \in Tracks : tracks[u] # Nobody /\ IsrcOf[t] # NoIsrc
                                 => Abs!RowIsrc(u) # IsrcOf[t]
        /\ ingest' = ingest /\ review' = review /\ lyrics' = lyrics
    BY <1>5 DEF Abs!SeedTrack, Abs!Clashing
  <2>2. /\ tracks' \in [Tracks -> Ingests \cup {Seeded, Nobody}]
        /\ \A u \in Tracks : tracks'[u] = IF u = t THEN Seeded ELSE tracks[u]
    BY <1>5, <2>1 DEF Abs!SeedTrack, AbsInv, Abs!TypeOK
  <2>3. Abs!TypeOK' /\ Abs!Projection' /\ Abs!OwnRow' /\ Abs!HistoryExplainsState' /\ Abs!LyricsHaveTrack'
    BY <2>1, <2>2 DEF AbsInv, Abs!TypeOK, Abs!Projection, Abs!OwnRow, Abs!HistoryExplainsState,
                      Abs!StateAfter, Abs!LyricsHaveTrack
  <2>4. Abs!KeysUnique'
    <3>1. \A u \in Tracks : Abs!RowIsrc(u)' = IF u = t THEN IsrcOf[t] ELSE Abs!RowIsrc(u)
      BY <2>2 DEF Abs!RowIsrc
    <3> QED BY <3>1, <2>1, <2>2 DEF AbsInv, Abs!KeysUnique
  <2> QED BY <2>3, <2>4 DEF AbsInv
<1>6. ASSUME NEW t \in SeedTracks, Abs!SeedLyrics(t)
      PROVE  AbsInv'
  BY <1>6 DEF Abs!SeedLyrics, AbsInv, Abs!TypeOK, Abs!Projection, Abs!OwnRow, Abs!KeysUnique, Abs!RowIsrc,
              Abs!HistoryExplainsState, Abs!StateAfter, Abs!LyricsHaveTrack
<1>7. CASE UNCHANGED Abs!absVars
  BY <1>7 DEF Abs!absVars, AbsInv, Abs!TypeOK, Abs!Projection, Abs!OwnRow, Abs!KeysUnique, Abs!RowIsrc,
              Abs!HistoryExplainsState, Abs!StateAfter, Abs!LyricsHaveTrack
<1> QED BY <1>1, <1>2, <1>3, <1>4, <1>5, <1>6, <1>7 DEF Abs!Next

LEMMA AbsInvSafe == AbsInv => Abs!OneApprovedPerKey
<1> SUFFICES ASSUME AbsInv, NEW i \in Ingests, NEW j \in Ingests,
                    ingest[i] = "approved", ingest[j] = "approved",
                    TrackOf[i] = TrackOf[j] \/ (IsrcOf[i] # NoIsrc /\ IsrcOf[i] = IsrcOf[j])
             PROVE  i = j
  BY DEF Abs!OneApprovedPerKey
<1>1. /\ tracks[TrackOf[i]] = i /\ tracks[TrackOf[j]] = j
      /\ TrackOf[i] \in Tracks /\ TrackOf[j] \in Tracks
  BY ReviewConstants DEF AbsInv, Abs!Projection
<1>2. Abs!RowIsrc(TrackOf[i]) = IsrcOf[i] /\ Abs!RowIsrc(TrackOf[j]) = IsrcOf[j]
  BY <1>1, ReviewConstants DEF Abs!RowIsrc
<1>3. TrackOf[i] = TrackOf[j]
  BY <1>1, <1>2, ReviewConstants DEF AbsInv, Abs!KeysUnique
<1> QED BY <1>1, <1>3

(* Every promise of ReviewSpec is kept, whatever the sets of ingests,      *)
(* tracks and requests are.                                                *)
THEOREM AbsSafety ==
    Abs!Spec => [](Abs!TypeOK /\ Abs!Projection /\ Abs!HistoryExplainsState
                 /\ Abs!OneApprovedPerKey /\ Abs!LyricsHaveTrack)
<1>1. AbsInv => Abs!TypeOK /\ Abs!Projection /\ Abs!HistoryExplainsState
                  /\ Abs!OneApprovedPerKey /\ Abs!LyricsHaveTrack
  BY AbsInvSafe DEF AbsInv
<1> QED BY <1>1, AbsInitInv, AbsStepInv, PTL DEF Abs!Spec

-----------------------------------------------------------------------------
(* To those who only read the catalogue, decisions and seeding look as in  *)
(* Catalogue.  That a row revoked is there to be taken down, and that an   *)
(* approval finds its track_id free, takes the invariant above             *)
(* (state-machine.ts:97-132).                                              *)
THEOREM AbsCatalogue == Abs!Spec => Catalog!Spec
<1> DEFINE listed == {t \in Tracks : tracks[t] # Nobody}
<1>1. Abs!Init => Catalog!Init
  BY DEF Abs!Init, Catalog!Init
<1>2. ASSUME AbsInv, [Abs!Next]_(Abs!absVars)
      PROVE  [Catalog!Next]_(Catalog!catalogueVars)
  <2>1. tracks \in [Tracks -> Ingests \cup {Seeded, Nobody}]
    BY <1>2 DEF AbsInv, Abs!TypeOK
  <2>2. ASSUME NEW r \in Requests, NEW i \in Ingests, Abs!Approve(r, i)
        PROVE  Catalog!List(TrackOf[i]) /\ TrackOf[i] \in Tracks
    <3>1. /\ TrackOf[i] \in Tracks /\ tracks[TrackOf[i]] = Nobody
          /\ tracks' = [tracks EXCEPT ![TrackOf[i]] = i] /\ lyrics' = lyrics /\ i # Nobody
      BY <2>2, ReviewConstants DEF Abs!Approve, Abs!Decide, Abs!Clashing
    <3>2. listed' = listed \cup {TrackOf[i]}
      BY <2>1, <3>1
    <3> QED BY <3>1, <3>2 DEF Catalog!List
  <2>3. ASSUME NEW r \in Requests, NEW i \in Ingests, Abs!Revoke(r, i)
        PROVE  Catalog!TakeDown(TrackOf[i]) /\ TrackOf[i] \in Tracks
    <3>1. ingest[i] \in Abs!States /\ "revoke" \in Abs!Allowed[ingest[i]]
      BY <1>2, <2>3 DEF Abs!Revoke, Abs!Decide, AbsInv, Abs!TypeOK
    <3>2. ingest[i] = "approved"
      BY <3>1, RulesTyped
    <3>3. /\ TrackOf[i] \in Tracks /\ tracks[TrackOf[i]] = i /\ i # Nobody
          /\ tracks' = [tracks EXCEPT ![TrackOf[i]] = Nobody]
          /\ TrackOf[i] \notin lyrics /\ lyrics' = lyrics
      BY <1>2, <2>3, <3>2, ReviewConstants DEF Abs!Revoke, Abs!Decide, AbsInv, Abs!Projection
    <3>4. listed' = listed \ {TrackOf[i]}
      BY <2>1, <3>3
    <3> QED BY <3>3, <3>4 DEF Catalog!TakeDown
  <2>4. ASSUME NEW t \in SeedTracks, Abs!SeedTrack(t)
        PROVE  Catalog!List(t) /\ t \in Tracks
    <3>1. /\ t \in Tracks /\ tracks[t] = Nobody /\ Seeded # Nobody
          /\ tracks' = [tracks EXCEPT ![t] = Seeded] /\ lyrics' = lyrics
      BY <2>4, ReviewConstants DEF Abs!SeedTrack, Abs!Clashing
    <3>2. listed' = listed \cup {t}
      BY <2>1, <3>1
    <3> QED BY <3>1, <3>2 DEF Catalog!List
  <2>5. ASSUME NEW t \in SeedTracks, Abs!SeedLyrics(t)
        PROVE  Catalog!AddLine(t) /\ t \in Tracks
    BY <2>5, ReviewConstants DEF Abs!SeedLyrics, Catalog!AddLine
  <2>6. CASE UNCHANGED <<tracks, lyrics>>
    BY <2>6 DEF Catalog!catalogueVars
  <2>7. ASSUME NEW i \in Ingests, Abs!IngestCreate(i)
        PROVE  UNCHANGED <<tracks, lyrics>>
    BY <2>7 DEF Abs!IngestCreate
  <2>8. ASSUME NEW r \in Requests, NEW i \in Ingests, Abs!Reject(r, i) \/ Abs!Resubmit(r, i)
        PROVE  UNCHANGED <<tracks, lyrics>>
    BY <2>8 DEF Abs!Reject, Abs!Resubmit, Abs!Decide
  <2>9. CASE UNCHANGED Abs!absVars
    BY <2>6, <2>9 DEF Abs!absVars
  <2> QED BY <1>2, <2>2, <2>3, <2>4, <2>5, <2>6, <2>7, <2>8, <2>9 DEF Abs!Next, Catalog!Next
<1> QED BY <1>1, <1>2, AbsInitInv, AbsStepInv, PTL DEF Abs!Spec, Catalog!Spec
=============================================================================
