-------------------------- MODULE ReviewSpec_proofs -------------------------
(* The promises of ReviewSpec hold for every set of ingests, tracks and    *)
(* requests.  Modules that work on its tables, as AdminPages does, build   *)
(* on this one; ReviewTables_proofs has the same facts of the instance     *)
(* that ReviewTx implements, as the prover cannot carry a theorem from a   *)
(* module to an instance of it.                                            *)
EXTENDS ReviewSpec, TLAPS

TablesInv ==
    /\ TypeOK
    /\ Projection
    /\ OwnRow
    /\ KeysUnique
    /\ HistoryExplainsState
    /\ LyricsHaveTrack

(* Where the state machine leads, and from where. *)
LEMMA RulesTyped ==
    /\ \A a \in Actions : NextState[a] \in States
    /\ \A s \in States : Allowed[s] \subseteq Actions
    /\ "absent" \notin States
    /\ \A s \in States : /\ "approve" \in Allowed[s] => s = "pending"
                         /\ "revoke" \in Allowed[s] => s = "approved"
                         /\ "reject" \in Allowed[s] => s # "approved"
                         /\ "resubmit" \in Allowed[s] => s # "approved"
    /\ NextState["approve"] = "approved"
    /\ NextState["revoke"] # "approved"
    /\ NextState["reject"] # "approved"
    /\ NextState["resubmit"] # "approved"
BY DEF Actions, States, NextState, Allowed

(* The four decisions share their effect on the tables but for tracks.     *)
LEMMA DecideInv ==
    ASSUME TypeOK, HistoryExplainsState,
           NEW r \in Requests, NEW i \in Ingests, NEW a \in Actions, Decide(r, i, a)
    PROVE  /\ ingest' \in [Ingests -> States \cup {"absent"}]
           /\ review' \in [Ingests -> Seq(ReviewRow)]
           /\ lyrics' \subseteq Tracks
           /\ ingest[i] \in States /\ a \in Allowed[ingest[i]]
           /\ \A j \in Ingests : ingest'[j] = IF j = i THEN NextState[a] ELSE ingest[j]
           /\ HistoryExplainsState'
<1> DEFINE row == [action |-> a, by |-> r]
<1>1. /\ row \in ReviewRow
      /\ ingest[i] \in States
      /\ NextState[a] \in States
  BY RulesTyped DEF TypeOK, ReviewRow, Decide
<1>2. /\ ingest' = [ingest EXCEPT ![i] = NextState[a]]
      /\ review' = [review EXCEPT ![i] = Append(@, row)]
      /\ lyrics' = lyrics
      /\ a \in Allowed[ingest[i]]
      /\ ingest[i] # "absent"
  BY DEF Decide
<1>3. /\ ingest' \in [Ingests -> States \cup {"absent"}]
      /\ \A j \in Ingests : ingest'[j] = IF j = i THEN NextState[a] ELSE ingest[j]
      /\ lyrics' \subseteq Tracks
  BY <1>1, <1>2 DEF TypeOK
<1>4. /\ review[i] \in Seq(ReviewRow)
      /\ Append(review[i], row) \in Seq(ReviewRow)
      /\ review' \in [Ingests -> Seq(ReviewRow)]
      /\ review'[i] = Append(review[i], row)
      /\ \A j \in Ingests \ {i} : review'[j] = review[j]
  BY <1>1, <1>2 DEF TypeOK
<1>5. HistoryExplainsState'
  <2> SUFFICES ASSUME NEW j \in Ingests
               PROVE  /\ ingest'[j] = "absent" => review'[j] = << >>
                      /\ ingest'[j] # "absent" => ingest'[j] = StateAfter(j, Len(review[j]))'
                      /\ \A n \in DOMAIN review'[j] :
                            review'[j][n].action \in Allowed[StateAfter(j, n - 1)']
    BY DEF HistoryExplainsState, StateAfter
  <2>1. CASE j # i
    BY <2>1, <1>3, <1>4 DEF HistoryExplainsState, StateAfter
  <2>2. CASE j = i
    <3>1. /\ Len(review'[i]) = Len(review[i]) + 1
          /\ Len(review[i]) \in Nat
          /\ review'[i][Len(review[i]) + 1] = row
          /\ \A n \in 1 .. Len(review[i]) : review'[i][n] = review[i][n]
          /\ DOMAIN review'[i] = 1 .. (Len(review[i]) + 1)
          /\ DOMAIN review[i] = 1 .. Len(review[i])
      BY <1>4
    <3>2. \A n \in 0 .. Len(review[i]) : StateAfter(i, n)' = StateAfter(i, n)
      BY <3>1 DEF StateAfter
    <3>3. ingest[i] = StateAfter(i, Len(review[i]))
      BY <1>2 DEF HistoryExplainsState
    <3>4. StateAfter(i, Len(review[i]))' = NextState[a]
      BY <3>1 DEF StateAfter
    <3>5. ASSUME NEW n \in DOMAIN review'[i]
          PROVE  review'[i][n].action \in Allowed[StateAfter(i, n - 1)']
      <4>1. CASE n = Len(review[i]) + 1
        BY <4>1, <3>1, <3>2, <3>3, <1>2
      <4>2. CASE n \in 1 .. Len(review[i])
        BY <4>2, <3>1, <3>2 DEF HistoryExplainsState
      <4> QED BY <4>1, <4>2, <3>1
    <3>6. ingest'[i] = NextState[a] /\ ingest'[i] # "absent"
      BY <1>3, <1>1, RulesTyped
    <3> QED BY <2>2, <3>4, <3>5, <3>6, <3>1
  <2> QED BY <2>1, <2>2
<1> QED BY <1>1, <1>2, <1>3, <1>4, <1>5

LEMMA TablesInitInv == Init => TablesInv
BY ReviewConstants DEF Init, TablesInv, TypeOK, Projection, OwnRow, KeysUnique,
   HistoryExplainsState, LyricsHaveTrack, States

LEMMA TablesStepInv == TablesInv /\ [Next]_(absVars) => TablesInv'
<1> SUFFICES ASSUME TablesInv, [Next]_(absVars)
             PROVE  TablesInv'
  OBVIOUS
<1> USE ReviewConstants
<1>1. ASSUME NEW i \in Ingests, IngestCreate(i)
      PROVE  TablesInv'
  <2>1. /\ TypeOK' /\ ingest'[i] = "pending" /\ ingest[i] = "absent"
        /\ \A j \in Ingests \ {i} : ingest'[j] = ingest[j]
        /\ review' = review /\ tracks' = tracks /\ lyrics' = lyrics
    BY <1>1 DEF IngestCreate, TablesInv, TypeOK, States
  <2>2. Projection' /\ OwnRow' /\ KeysUnique' /\ LyricsHaveTrack'
    BY <2>1 DEF TablesInv, Projection, OwnRow, KeysUnique, LyricsHaveTrack, RowIsrc
  <2>3. HistoryExplainsState'
    <3>1. \A j \in Ingests, n \in Int : StateAfter(j, n)' = StateAfter(j, n)
      BY <2>1 DEF StateAfter
    <3>2. review[i] = << >> /\ StateAfter(i, Len(review[i])) = "pending"
      BY <2>1 DEF TablesInv, HistoryExplainsState, StateAfter
    <3>3. \A j \in Ingests \ {i} :
             /\ ingest'[j] = "absent" => review'[j] = << >>
             /\ ingest'[j] # "absent" => ingest'[j] = StateAfter(j, Len(review[j]))
      BY <2>1 DEF TablesInv, HistoryExplainsState
    <3> QED BY <2>1, <3>1, <3>2, <3>3 DEF TablesInv, HistoryExplainsState, StateAfter
  <2> QED BY <2>1, <2>2, <2>3 DEF TablesInv
<1>2. ASSUME NEW r \in Requests, NEW i \in Ingests, Approve(r, i)
      PROVE  TablesInv'
  <2>1. /\ ingest' \in [Ingests -> States \cup {"absent"}]
        /\ review' \in [Ingests -> Seq(ReviewRow)]
        /\ lyrics' \subseteq Tracks /\ lyrics' = lyrics
        /\ ingest[i] \in States /\ "approve" \in Allowed[ingest[i]]
        /\ \A j \in Ingests : ingest'[j] = IF j = i THEN "approved" ELSE ingest[j]
        /\ HistoryExplainsState'
    BY <1>2, DecideInv, RulesTyped DEF Approve, TablesInv, Actions, Decide
  <2>2. /\ tracks[TrackOf[i]] = Nobody
        /\ \A u \in Tracks : tracks[u] # Nobody /\ IsrcOf[i] # NoIsrc
                                 => RowIsrc(u) # IsrcOf[i]
    BY <1>2 DEF Approve, Clashing
  <2>3. /\ tracks' \in [Tracks -> Ingests \cup {Seeded, Nobody}]
        /\ \A u \in Tracks : tracks'[u] = IF u = TrackOf[i] THEN i ELSE tracks[u]
    BY <1>2 DEF Approve, TablesInv, TypeOK
  <2>4. ingest[i] = "pending"
    BY <2>1 DEF States, Allowed
  <2>5. Projection' /\ OwnRow'
    <3>1. ASSUME NEW j \in Ingests
          PROVE  (ingest'[j] = "approved") <=> (tracks'[TrackOf[j]] = j)
      <4>1. TrackOf[j] \in Tracks /\ ((ingest[j] = "approved") <=> (tracks[TrackOf[j]] = j))
        BY DEF TablesInv, Projection
      <4>2. CASE j = i
        BY <4>1, <4>2, <2>1, <2>3
      <4>3. CASE j # i /\ TrackOf[j] = TrackOf[i]
        BY <4>1, <4>3, <2>1, <2>2, <2>3
      <4>4. CASE TrackOf[j] # TrackOf[i]
        <5>1. j # i /\ ingest'[j] = ingest[j] /\ tracks'[TrackOf[j]] = tracks[TrackOf[j]]
          BY <4>1, <4>4, <2>1, <2>3
        <5> QED BY <4>1, <5>1
      <4> QED BY <4>2, <4>3, <4>4
    <3>2. OwnRow'
      BY <2>3 DEF TablesInv, OwnRow
    <3> QED BY <3>1, <3>2 DEF Projection
  <2>6. KeysUnique'
    <3>1. \A u \in Tracks : RowIsrc(u)' = IF u = TrackOf[i] THEN IsrcOf[i] ELSE RowIsrc(u)
      BY <2>3 DEF RowIsrc
    <3> QED BY <3>1, <2>2, <2>3 DEF TablesInv, KeysUnique
  <2>7. LyricsHaveTrack'
    BY <2>1, <2>3 DEF TablesInv, LyricsHaveTrack, TypeOK
  <2> QED BY <2>1, <2>3, <2>5, <2>6, <2>7 DEF TablesInv, TypeOK
<1>3. ASSUME NEW r \in Requests, NEW i \in Ingests, Revoke(r, i)
      PROVE  TablesInv'
  <2>1. /\ ingest' \in [Ingests -> States \cup {"absent"}]
        /\ review' \in [Ingests -> Seq(ReviewRow)]
        /\ lyrics' \subseteq Tracks /\ lyrics' = lyrics
        /\ ingest[i] \in States /\ "revoke" \in Allowed[ingest[i]]
        /\ \A j \in Ingests : ingest'[j] = IF j = i THEN NextState["revoke"] ELSE ingest[j]
        /\ HistoryExplainsState'
    BY <1>3, DecideInv DEF Revoke, TablesInv, Actions, Decide
  <2>2. /\ tracks' \in [Tracks -> Ingests \cup {Seeded, Nobody}]
        /\ \A u \in Tracks : tracks'[u] = IF u = TrackOf[i] THEN Nobody ELSE tracks[u]
    BY <1>3 DEF Revoke, TablesInv, TypeOK
  <2>3. tracks[TrackOf[i]] = i /\ NextState["revoke"] # "approved"
    BY <2>1 DEF TablesInv, Projection, Actions, States, NextState, Allowed
  <2>4. Projection' /\ OwnRow'
    <3>1. ASSUME NEW j \in Ingests
          PROVE  (ingest'[j] = "approved") <=> (tracks'[TrackOf[j]] = j)
      <4>1. TrackOf[j] \in Tracks /\ ((ingest[j] = "approved") <=> (tracks[TrackOf[j]] = j))
        BY DEF TablesInv, Projection
      <4>2. CASE j = i
        BY <4>1, <4>2, <2>1, <2>2, <2>3
      <4>3. CASE j # i /\ TrackOf[j] = TrackOf[i]
        BY <4>1, <4>3, <2>1, <2>2, <2>3
      <4>4. CASE TrackOf[j] # TrackOf[i]
        <5>1. j # i /\ ingest'[j] = ingest[j] /\ tracks'[TrackOf[j]] = tracks[TrackOf[j]]
          BY <4>1, <4>4, <2>1, <2>2
        <5> QED BY <4>1, <5>1
      <4> QED BY <4>2, <4>3, <4>4
    <3>2. OwnRow'
      BY <2>2 DEF TablesInv, OwnRow
    <3> QED BY <3>1, <3>2 DEF Projection
  <2>5. KeysUnique'
    <3>1. \A u \in Tracks : u # TrackOf[i] => RowIsrc(u)' = RowIsrc(u)
      BY <2>2 DEF RowIsrc
    <3> QED BY <3>1, <2>2 DEF TablesInv, KeysUnique
  <2>6. LyricsHaveTrack'
    BY <1>3, <2>1, <2>2 DEF Revoke, TablesInv, LyricsHaveTrack, TypeOK
  <2> QED BY <2>1, <2>2, <2>4, <2>5, <2>6 DEF TablesInv, TypeOK
<1>4. ASSUME NEW r \in Requests, NEW i \in Ingests, Reject(r, i) \/ Resubmit(r, i)
      PROVE  TablesInv'
  <2>1. PICK a \in {"reject", "resubmit"} : Decide(r, i, a) /\ tracks' = tracks
    BY <1>4 DEF Reject, Resubmit
  <2>2. a \in Actions
    BY DEF Actions
  <2>3. /\ ingest' \in [Ingests -> States \cup {"absent"}]
        /\ review' \in [Ingests -> Seq(ReviewRow)]
        /\ lyrics' \subseteq Tracks /\ lyrics' = lyrics
        /\ ingest[i] \in States /\ a \in Allowed[ingest[i]]
        /\ \A j \in Ingests : ingest'[j] = IF j = i THEN NextState[a] ELSE ingest[j]
        /\ HistoryExplainsState'
    BY <2>1, <2>2, DecideInv DEF TablesInv, Decide
  <2>4. ingest[i] # "approved" /\ NextState[a] # "approved"
    BY <2>3 DEF Actions, States, NextState, Allowed
  <2>5. Projection'
    BY <2>1, <2>3, <2>4 DEF TablesInv, Projection
  <2>6. OwnRow' /\ KeysUnique' /\ LyricsHaveTrack'
    BY <2>1, <2>3 DEF TablesInv, OwnRow, KeysUnique, LyricsHaveTrack, RowIsrc
  <2> QED BY <2>1, <2>3, <2>5, <2>6 DEF TablesInv, TypeOK
<1>5. ASSUME NEW t \in SeedTracks, SeedTrack(t)
      PROVE  TablesInv'
  <2>1. /\ t \in Tracks /\ tracks[t] = Nobody
        /\ \A u \in Tracks : tracks[u] # Nobody /\ IsrcOf[t] # NoIsrc
                                 => RowIsrc(u) # IsrcOf[t]
        /\ ingest' = ingest /\ review' = review /\ lyrics' = lyrics
    BY <1>5 DEF SeedTrack, Clashing
  <2>2. /\ tracks' \in [Tracks -> Ingests \cup {Seeded, Nobody}]
        /\ \A u \in Tracks : tracks'[u] = IF u = t THEN Seeded ELSE tracks[u]
    BY <1>5, <2>1 DEF SeedTrack, TablesInv, TypeOK
  <2>3. TypeOK' /\ Projection' /\ OwnRow' /\ HistoryExplainsState' /\ LyricsHaveTrack'
    BY <2>1, <2>2 DEF TablesInv, TypeOK, Projection, OwnRow, HistoryExplainsState,
                      StateAfter, LyricsHaveTrack
  <2>4. KeysUnique'
    <3>1. \A u \in Tracks : RowIsrc(u)' = IF u = t THEN IsrcOf[t] ELSE RowIsrc(u)
      BY <2>2 DEF RowIsrc
    <3> QED BY <3>1, <2>1, <2>2 DEF TablesInv, KeysUnique
  <2> QED BY <2>3, <2>4 DEF TablesInv
<1>6. ASSUME NEW t \in SeedTracks, SeedLyrics(t)
      PROVE  TablesInv'
  BY <1>6 DEF SeedLyrics, TablesInv, TypeOK, Projection, OwnRow, KeysUnique, RowIsrc,
              HistoryExplainsState, StateAfter, LyricsHaveTrack
<1>7. CASE UNCHANGED absVars
  BY <1>7 DEF absVars, TablesInv, TypeOK, Projection, OwnRow, KeysUnique, RowIsrc,
              HistoryExplainsState, StateAfter, LyricsHaveTrack
<1> QED BY <1>1, <1>2, <1>3, <1>4, <1>5, <1>6, <1>7 DEF Next

LEMMA TablesInvSafe == TablesInv => OneApprovedPerKey
<1> SUFFICES ASSUME TablesInv, NEW i \in Ingests, NEW j \in Ingests,
                    ingest[i] = "approved", ingest[j] = "approved",
                    TrackOf[i] = TrackOf[j] \/ (IsrcOf[i] # NoIsrc /\ IsrcOf[i] = IsrcOf[j])
             PROVE  i = j
  BY DEF OneApprovedPerKey
<1>1. /\ tracks[TrackOf[i]] = i /\ tracks[TrackOf[j]] = j
      /\ TrackOf[i] \in Tracks /\ TrackOf[j] \in Tracks
  BY ReviewConstants DEF TablesInv, Projection
<1>2. RowIsrc(TrackOf[i]) = IsrcOf[i] /\ RowIsrc(TrackOf[j]) = IsrcOf[j]
  BY <1>1, ReviewConstants DEF RowIsrc
<1>3. TrackOf[i] = TrackOf[j]
  BY <1>1, <1>2, ReviewConstants DEF TablesInv, KeysUnique
<1> QED BY <1>1, <1>3

(* Every promise of ReviewSpec is kept, whatever the sets of ingests,      *)
(* tracks and requests are.                                                *)
THEOREM TablesSafety ==
    Spec => [](TypeOK /\ Projection /\ HistoryExplainsState
                 /\ OneApprovedPerKey /\ LyricsHaveTrack)
<1>1. TablesInv => TypeOK /\ Projection /\ HistoryExplainsState
                  /\ OneApprovedPerKey /\ LyricsHaveTrack
  BY TablesInvSafe DEF TablesInv
<1> QED BY <1>1, TablesInitInv, TablesStepInv, PTL DEF Spec
=============================================================================
