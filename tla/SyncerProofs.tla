---------------------------- MODULE SyncerProofs ----------------------------
(***************************************************************************)
(* Proofs about Syncer for every number of rows, every set of keys and     *)
(* tracks and every bound on runs and foreign writes.                      *)
(*                                                                         *)
(* The argument (IInv): until the plan is made nothing was posted; the     *)
(* plan then pairs distinct rows with distinct tracks outside the          *)
(* membership that was read, and the second loop passes each row once.  So *)
(* what the membership map gains never meets a row still to come, which is *)
(* why no track is posted twice and why the re-check before an add stays   *)
(* idle.                                                                   *)
(*                                                                         *)
(* On top of it: without other writers the target holds what the run saw   *)
(* or posted and nothing else, so a late POST always brings a track that   *)
(* is missing (CopyInv: no second copy, additions in source order); the    *)
(* plan finds the duplicates the first loop found (SourceInv: verdicts are *)
(* final); and each step is a step of ImportContract or none.  A run takes *)
(* 3N + 4 steps at most (RunIsShort).                                      *)
(***************************************************************************)
EXTENDS Syncer, SequenceTheorems, TLAPS

(* The statuses of the first loop.                                         *)
Verdicts == {"INPUT_DUPLICATE", "FAILED", "NOT_FOUND", "SKIPPED", "AMBIGUOUS", "MATCHED"}

(* A row that went through the first loop.                                 *)
Judged(outcome) ==
    /\ outcome.status \in Verdicts
    /\ outcome.status = "MATCHED" => outcome.chosen # NoTrack
    /\ outcome.status = "INPUT_DUPLICATE" => outcome.dup = TRUE

(* Before the plan: nothing planned, nothing posted, rows judged in order. *)
MatchingInv ==
    /\ pc \in {"idle", "load", "match"} =>
          plan = {} /\ \A t \in Tracks : posts[t] = 0
    /\ pc # "idle" => run # 0
    /\ pc = "load" => row = 1
    /\ pc \in {"load", "match"} => failure = "none"
    /\ pc \in {"load", "match"} =>
          \A r \in Rows : IF r < row THEN Judged(outcomes[r])
                          ELSE outcomes[r].status = ""

(* The plan pairs distinct rows with distinct tracks the run did not see.  *)
PlanInv ==
    /\ \A r \in plan : outcomes[r].chosen \in Tracks \ snapshot
    /\ \A r, s \in plan : outcomes[r].chosen = outcomes[s].chosen => r = s
    /\ \A t \in Tracks : posts[t] > 0 => \E r \in plan : outcomes[r].chosen = t
    /\ \A t \in Tracks : posts[t] <= 1

(* Row r is past its AddTracks call.                                       *)
Tried(r) == r < row \/ (pc = "reconcile" /\ r = row)

(* The second loop, row by row.                                            *)
AddingInv ==
    /\ pc \in {"create", "add", "reconcile"} =>
          /\ ~request.dry
          /\ failure = "none"
          /\ \A r \in Rows \ plan : outcomes[r].status \notin {"", "MATCHED"}
    /\ pc = "reconcile" => row \in plan
    /\ pc = "create" =>
          /\ row = 1 /\ target = 0 /\ plan # {}
          /\ \A r \in plan : outcomes[r].status = "MATCHED" /\ posts[outcomes[r].chosen] = 0
    /\ pc \in {"add", "reconcile"} => \A r \in plan :
          /\ r < row => outcomes[r].status \in {"ADDED", "FAILED"}
          /\ r >= row => outcomes[r].status = "MATCHED"
          /\ posts[outcomes[r].chosen] = IF Tried(r) THEN 1 ELSE 0

(* What the membership map holds.                                          *)
MembershipInv ==
    /\ pc \in {"load", "match", "create"} => existingIDs = snapshot
    /\ pc \in {"add", "reconcile"} => \A t \in existingIDs :
          \/ t \in snapshot
          \/ \E r \in plan : r < row /\ outcomes[r].chosen = t

(* What the run read is still there, and what it reports is there.         *)
HeldInv ==
    /\ \A t \in snapshot : target # 0 /\ Holds(lists[target], t)
    /\ ReportIsTrue

IInv ==
    /\ TypeOK
    /\ MatchingInv
    /\ PlanInv
    /\ AddingInv
    /\ MembershipInv
    /\ HeldInv
    /\ EveryPlannedRowTried

-----------------------------------------------------------------------------
(* What BuildPlan makes of judged rows.                                    *)

LEMMA PlanLemma ==
    ASSUME NEW rows \in [Rows -> Outcome],
           NEW existing \in SUBSET Tracks,
           \A r \in Rows : Judged(rows[r])
    PROVE  /\ BuildPlan(rows, existing) \in [Rows -> Outcome]
           /\ PlannedRows(rows, existing) \subseteq Rows
           /\ \A r \in Rows : BuildPlan(rows, existing)[r].chosen = rows[r].chosen
           /\ \A r \in PlannedRows(rows, existing) :
                 /\ BuildPlan(rows, existing)[r].status = "MATCHED"
                 /\ rows[r].chosen \in Tracks \ existing
           /\ \A r \in Rows \ PlannedRows(rows, existing) :
                 BuildPlan(rows, existing)[r].status \notin {"", "MATCHED", "ADDED"}
           /\ \A r \in Rows : BuildPlan(rows, existing)[r].status = "ALREADY_EXISTS"
                 => rows[r].chosen \in existing
           /\ \A r, s \in PlannedRows(rows, existing) :
                 rows[r].chosen = rows[s].chosen => r = s
<1> DEFINE bp == BuildPlan(rows, existing)
           pl == PlannedRows(rows, existing)
<1>1. DOMAIN rows = Rows
  OBVIOUS
<1>2. pl \subseteq Rows
  BY <1>1 DEF PlannedRows
<1>3. \A r \in Rows : bp[r] = [rows[r] EXCEPT !.dup = Repeated(rows, r),
                                              !.status = PlanStatus(rows, existing, r)]
  BY <1>1 DEF BuildPlan
<1>4. \A r \in Rows : Repeated(rows, r) \in BOOLEAN
  BY DEF Repeated, Outcome
<1>5. ASSUME NEW r \in Rows
      PROVE  /\ PlanStatus(rows, existing, r) \in Status
             /\ r \in pl => PlanStatus(rows, existing, r) = "MATCHED"
             /\ r \notin pl => PlanStatus(rows, existing, r) \notin {"", "MATCHED", "ADDED"}
             /\ PlanStatus(rows, existing, r) = "ALREADY_EXISTS" => rows[r].chosen \in existing
  <2> USE TrackAssumption
  <2>0. /\ rows[r].status \in Verdicts
        /\ rows[r].status = "MATCHED" => rows[r].chosen # NoTrack
        /\ rows[r].status = "INPUT_DUPLICATE" => rows[r].dup = TRUE
        /\ r \in pl <=> Eligible(rows, existing, r) /\ ~ClaimedEarlier(rows, existing, r)
    BY <1>1 DEF Judged, PlannedRows
  <2>1. CASE Repeated(rows, r)
    BY <2>0, <2>1 DEF PlanStatus, Eligible, InPlay, Status
  <2>2. CASE ~Repeated(rows, r) /\ ~InPlay(rows, r)
    <3>1. PlanStatus(rows, existing, r) = rows[r].status
      BY <2>2 DEF PlanStatus, Eligible
    <3>2. rows[r].status \in Verdicts \ {"MATCHED", "INPUT_DUPLICATE"}
      BY <2>0, <2>2 DEF InPlay, Unresolved, Verdicts, Repeated
    <3> QED BY <2>0, <2>2, <3>1, <3>2 DEF Eligible, Status, Verdicts
  <2>3. CASE InPlay(rows, r)
    <3>1. ~Repeated(rows, r)
      BY <2>3 DEF InPlay
    <3>2. rows[r].status = "MATCHED"
      BY <2>0, <2>3 DEF InPlay, Unresolved, Verdicts, Repeated
    <3>3. CASE rows[r].chosen \notin Tracks
      <4>1. PlanStatus(rows, existing, r) = "FAILED"
        BY <2>3, <3>1, <3>3 DEF PlanStatus, Eligible
      <4> QED BY <2>0, <4>1, <3>3 DEF Eligible, Status
    <3>4. CASE rows[r].chosen \in existing
      <4>1. PlanStatus(rows, existing, r) = "ALREADY_EXISTS"
        BY <2>3, <3>1, <3>4 DEF PlanStatus, Eligible
      <4> QED BY <2>0, <4>1, <3>4 DEF Eligible, Status
    <3>5. CASE rows[r].chosen \in Tracks \ existing
      <4>1. Eligible(rows, existing, r)
        BY <2>3, <3>5 DEF Eligible
      <4>2. PlanStatus(rows, existing, r) = IF ClaimedEarlier(rows, existing, r)
                                            THEN "INPUT_DUPLICATE" ELSE "MATCHED"
        BY <2>3, <3>1, <3>2, <3>5, <4>1 DEF PlanStatus, PlannedStatus
      <4> QED BY <2>0, <4>1, <4>2 DEF Status
    <3> QED BY <3>3, <3>4, <3>5
  <2> QED BY <2>1, <2>2, <2>3
<1>6. bp \in [Rows -> Outcome]
  <2>1. DOMAIN bp = Rows /\ bp = [r \in Rows |-> bp[r]]
    BY <1>1 DEF BuildPlan
  <2>2. ASSUME NEW r \in Rows PROVE bp[r] \in Outcome
    BY <1>3, <1>4, <1>5, ZenonT(60) DEF Outcome
  <2> QED BY <2>1, <2>2
<1>7. \A r \in Rows : bp[r].chosen = rows[r].chosen
                      /\ bp[r].status = PlanStatus(rows, existing, r)
  BY <1>3, ZenonT(60) DEF Outcome
<1>8. \A r \in pl : rows[r].chosen \in Tracks \ existing
  BY DEF PlannedRows, Eligible
<1>9. \A r, s \in pl : rows[r].chosen = rows[s].chosen => r = s
  <2> SUFFICES ASSUME NEW r \in pl, NEW s \in pl,
                      rows[r].chosen = rows[s].chosen, r # s
               PROVE  FALSE
    OBVIOUS
  <2>1. r < s \/ s < r
    BY <1>2 DEF Rows
  <2> QED BY <1>1, <1>2, <2>1 DEF PlannedRows, ClaimedEarlier
<1> QED BY <1>2, <1>5, <1>6, <1>7, <1>8, <1>9

(* Order among rows, apart from what is stored about them.                 *)

LEMMA RowLemma ==
    /\ \A r \in Rows : r \in Nat /\ r >= 1 /\ ~(r < 1) /\ r < N + 1
    /\ \A r, s \in Rows : /\ r < s + 1 <=> r < s \/ r = s
                          /\ r >= s <=> ~(r < s)
                          /\ r >= s + 1 <=> ~(r < s) /\ r # s
                          /\ ~(r < r)
    /\ \A r \in Rows : r + 1 \in 1..(N + 1)
    /\ \A i \in 1..(N + 1) : i \in Rows \/ i = N + 1
    /\ 1 \in Rows
BY NAssumption DEF Rows

-----------------------------------------------------------------------------
(* Playlists only grow.                                                    *)

LEMMA AppendLemma ==
    ASSUME NEW L \in Seq(Seq(Tracks)), NEW l \in DOMAIN L, NEW t \in Tracks
    PROVE  LET M == [L EXCEPT ![l] = Append(@, t)]
           IN  /\ M \in Seq(Seq(Tracks))
               /\ DOMAIN M = DOMAIN L
               /\ Len(M) = Len(L)
               /\ Holds(M[l], t)
               /\ \A k \in DOMAIN L, x \in Tracks : Holds(L[k], x) => Holds(M[k], x)
<1> DEFINE M == [L EXCEPT ![l] = Append(@, t)]
<1>1. L[l] \in Seq(Tracks) /\ l \in 1..Len(L) /\ DOMAIN L = 1..Len(L)
  OBVIOUS
<1>2. Append(L[l], t) \in Seq(Tracks)
  BY <1>1
<1>3. M \in Seq(Seq(Tracks)) /\ Len(M) = Len(L) /\ DOMAIN M = DOMAIN L
  BY <1>1, <1>2, ExceptSeq
<1>4. M[l] = Append(L[l], t) /\ \A k \in DOMAIN L : k # l => M[k] = L[k]
  OBVIOUS
<1>5. Holds(M[l], t)
  <2>1. Len(L[l]) + 1 \in DOMAIN M[l] /\ M[l][Len(L[l]) + 1] = t
    BY <1>1, <1>4
  <2> QED BY <2>1 DEF Holds
<1>6. ASSUME NEW k \in DOMAIN L, NEW x \in Tracks, Holds(L[k], x)
      PROVE  Holds(M[k], x)
  <2>1. CASE k # l
    BY <1>4, <1>6, <2>1 DEF Holds
  <2>2. CASE k = l
    <3>1. PICK i \in DOMAIN L[l] : L[l][i] = x
      BY <1>6, <2>2 DEF Holds
    <3>2. i \in DOMAIN M[l] /\ M[l][i] = x
      BY <1>1, <1>4, <3>1
    <3> QED BY <2>2, <3>2 DEF Holds
  <2> QED BY <2>1, <2>2
<1> QED BY <1>3, <1>5, <1>6

LEMMA NewListLemma ==
    ASSUME NEW L \in Seq(Seq(Tracks))
    PROVE  LET M == Append(L, <<>>)
           IN  /\ M \in Seq(Seq(Tracks))
               /\ DOMAIN L \subseteq DOMAIN M
               /\ Len(L) + 1 \in DOMAIN M
               /\ 0 \notin DOMAIN M
               /\ Len(L) + 1 # 0
               /\ \A k \in DOMAIN L : M[k] = L[k]
<1>1. <<>> \in Seq(Tracks)
  OBVIOUS
<1>2. Append(L, <<>>) \in Seq(Seq(Tracks))
  BY <1>1
<1> QED BY <1>2

-----------------------------------------------------------------------------
(* IInv holds initially and is preserved by every action.                  *)

LEMMA FreshLemma ==
    ASSUME keys \in [Rows -> Keys]
    PROVE  /\ FreshOutcomes \in [Rows -> Outcome]
           /\ \A r \in Rows : FreshOutcomes[r].status = ""
BY DEF FreshOutcomes, MarkSourceDuplicates, Outcome, Status

LEMMA InitLemma == Init => IInv
<1> SUFFICES ASSUME Init PROVE IInv
  OBVIOUS
<1> USE NAssumption, BoundAssumption
<1>1. /\ FreshOutcomes \in [Rows -> Outcome]
      /\ \A r \in Rows : FreshOutcomes[r].status = ""
  BY FreshLemma DEF Init
<1>2. lists \in Seq(Seq(Tracks))
  <2>1. PICK c \in InitialContents : lists = <<c>>
    BY DEF Init
  <2>2. c \in Seq(Tracks)
    BY InitialAssumption
  <2> QED BY <2>1, <2>2
<1>3. TypeOK
  <2>1. /\ row \in 1..(N + 1) /\ run \in 0..MaxRuns /\ foreign \in 0..MaxForeign
        /\ posts \in [Tracks -> Nat]
        /\ request \in [target : {0} \cup DOMAIN lists, dry : BOOLEAN, ambiguous : Ambiguous]
    BY DEF Init, Ambiguous
  <2> QED BY <1>1, <1>2, <2>1 DEF Init, TypeOK
<1>4. MatchingInv /\ PlanInv /\ AddingInv /\ MembershipInv /\ EveryPlannedRowTried
  BY DEF Init, MatchingInv, PlanInv, AddingInv, MembershipInv, EveryPlannedRowTried
<1>5. HeldInv
  BY <1>1 DEF Init, HeldInv, ReportIsTrue
<1> QED BY <1>3, <1>4, <1>5 DEF IInv

LEMMA StartLemma == IInv /\ Start => IInv'
<1> SUFFICES ASSUME IInv, Start PROVE IInv'
  OBVIOUS
<1> USE NAssumption, BoundAssumption
<1>0. TypeOK
  BY DEF IInv
<1>1. /\ FreshOutcomes \in [Rows -> Outcome]
      /\ \A r \in Rows : FreshOutcomes[r].status = ""
  BY <1>0, FreshLemma DEF TypeOK
<1>2. /\ pc' = IF target' = 0 THEN "match" ELSE "load"
      /\ target' \in {0} \cup DOMAIN lists /\ request'.target = target'
      /\ request' \in [target : {0} \cup DOMAIN lists, dry : BOOLEAN, ambiguous : Ambiguous]
  BY DEF Start
<1>3. TypeOK'
  <2>1. /\ row' \in 1..(N + 1) /\ run' \in 0..MaxRuns /\ posts' \in [Tracks -> Nat]
    BY <1>0 DEF Start, TypeOK
  <2>2. outcomes' \in [Rows -> Outcome] /\ request'.target = target'
    BY <1>1, <1>2 DEF Start
  <2>3. UNCHANGED <<lists, pending, foreign, keys, overlap>>
    BY DEF Start, beatportVars
  <2>4. /\ existingIDs' = {} /\ snapshot' = {} /\ plan' = {}
        /\ cancelled' = FALSE /\ failure' = "none"
    BY DEF Start
  <2>5. /\ lists' \in Seq(Seq(Tracks))
        /\ pending' \subseteq [run : 1..MaxRuns, list : DOMAIN lists', track : Tracks]
        /\ foreign' \in 0..MaxForeign
        /\ keys' \in [Rows -> Keys]
        /\ overlap' \in BOOLEAN
        /\ target' \in {0} \cup DOMAIN lists'
        /\ request' \in [target : {0} \cup DOMAIN lists', dry : BOOLEAN, ambiguous : Ambiguous]
    BY <1>0, <1>2, <2>3 DEF TypeOK
  <2>6. pc' \in {"match", "load"} /\ (pc' = "load" => target' \in DOMAIN lists')
    BY <1>2, <2>3
  <2>7. /\ existingIDs' \subseteq Tracks /\ snapshot' \subseteq Tracks /\ plan' \subseteq Rows
        /\ cancelled' \in BOOLEAN /\ failure' \in {"none", "load", "create"}
    BY <2>4
  <2> QED BY <2>1, <2>2, <2>5, <2>6, <2>7 DEF TypeOK
<1>4. MatchingInv'
  <2>1. run' # 0 /\ row' = 1 /\ failure' = "none" /\ plan' = {}
    BY <1>0 DEF Start, TypeOK
  <2>2. \A t \in Tracks : posts'[t] = 0
    BY DEF Start
  <2>3. \A r \in Rows : outcomes'[r].status = "" /\ ~(r < row')
    <3>1. outcomes' = FreshOutcomes
      BY DEF Start
    <3>2. \A r \in Rows : ~(r < row')
      BY <2>1, RowLemma
    <3> QED BY <1>1, <3>1, <3>2
  <2> QED BY <1>2, <2>1, <2>2, <2>3 DEF MatchingInv, Judged
<1>5. PlanInv' /\ AddingInv' /\ MembershipInv' /\ EveryPlannedRowTried'
  BY <1>2 DEF Start, PlanInv, AddingInv, MembershipInv, EveryPlannedRowTried
<1>6. HeldInv'
  BY <1>1 DEF Start, HeldInv, ReportIsTrue
<1> QED BY <1>3, <1>4, <1>5, <1>6 DEF IInv

LEMMA LoadLemma == IInv /\ (LoadTarget \/ LoadFails) => IInv'
<1> SUFFICES ASSUME IInv, LoadTarget \/ LoadFails PROVE IInv'
  OBVIOUS
<1> USE DEF beatportVars, inputVars, localVars
<1>0. /\ TypeOK /\ MatchingInv /\ PlanInv /\ MembershipInv /\ HeldInv
  BY DEF IInv
<1>1. CASE LoadTarget
  <2>1. existingIDs' \subseteq Tracks /\ target \in DOMAIN lists /\ target # 0
    BY <1>0, <1>1 DEF LoadTarget, ExistingTrackIDs, TypeOK
  <2>2. \A t \in snapshot' : Holds(lists[target], t)
    BY <1>1 DEF LoadTarget, ExistingTrackIDs, Holds
  <2>3. TypeOK'
    BY <1>0, <1>1, <2>1 DEF LoadTarget, TypeOK
  <2>4. MatchingInv'
    BY <1>0, <1>1 DEF LoadTarget, MatchingInv
  <2>5. PlanInv' /\ AddingInv' /\ MembershipInv' /\ EveryPlannedRowTried'
    BY <1>0, <1>1 DEF LoadTarget, PlanInv, AddingInv, MembershipInv, MatchingInv,
                      EveryPlannedRowTried
  <2>6. HeldInv'
    BY <1>0, <1>1, <2>1, <2>2 DEF LoadTarget, HeldInv, ReportIsTrue
  <2> QED BY <2>3, <2>4, <2>5, <2>6 DEF IInv
<1>2. CASE LoadFails
  <2>1. TypeOK'
    BY <1>0, <1>2 DEF LoadFails, TypeOK
  <2>2. MatchingInv' /\ PlanInv' /\ AddingInv' /\ MembershipInv' /\ EveryPlannedRowTried'
    BY <1>0, <1>2 DEF LoadFails, MatchingInv, PlanInv, AddingInv, MembershipInv,
                      EveryPlannedRowTried
  <2>3. HeldInv'
    BY <1>0, <1>2 DEF LoadFails, HeldInv, ReportIsTrue
  <2> QED BY <2>1, <2>2, <2>3 DEF IInv
<1> QED BY <1>1, <1>2

(* One verdict of the first loop.                                          *)
LEMMA SettleLemma ==
    ASSUME IInv, pc = "match", row \in Rows,
           NEW status \in Verdicts, NEW chosen \in Tracks \cup {NoTrack, BadTrack},
           status = "MATCHED" => chosen # NoTrack,
           status = "INPUT_DUPLICATE" => outcomes[row].dup = TRUE,
           Settle(status, chosen)
    PROVE  IInv'
<1> USE DEF beatportVars, inputVars, localVars
<1>0. /\ TypeOK /\ MatchingInv /\ PlanInv /\ MembershipInv /\ HeldInv
  BY DEF IInv
<1>1. /\ outcomes \in [Rows -> Outcome]
      /\ row \in Nat /\ row' = row + 1 /\ row' \in 1..(N + 1)
      /\ pc' = "match"
  BY <1>0, NAssumption DEF TypeOK, Settle, Rows
<1>2. /\ outcomes'[row] = [outcomes[row] EXCEPT !.status = status, !.chosen = chosen]
      /\ \A r \in Rows \ {row} : outcomes'[r] = outcomes[r]
      /\ DOMAIN outcomes' = Rows /\ outcomes' = [r \in Rows |-> outcomes'[r]]
  BY <1>1 DEF Settle
<1>3. /\ outcomes'[row] \in Outcome
      /\ outcomes'[row].status = status /\ outcomes'[row].chosen = chosen
      /\ outcomes'[row].dup = outcomes[row].dup
  <2>1. status \in Status
    BY DEF Verdicts, Status
  <2>2. outcomes[row] \in Outcome
    BY <1>1
  <2>3. outcomes'[row] = [outcomes[row] EXCEPT !.status = status, !.chosen = chosen]
    BY <1>2
  <2> QED BY <2>1, <2>2, <2>3 DEF Outcome
<1>4. outcomes' \in [Rows -> Outcome]
  <2>1. \A r \in Rows : outcomes'[r] \in Outcome
    BY <1>1, <1>2, <1>3
  <2> QED BY <1>2, <2>1
<1>5. TypeOK'
  BY <1>0, <1>1, <1>4 DEF TypeOK, Settle
<1>6. MatchingInv'
  <2>1. \A r \in Rows : IF r < row' THEN Judged(outcomes'[r])
                        ELSE outcomes'[r].status = ""
    <3> SUFFICES ASSUME NEW r \in Rows
                 PROVE  IF r < row + 1 THEN Judged(outcomes'[r])
                        ELSE outcomes'[r].status = ""
      BY <1>1
    <3>1. CASE r = row
      <4>1. r < row + 1 /\ outcomes'[r] = outcomes'[row]
        BY <3>1, RowLemma
      <4>2. Judged(outcomes'[row])
        BY <1>3 DEF Judged
      <4> QED BY <4>1, <4>2
    <3>2. CASE r # row
      <4>1. r < row + 1 <=> r < row
        BY <3>2, RowLemma
      <4>2. IF r < row THEN Judged(outcomes[r]) ELSE outcomes[r].status = ""
        BY <1>0 DEF MatchingInv
      <4> QED BY <1>2, <3>2, <4>1, <4>2
    <3> QED BY <3>1, <3>2
  <2>2. plan' = {} /\ \A t \in Tracks : posts'[t] = 0
    BY <1>0 DEF MatchingInv, Settle
  <2>3. run' # 0
    BY <1>0 DEF MatchingInv, Settle
  <2> QED BY <1>0, <1>1, <2>1, <2>2, <2>3 DEF MatchingInv, Judged, Settle
<1>7. PlanInv' /\ AddingInv' /\ MembershipInv' /\ EveryPlannedRowTried'
  BY <1>0, <1>1 DEF Settle, PlanInv, AddingInv, MembershipInv, MatchingInv,
                    EveryPlannedRowTried
<1>8. HeldInv'
  BY <1>0, <1>2, <1>3 DEF HeldInv, ReportIsTrue, Settle, Verdicts
<1> QED BY <1>5, <1>6, <1>7, <1>8 DEF IInv

LEMMA MatchLemma == IInv /\ Match => IInv'
<1> SUFFICES ASSUME IInv, Match PROVE IInv'
  OBVIOUS
<1> USE TrackAssumption
<1>1. pc = "match" /\ row \in Rows
  BY DEF Match, RepeatedRow, SearchFails, NoMatch, HighMatch, AmbiguousMatch, AtRow
<1>2. CASE RepeatedRow
  BY <1>1, <1>2, SettleLemma DEF RepeatedRow, AtRow, Verdicts
<1>3. CASE SearchFails
  BY <1>1, <1>3, SettleLemma DEF SearchFails, Verdicts
<1>4. CASE NoMatch
  BY <1>1, <1>4, SettleLemma DEF NoMatch, Verdicts
<1>5. CASE HighMatch
  BY <1>1, <1>5, SettleLemma DEF HighMatch, Verdicts
<1>6. CASE AmbiguousMatch
  <2>1. ASSUME NEW t \in Tracks \cup {BadTrack}, Settle("MATCHED", t)
        PROVE  IInv'
    BY <1>1, <2>1, SettleLemma DEF Verdicts
  <2>2. ASSUME NEW status \in {"FAILED", "SKIPPED", "AMBIGUOUS"}, Settle(status, NoTrack)
        PROVE  IInv'
    BY <1>1, <2>2, SettleLemma DEF Verdicts
  <2> QED BY <1>6, <2>1, <2>2 DEF AmbiguousMatch
<1> QED BY <1>2, <1>3, <1>4, <1>5, <1>6 DEF Match

(* MakePlan takes judged rows to planned ones.                             *)
Planning ==
    /\ outcomes \in [Rows -> Outcome] /\ existingIDs \in SUBSET Tracks
    /\ \A r \in Rows : Judged(outcomes[r])
    /\ existingIDs = snapshot
    /\ \A t \in Tracks : posts[t] = 0
    /\ outcomes' \in [Rows -> Outcome]
    /\ plan' \subseteq Rows
    /\ \A r \in Rows : outcomes'[r].chosen = outcomes[r].chosen
    /\ \A r \in plan' : /\ outcomes'[r].status = "MATCHED"
                        /\ outcomes[r].chosen \in Tracks \ existingIDs
    /\ \A r \in Rows \ plan' : outcomes'[r].status \notin {"", "MATCHED", "ADDED"}
    /\ \A r \in Rows : outcomes'[r].status = "ALREADY_EXISTS"
          => outcomes[r].chosen \in existingIDs
    /\ \A r, s \in plan' : outcomes[r].chosen = outcomes[s].chosen => r = s

LEMMA PlannedLemma == IInv /\ MakePlan => Planning
<1> SUFFICES ASSUME IInv, MakePlan PROVE Planning
  OBVIOUS
<1>0. /\ TypeOK /\ MatchingInv /\ PlanInv /\ MembershipInv /\ HeldInv
  BY DEF IInv
<1>1. /\ outcomes \in [Rows -> Outcome] /\ existingIDs \in SUBSET Tracks
      /\ \A r \in Rows : Judged(outcomes[r])
      /\ existingIDs = snapshot
      /\ \A t \in Tracks : posts[t] = 0
  <2>1. \A r \in Rows : r < row
    BY RowLemma DEF MakePlan
  <2> QED BY <1>0, <2>1 DEF TypeOK, MakePlan, MatchingInv, MembershipInv
<1>2. /\ outcomes' \in [Rows -> Outcome]
      /\ plan' \subseteq Rows
      /\ \A r \in Rows : outcomes'[r].chosen = outcomes[r].chosen
      /\ \A r \in plan' : /\ outcomes'[r].status = "MATCHED"
                          /\ outcomes[r].chosen \in Tracks \ existingIDs
      /\ \A r \in Rows \ plan' : outcomes'[r].status \notin {"", "MATCHED", "ADDED"}
      /\ \A r \in Rows : outcomes'[r].status = "ALREADY_EXISTS"
            => outcomes[r].chosen \in existingIDs
      /\ \A r, s \in plan' : outcomes[r].chosen = outcomes[s].chosen => r = s
  <2>1. outcomes' = BuildPlan(outcomes, existingIDs) /\ plan' = PlannedRows(outcomes, existingIDs)
    BY DEF MakePlan
  <2> DEFINE bp == BuildPlan(outcomes, existingIDs)
             pl == PlannedRows(outcomes, existingIDs)
  <2>2. /\ bp \in [Rows -> Outcome]
        /\ pl \subseteq Rows
        /\ \A r \in Rows : bp[r].chosen = outcomes[r].chosen
        /\ \A r \in pl : /\ bp[r].status = "MATCHED"
                         /\ outcomes[r].chosen \in Tracks \ existingIDs
        /\ \A r \in Rows \ pl : bp[r].status \notin {"", "MATCHED", "ADDED"}
        /\ \A r \in Rows : bp[r].status = "ALREADY_EXISTS"
              => outcomes[r].chosen \in existingIDs
        /\ \A r, s \in pl : outcomes[r].chosen = outcomes[s].chosen => r = s
    <3>1. outcomes \in [Rows -> Outcome] /\ existingIDs \in SUBSET Tracks
      BY <1>1
    <3>2. \A r \in Rows : Judged(outcomes[r])
      BY <1>1
    <3> QED BY <3>1, <3>2, PlanLemma, Zenon
  <2> HIDE DEF bp, pl
  <2>3. outcomes' = bp /\ plan' = pl
    BY <2>1 DEF bp, pl
  <2> QED BY <2>2, <2>3, Zenon
<1> QED BY <1>1, <1>2, Zenon DEF Planning

LEMMA MakePlanLemma == IInv /\ MakePlan => IInv'
<1> SUFFICES ASSUME IInv, MakePlan PROVE IInv'
  OBVIOUS
<1> USE DEF beatportVars, inputVars
<1>0. /\ TypeOK /\ MatchingInv /\ PlanInv /\ MembershipInv /\ HeldInv
  BY DEF IInv
<1>1. /\ outcomes \in [Rows -> Outcome] /\ existingIDs \in SUBSET Tracks
      /\ \A r \in Rows : Judged(outcomes[r])
      /\ existingIDs = snapshot
      /\ \A t \in Tracks : posts[t] = 0
  BY PlannedLemma, Zenon DEF Planning
<1>2. /\ outcomes' \in [Rows -> Outcome]
      /\ plan' \subseteq Rows
      /\ \A r \in Rows : outcomes'[r].chosen = outcomes[r].chosen
      /\ \A r \in plan' : /\ outcomes'[r].status = "MATCHED"
                          /\ outcomes[r].chosen \in Tracks \ existingIDs
      /\ \A r \in Rows \ plan' : outcomes'[r].status \notin {"", "MATCHED", "ADDED"}
      /\ \A r \in Rows : outcomes'[r].status = "ALREADY_EXISTS"
            => outcomes[r].chosen \in existingIDs
      /\ \A r, s \in plan' : outcomes[r].chosen = outcomes[s].chosen => r = s
  BY PlannedLemma, Zenon DEF Planning
<1>3. /\ pc' \in {"done", "create", "add"} /\ row' = 1 /\ 1 \in 1..(N + 1)
      /\ pc' # "done" => ~request.dry /\ plan' # {}
      /\ pc' = "done" => request.dry \/ plan' = {}
      /\ pc' = "create" => target = 0
      /\ pc' = "add" => target \in DOMAIN lists
      /\ target = request.target
      /\ failure' = failure /\ posts' = posts /\ request' = request
      /\ snapshot' = snapshot /\ existingIDs' = existingIDs
      /\ target' = target /\ lists' = lists
  BY <1>0, NAssumption DEF MakePlan, TypeOK
<1>4. TypeOK'
  BY <1>0, <1>2, <1>3 DEF MakePlan, TypeOK
<1>5. MatchingInv'
  BY <1>0, <1>3 DEF MakePlan, MatchingInv
<1>6. PlanInv'
  <2>1. \A r \in plan' : outcomes'[r].chosen \in Tracks \ snapshot'
    BY <1>1, <1>2, <1>3
  <2>2. \A r, s \in plan' : outcomes'[r].chosen = outcomes'[s].chosen => r = s
    BY <1>2
  <2> QED BY <1>1, <1>3, <2>1, <2>2 DEF PlanInv
<1>7. failure = "none"
  BY <1>0 DEF MatchingInv, MakePlan
<1>8. AddingInv'
  <2>1. ASSUME NEW r \in plan'
        PROVE  posts'[outcomes'[r].chosen] = 0 /\ outcomes'[r].status = "MATCHED" /\ r >= 1
    <3>1. r \in Rows /\ outcomes'[r].chosen \in Tracks
      BY <1>2
    <3> QED BY <1>1, <1>2, <1>3, <3>1, RowLemma
  <2>2. \A r \in Rows \ plan' : outcomes'[r].status \notin {"", "MATCHED"}
    BY <1>2
  <2>3. CASE pc' = "done"
    BY <2>3 DEF AddingInv
  <2>4. CASE pc' = "create"
    BY <1>3, <1>7, <2>1, <2>2, <2>4 DEF AddingInv
  <2>5. CASE pc' = "add"
    <3>1. \A r \in plan' : ~(r < row') /\ r >= row'
      BY <1>2, <1>3, RowLemma
    <3>2. \A r \in plan' : ~(Tried(r)')
      BY <2>5, <3>1 DEF Tried
    <3> QED BY <1>3, <1>7, <2>1, <2>2, <2>5, <3>1, <3>2 DEF AddingInv
  <2> QED BY <1>3, <2>3, <2>4, <2>5
<1>9. MembershipInv'
  BY <1>1, <1>3 DEF MembershipInv
<1>10. HeldInv'
  <2>1. \A r \in Rows : outcomes'[r].status \in {"ADDED", "ALREADY_EXISTS"}
                          => outcomes'[r].chosen \in snapshot
    BY <1>1, <1>2
  <2> QED BY <1>0, <1>3, <2>1 DEF HeldInv, ReportIsTrue
<1>11. EveryPlannedRowTried'
  <2>1. CASE request.dry
    BY <1>3, <2>1 DEF EveryPlannedRowTried
  <2>2. CASE plan' = {}
    <3>1. \A r \in Rows : outcomes'[r].status \notin {"", "MATCHED"}
      BY <1>2, <2>2
    <3>2. \A t \in Tracks : ~(posts'[t] > 0)
      BY <1>1, <1>3
    <3> QED BY <2>2, <3>1, <3>2 DEF EveryPlannedRowTried
  <2>3. CASE pc' # "done"
    BY <2>3 DEF EveryPlannedRowTried
  <2> QED BY <1>3, <2>1, <2>2, <2>3
<1> QED BY <1>4, <1>5, <1>6, <1>8, <1>9, <1>10, <1>11 DEF IInv

(* A step that leaves the run where it is, or kills it, while playlists    *)
(* may grow.                                                               *)
LEMMA FrameLemma ==
    ASSUME IInv,
           UNCHANGED <<inputVars, localVars, row, outcomes, failure, posts>>,
           lists' \in Seq(Seq(Tracks)), DOMAIN lists' = DOMAIN lists,
           \A k \in DOMAIN lists, x \in Tracks : Holds(lists[k], x) => Holds(lists'[k], x),
           pending' \subseteq [run : 1..MaxRuns, list : DOMAIN lists, track : Tracks],
           foreign' \in 0..MaxForeign, cancelled' \in BOOLEAN,
           pc' = pc \/ (pc # "idle" /\ pc' = "crashed")
    PROVE  IInv'
<1> USE DEF inputVars, localVars
<1>0. /\ TypeOK /\ MatchingInv /\ PlanInv /\ AddingInv /\ MembershipInv /\ HeldInv
      /\ EveryPlannedRowTried
  BY DEF IInv
<1>1. TypeOK'
  BY <1>0 DEF TypeOK
<1>2. PlanInv'
  BY <1>0 DEF PlanInv
<1>3. MatchingInv' /\ AddingInv' /\ MembershipInv' /\ EveryPlannedRowTried'
  <2>1. CASE pc' = pc
    <3>1. MatchingInv'
      BY <1>0, <2>1 DEF MatchingInv
    <3>2. AddingInv'
      BY <1>0, <2>1 DEF AddingInv, Tried
    <3>3. MembershipInv' /\ EveryPlannedRowTried'
      BY <1>0, <2>1 DEF MembershipInv, EveryPlannedRowTried
    <3> QED BY <3>1, <3>2, <3>3
  <2>2. CASE pc # "idle" /\ pc' = "crashed"
    BY <1>0, <2>2 DEF MatchingInv, AddingInv, MembershipInv, EveryPlannedRowTried
  <2> QED BY <2>1, <2>2
<1>4. HeldInv'
  <2>1. /\ target \in {0} \cup DOMAIN lists /\ snapshot \subseteq Tracks
    BY <1>0 DEF TypeOK
  <2>2. \A t \in snapshot : target # 0 /\ Holds(lists'[target], t)
    BY <1>0, <2>1 DEF HeldInv
  <2>3. ASSUME NEW r \in Rows, outcomes[r].status \in {"ADDED", "ALREADY_EXISTS"}
        PROVE  target # 0 /\ Holds(lists'[target], outcomes[r].chosen)
    <3>1. target # 0 /\ Holds(lists[target], outcomes[r].chosen)
      BY <1>0, <2>3 DEF HeldInv, ReportIsTrue
    <3>2. PICK i \in DOMAIN lists[target] : lists[target][i] = outcomes[r].chosen
      BY <3>1 DEF Holds
    <3>3. lists[target] \in Seq(Tracks)
      BY <1>0, <2>1, <3>1 DEF TypeOK
    <3>4. outcomes[r].chosen \in Tracks
      BY <3>2, <3>3
    <3> QED BY <2>1, <3>1, <3>4
  <2> QED BY <2>2, <2>3 DEF HeldInv, ReportIsTrue
<1> QED BY <1>1, <1>2, <1>3, <1>4 DEF IInv

LEMMA EnvironmentLemma == IInv /\ (Interrupt \/ Crash \/ ApplyLate \/ ForeignAdd) => IInv'
<1> SUFFICES ASSUME IInv, Interrupt \/ Crash \/ ApplyLate \/ ForeignAdd PROVE IInv'
  OBVIOUS
<1>0. TypeOK
  BY DEF IInv
<1>1. /\ lists \in Seq(Seq(Tracks)) /\ foreign \in 0..MaxForeign /\ cancelled \in BOOLEAN
      /\ pending \subseteq [run : 1..MaxRuns, list : DOMAIN lists, track : Tracks]
  BY <1>0 DEF TypeOK
<1>2. CASE Interrupt
  BY <1>1, <1>2, FrameLemma DEF Interrupt, beatportVars
<1>3. CASE Crash
  BY <1>1, <1>3, FrameLemma DEF Crash, Running, beatportVars
<1>4. CASE ApplyLate
  <2>1. PICK p \in pending : /\ lists' = [lists EXCEPT ![p.list] = Append(@, p.track)]
                             /\ pending' = pending \ {p}
    BY <1>4 DEF ApplyLate
  <2>2. p.list \in DOMAIN lists /\ p.track \in Tracks
    BY <1>1, <2>1
  <2>3. /\ lists' \in Seq(Seq(Tracks)) /\ DOMAIN lists' = DOMAIN lists
        /\ \A k \in DOMAIN lists, x \in Tracks : Holds(lists[k], x) => Holds(lists'[k], x)
    BY <1>1, <2>1, <2>2, AppendLemma
  <2>4. pending' \subseteq [run : 1..MaxRuns, list : DOMAIN lists, track : Tracks]
    BY <1>1, <2>1
  <2> QED BY <1>1, <1>4, <2>3, <2>4, FrameLemma DEF ApplyLate
<1>5. CASE ForeignAdd
  <2>1. PICK l \in DOMAIN lists, t \in Tracks : lists' = [lists EXCEPT ![l] = Append(@, t)]
    BY <1>5 DEF ForeignAdd
  <2>2. /\ lists' \in Seq(Seq(Tracks)) /\ DOMAIN lists' = DOMAIN lists
        /\ \A k \in DOMAIN lists, x \in Tracks : Holds(lists[k], x) => Holds(lists'[k], x)
    BY <1>1, <2>1, AppendLemma
  <2>3. foreign' \in 0..MaxForeign
    BY <1>1, <1>5, BoundAssumption DEF ForeignAdd
  <2> QED BY <1>1, <1>5, <2>2, <2>3, FrameLemma DEF ForeignAdd
<1> QED BY <1>2, <1>3, <1>4, <1>5

(* What the second loop finds at the row it is at.                         *)
LEMMA PlannedRowLemma ==
    ASSUME IInv, pc = "add", row \in Rows
    PROVE  /\ outcomes[row].status = "MATCHED" <=> row \in plan
           /\ row \in plan => /\ Chosen \in Tracks \ existingIDs
                              /\ Chosen \notin snapshot
                              /\ posts[Chosen] = 0
<1>0. TypeOK /\ PlanInv /\ AddingInv /\ MembershipInv
  BY DEF IInv
<1>1. ~(row < row) /\ row >= row
  BY RowLemma
<1>2. ~Tried(row)
  BY <1>1 DEF Tried
<1>3. row \in plan => outcomes[row].status = "MATCHED" /\ posts[Chosen] = 0
  BY <1>0, <1>1, <1>2 DEF AddingInv, Chosen
<1>4. row \notin plan => outcomes[row].status # "MATCHED"
  BY <1>0 DEF AddingInv
<1>5. row \in plan => Chosen \in Tracks /\ Chosen \notin snapshot
  BY <1>0 DEF PlanInv, Chosen
<1>6. row \in plan => Chosen \notin existingIDs
  <2> SUFFICES ASSUME row \in plan, Chosen \in existingIDs PROVE FALSE
    OBVIOUS
  <2>1. PICK r \in plan : r < row /\ outcomes[r].chosen = Chosen
    BY <1>0, <1>5 DEF MembershipInv
  <2>2. r = row
    BY <1>0, <2>1 DEF PlanInv, Chosen
  <2> QED BY <1>1, <2>1, <2>2
<1> QED BY <1>3, <1>4, <1>5, <1>6

(* A planned row leaves the second loop with its verdict, straight after   *)
(* its AddTracks call or after the re-read.                                *)
LEMMA TriedLemma ==
    ASSUME IInv, pc \in {"add", "reconcile"}, row \in plan,
           NEW status \in {"ADDED", "FAILED"},
           outcomes' = [outcomes EXCEPT ![row].status = status],
           row' = row + 1, pc' = "add",
           UNCHANGED <<plan, snapshot, request, failure, run>>,
           posts' = IF pc = "add" THEN [posts EXCEPT ![Chosen] = @ + 1] ELSE posts,
           existingIDs' \in {existingIDs, existingIDs \cup {Chosen}}
    PROVE  /\ outcomes' \in [Rows -> Outcome] /\ row' \in 1..(N + 1)
           /\ posts' \in [Tracks -> Nat] /\ existingIDs' \subseteq Tracks
           /\ \A r \in Rows \ {row} : outcomes'[r] = outcomes[r]
           /\ outcomes'[row].status = status /\ outcomes'[row].chosen = Chosen
           /\ Chosen \in Tracks
           /\ MatchingInv' /\ PlanInv' /\ AddingInv' /\ MembershipInv'
           /\ EveryPlannedRowTried'
<1>0. TypeOK /\ MatchingInv /\ PlanInv /\ AddingInv /\ MembershipInv
  BY DEF IInv
<1>1. /\ outcomes \in [Rows -> Outcome] /\ posts \in [Tracks -> Nat]
      /\ plan \subseteq Rows /\ row \in Rows /\ existingIDs \subseteq Tracks
      /\ Chosen \in Tracks
  BY <1>0 DEF TypeOK, PlanInv, Chosen
<1>2. /\ \A r \in Rows \ {row} : outcomes'[r] = outcomes[r]
      /\ outcomes'[row] = [outcomes[row] EXCEPT !.status = status]
      /\ DOMAIN outcomes' = Rows /\ outcomes' = [r \in Rows |-> outcomes'[r]]
  BY <1>1
<1>3. /\ outcomes'[row] \in Outcome
      /\ outcomes'[row].status = status /\ outcomes'[row].chosen = Chosen
  <2>1. status \in Status
    BY DEF Status
  <2>2. outcomes[row] \in Outcome /\ outcomes'[row] = [outcomes[row] EXCEPT !.status = status]
    BY <1>1, <1>2
  <2> QED BY <2>1, <2>2 DEF Outcome, Chosen
<1>4. outcomes' \in [Rows -> Outcome]
  <2>1. \A r \in Rows : outcomes'[r] \in Outcome
    BY <1>1, <1>2, <1>3
  <2> QED BY <1>2, <2>1
<1>5. row' \in 1..(N + 1) /\ existingIDs' \subseteq Tracks
  BY <1>1, RowLemma
<1>6. \A r \in Rows : /\ r < row' <=> r < row \/ r = row
                      /\ r >= row' <=> ~(r < row) /\ r # row
                      /\ r >= row <=> ~(r < row)
  BY <1>1, RowLemma
<1>7. \A r \in Rows : outcomes'[r].chosen = outcomes[r].chosen
  BY <1>2, <1>3 DEF Chosen
<1>8. /\ posts' \in [Tracks -> Nat] /\ posts'[Chosen] = 1
      /\ \A t \in Tracks \ {Chosen} : posts'[t] = posts[t]
  <2>1. CASE pc = "add"
    BY <1>1, <2>1, PlannedRowLemma
  <2>2. CASE pc = "reconcile"
    <3>1. Tried(row)
      BY <2>2 DEF Tried
    <3> QED BY <1>0, <1>1, <2>2, <3>1 DEF AddingInv, Chosen
  <2> QED BY <2>1, <2>2
<1>9. MatchingInv'
  BY <1>0 DEF MatchingInv
<1>10. PlanInv'
  <2>1. /\ \A r \in plan' : outcomes'[r].chosen \in Tracks \ snapshot'
        /\ \A r, s \in plan' : outcomes'[r].chosen = outcomes'[s].chosen => r = s
    BY <1>0, <1>1, <1>7 DEF PlanInv
  <2>2. ASSUME NEW t \in Tracks
        PROVE  posts'[t] <= 1 /\ (posts'[t] > 0 => \E r \in plan' : outcomes'[r].chosen = t)
    <3>1. CASE t = Chosen
      BY <1>1, <1>3, <1>8, <3>1
    <3>2. CASE t # Chosen
      <4>1. posts'[t] = posts[t]
        BY <1>8, <3>2
      <4> QED BY <1>0, <1>1, <1>7, <4>1 DEF PlanInv
    <3> QED BY <3>1, <3>2
  <2> QED BY <2>1, <2>2 DEF PlanInv
<1>11. AddingInv'
  <2>1. /\ ~request'.dry /\ failure' = "none"
        /\ \A r \in Rows \ plan' : outcomes'[r].status \notin {"", "MATCHED"}
    BY <1>0, <1>1, <1>2 DEF AddingInv
  <2>2. ASSUME NEW r \in plan'
        PROVE  /\ r < row' => outcomes'[r].status \in {"ADDED", "FAILED"}
               /\ r >= row' => outcomes'[r].status = "MATCHED"
               /\ posts'[outcomes'[r].chosen] = IF r < row' THEN 1 ELSE 0
    <3>0. r \in Rows /\ r \in plan
      BY <1>1
    <3>1. CASE r = row
      BY <1>1, <1>3, <1>6, <1>8, <3>1
    <3>2. CASE r # row
      <4>1. outcomes'[r] = outcomes[r] /\ outcomes[r].chosen \in Tracks \ {Chosen}
        BY <1>0, <1>1, <1>2, <3>0, <3>2 DEF PlanInv, Chosen
      <4>2. posts'[outcomes'[r].chosen] = posts[outcomes[r].chosen]
        BY <1>8, <4>1
      <4>3. (r < row' <=> r < row) /\ (r >= row' <=> r >= row) /\ (Tried(r) <=> r < row)
        BY <1>6, <3>0, <3>2 DEF Tried
      <4> QED BY <1>0, <3>0, <4>1, <4>2, <4>3 DEF AddingInv
    <3> QED BY <3>1, <3>2
  <2>3. \A r \in plan' : Tried(r)' <=> r < row'
    BY DEF Tried
  <2> QED BY <2>1, <2>2, <2>3 DEF AddingInv
<1>12. MembershipInv'
  <2>1. ASSUME NEW t \in existingIDs', t \notin snapshot'
        PROVE  \E r \in plan' : r < row' /\ outcomes'[r].chosen = t
    <3>1. CASE t = Chosen
      BY <1>1, <1>3, <1>6, <3>1
    <3>2. CASE t \in existingIDs
      <4>1. PICK r \in plan : r < row /\ outcomes[r].chosen = t
        BY <1>0, <2>1, <3>2 DEF MembershipInv
      <4> QED BY <1>1, <1>6, <1>7, <4>1
    <3> QED BY <2>1, <3>1, <3>2
  <2> QED BY <2>1 DEF MembershipInv
<1>13. EveryPlannedRowTried'
  BY DEF EveryPlannedRowTried
<1> QED BY <1>1, <1>2, <1>3, <1>4, <1>5, <1>8, <1>9, <1>10, <1>11, <1>12, <1>13

(* The report stays true when playlists grow and row's track is in place.  *)
LEMMA ReportLemma ==
    ASSUME TypeOK, HeldInv, UNCHANGED <<target, snapshot>>, target \in DOMAIN lists,
           \A k \in DOMAIN lists, x \in Tracks : Holds(lists[k], x) => Holds(lists'[k], x),
           \A r \in Rows \ {row} : outcomes'[r] = outcomes[r],
           outcomes'[row].status = "ADDED" => Holds(lists'[target], outcomes'[row].chosen),
           outcomes'[row].status # "ALREADY_EXISTS"
    PROVE  HeldInv'
<1>1. target # 0 /\ snapshot \subseteq Tracks /\ lists[target] \in Seq(Tracks)
  BY DEF TypeOK
<1>2. \A t \in snapshot : Holds(lists'[target], t)
  BY <1>1 DEF HeldInv
<1>3. ASSUME NEW r \in Rows, outcomes'[r].status \in {"ADDED", "ALREADY_EXISTS"}
      PROVE  Holds(lists'[target], outcomes'[r].chosen)
  <2>1. CASE r = row
    BY <1>3, <2>1
  <2>2. CASE r # row
    <3>1. outcomes'[r] = outcomes[r]
      BY <2>2
    <3>2. Holds(lists[target], outcomes[r].chosen)
      BY <1>3, <3>1 DEF HeldInv, ReportIsTrue
    <3>3. PICK i \in DOMAIN lists[target] : lists[target][i] = outcomes[r].chosen
      BY <3>2 DEF Holds
    <3>4. outcomes[r].chosen \in Tracks
      BY <1>1, <3>3
    <3> QED BY <3>1, <3>2, <3>4
  <2> QED BY <2>1, <2>2
<1> QED BY <1>1, <1>2, <1>3 DEF HeldInv, ReportIsTrue

LEMMA AddConfirmedLemma == IInv /\ AddConfirmed => IInv'
<1> SUFFICES ASSUME IInv, AddConfirmed PROVE IInv'
  OBVIOUS
<1>0. TypeOK /\ HeldInv
  BY DEF IInv
<1>1. /\ pc = "add" /\ row \in Rows /\ outcomes[row].status = "MATCHED"
      /\ pc' = "add" /\ row' = row + 1
      /\ posts' = [posts EXCEPT ![Chosen] = @ + 1]
      /\ lists' = [lists EXCEPT ![target] = Append(@, Chosen)]
      /\ outcomes' = [outcomes EXCEPT ![row].status = "ADDED"]
      /\ existingIDs' = existingIDs \cup {Chosen}
      /\ UNCHANGED <<pending, foreign, keys, request, run, target, plan, snapshot,
                     overlap, cancelled, failure>>
  BY DEF AddConfirmed, MustAdd, Confirm, inputVars
<1>2. row \in plan
  BY <1>1, PlannedRowLemma
<1>3. /\ outcomes' \in [Rows -> Outcome] /\ row' \in 1..(N + 1)
      /\ posts' \in [Tracks -> Nat] /\ existingIDs' \subseteq Tracks
      /\ \A r \in Rows \ {row} : outcomes'[r] = outcomes[r]
      /\ outcomes'[row].status = "ADDED" /\ outcomes'[row].chosen = Chosen
      /\ Chosen \in Tracks
      /\ MatchingInv' /\ PlanInv' /\ AddingInv' /\ MembershipInv'
      /\ EveryPlannedRowTried'
  BY <1>1, <1>2, TriedLemma
<1>4. lists \in Seq(Seq(Tracks)) /\ target \in DOMAIN lists
  BY <1>0, <1>1 DEF TypeOK
<1>5. /\ lists' \in Seq(Seq(Tracks)) /\ DOMAIN lists' = DOMAIN lists
      /\ Holds(lists'[target], Chosen)
      /\ \A k \in DOMAIN lists, x \in Tracks : Holds(lists[k], x) => Holds(lists'[k], x)
  BY <1>1, <1>3, <1>4, AppendLemma
<1>6. TypeOK'
  BY <1>0, <1>1, <1>3, <1>4, <1>5 DEF TypeOK
<1>7. HeldInv'
  BY <1>0, <1>1, <1>3, <1>4, <1>5, ReportLemma
<1> QED BY <1>3, <1>6, <1>7 DEF IInv

LEMMA ReconcileLemma == IInv /\ (Reconcile \/ ReconcileFails) => IInv'
<1> SUFFICES ASSUME IInv, Reconcile \/ ReconcileFails PROVE IInv'
  OBVIOUS
<1>0. TypeOK /\ AddingInv /\ HeldInv
  BY DEF IInv
<1>1. /\ pc = "reconcile" /\ pc' = "add" /\ row' = row + 1
      /\ UNCHANGED <<lists, pending, foreign, keys, request, run, target, plan, snapshot,
                     overlap, cancelled, failure, posts>>
  BY DEF Reconcile, ReconcileFails, beatportVars, inputVars, localVars
<1>2. PICK status \in {"ADDED", "FAILED"} :
          /\ outcomes' = [outcomes EXCEPT ![row].status = status]
          /\ existingIDs' \in {existingIDs, existingIDs \cup {Chosen}}
          /\ status = "ADDED" => Chosen \in ExistingTrackIDs(lists[target])
  BY DEF Reconcile, ReconcileFails, Confirm, localVars
<1>3. row \in plan
  BY <1>0, <1>1 DEF AddingInv
<1>4. /\ outcomes' \in [Rows -> Outcome] /\ row' \in 1..(N + 1)
      /\ posts' \in [Tracks -> Nat] /\ existingIDs' \subseteq Tracks
      /\ \A r \in Rows \ {row} : outcomes'[r] = outcomes[r]
      /\ outcomes'[row].status = status /\ outcomes'[row].chosen = Chosen
      /\ MatchingInv' /\ PlanInv' /\ AddingInv' /\ MembershipInv'
      /\ EveryPlannedRowTried'
  BY <1>1, <1>2, <1>3, TriedLemma
<1>5. target \in DOMAIN lists
  BY <1>0, <1>1 DEF TypeOK
<1>6. status = "ADDED" => Holds(lists[target], Chosen)
  BY <1>2 DEF ExistingTrackIDs, Holds
<1>7. TypeOK'
  BY <1>0, <1>1, <1>4, <1>5 DEF TypeOK
<1>8. HeldInv'
  BY <1>0, <1>1, <1>4, <1>5, <1>6, ReportLemma
<1> QED BY <1>4, <1>7, <1>8 DEF IInv

LEMMA AddUncertainLemma == IInv /\ AddUncertain => IInv'
<1> SUFFICES ASSUME IInv, AddUncertain PROVE IInv'
  OBVIOUS
<1>0. /\ TypeOK /\ MatchingInv /\ PlanInv /\ AddingInv /\ MembershipInv /\ HeldInv
  BY DEF IInv
<1>1. /\ pc = "add" /\ row \in Rows /\ outcomes[row].status = "MATCHED"
      /\ pc' = "reconcile"
      /\ posts' = [posts EXCEPT ![Chosen] = @ + 1]
      /\ UNCHANGED <<foreign, keys, request, run, target, existingIDs, plan, snapshot,
                     overlap, row, outcomes, cancelled, failure>>
  BY DEF AddUncertain, MustAdd, inputVars, localVars
<1>2. row \in plan /\ Chosen \in Tracks /\ posts[Chosen] = 0
  BY <1>1, PlannedRowLemma
<1>3. /\ lists \in Seq(Seq(Tracks)) /\ target \in DOMAIN lists /\ run \in 1..MaxRuns
      /\ pending \subseteq [run : 1..MaxRuns, list : DOMAIN lists, track : Tracks]
  BY <1>0, <1>1, BoundAssumption DEF TypeOK, MatchingInv
<1>4. /\ posts' \in [Tracks -> Nat] /\ posts'[Chosen] = 1
      /\ \A t \in Tracks \ {Chosen} : posts'[t] = posts[t]
  <2>1. posts \in [Tracks -> Nat]
    BY <1>0 DEF TypeOK
  <2> QED BY <1>1, <1>2, <2>1
<1>5. /\ lists' \in Seq(Seq(Tracks)) /\ DOMAIN lists' = DOMAIN lists
      /\ \A k \in DOMAIN lists, x \in Tracks : Holds(lists[k], x) => Holds(lists'[k], x)
  <2>1. CASE lists' = lists
    BY <1>3, <2>1
  <2>2. CASE lists' = [lists EXCEPT ![target] = Append(@, Chosen)]
    BY <1>2, <1>3, <2>2, AppendLemma
  <2> QED BY <2>1, <2>2 DEF AddUncertain
<1>6. pending' \subseteq [run : 1..MaxRuns, list : DOMAIN lists', track : Tracks]
  <2>1. \/ pending' = pending
        \/ pending' = pending \cup {[run |-> run, list |-> target, track |-> Chosen]}
    BY DEF AddUncertain
  <2>2. [run |-> run, list |-> target, track |-> Chosen]
            \in [run : 1..MaxRuns, list : DOMAIN lists', track : Tracks]
    BY <1>2, <1>3, <1>5
  <2> QED BY <1>3, <1>5, <2>1, <2>2
<1>7. TypeOK'
  BY <1>0, <1>1, <1>3, <1>4, <1>5, <1>6 DEF TypeOK
<1>8. MatchingInv' /\ MembershipInv' /\ EveryPlannedRowTried'
  BY <1>0, <1>1 DEF MatchingInv, MembershipInv, EveryPlannedRowTried
<1>9. PlanInv'
  <2>1. ASSUME NEW t \in Tracks
        PROVE  posts'[t] <= 1 /\ (posts'[t] > 0 => \E r \in plan : outcomes[r].chosen = t)
    <3>1. CASE t = Chosen
      BY <1>2, <1>4, <3>1 DEF Chosen
    <3>2. CASE t # Chosen
      <4>1. posts'[t] = posts[t]
        BY <1>4, <3>2
      <4> QED BY <1>0, <4>1 DEF PlanInv
    <3> QED BY <3>1, <3>2
  <2> QED BY <1>0, <1>1, <2>1 DEF PlanInv
<1>10. AddingInv'
  <2>1. /\ ~request.dry /\ failure = "none"
        /\ \A r \in Rows \ plan : outcomes[r].status \notin {"", "MATCHED"}
    BY <1>0, <1>1 DEF AddingInv
  <2>2. ASSUME NEW r \in plan
        PROVE  posts'[outcomes[r].chosen] = IF r < row \/ r = row THEN 1 ELSE 0
    <3>1. CASE r = row
      BY <1>4, <3>1 DEF Chosen
    <3>2. CASE r # row
      <4>1. outcomes[r].chosen \in Tracks \ {Chosen}
        BY <1>0, <1>2, <3>2 DEF PlanInv, Chosen
      <4>2. posts'[outcomes[r].chosen] = posts[outcomes[r].chosen]
        BY <1>4, <4>1
      <4>3. Tried(r) <=> r < row
        BY <1>1 DEF Tried
      <4> QED BY <1>0, <1>1, <3>2, <4>2, <4>3 DEF AddingInv
    <3> QED BY <3>1, <3>2
  <2>3. \A r \in plan : Tried(r)' <=> r < row \/ r = row
    BY <1>1 DEF Tried
  <2>4. \A r \in plan : /\ r < row => outcomes[r].status \in {"ADDED", "FAILED"}
                        /\ r >= row => outcomes[r].status = "MATCHED"
    BY <1>0, <1>1 DEF AddingInv
  <2> QED BY <1>1, <1>2, <2>1, <2>2, <2>3, <2>4 DEF AddingInv
<1>11. HeldInv'
  <2>1. \A r \in Rows \ {row} : outcomes'[r] = outcomes[r]
    BY <1>1
  <2>2. outcomes'[row].status # "ADDED" /\ outcomes'[row].status # "ALREADY_EXISTS"
    BY <1>1
  <2> QED BY <1>0, <1>1, <1>3, <1>5, <2>1, <2>2, ReportLemma
<1> QED BY <1>7, <1>8, <1>9, <1>10, <1>11 DEF IInv

(* The re-check of the second loop never fires: a passed row needs no      *)
(* addition.                                                               *)
LEMMA PassRowLemma == IInv /\ PassRow => IInv'
<1> SUFFICES ASSUME IInv, PassRow PROVE IInv'
  OBVIOUS
<1>0. /\ TypeOK /\ MatchingInv /\ PlanInv /\ AddingInv /\ MembershipInv /\ HeldInv
  BY DEF IInv
<1>1. /\ pc = "add" /\ row \in Rows /\ pc' = "add" /\ row' = row + 1
      /\ UNCHANGED <<lists, pending, foreign, keys, request, run, target, existingIDs,
                     plan, snapshot, overlap, cancelled, failure, posts>>
  BY DEF PassRow, beatportVars, inputVars, localVars
<1>2. row \notin plan /\ outcomes' = outcomes
  <2>1. outcomes[row].status # "MATCHED"
    BY <1>1, PlannedRowLemma DEF PassRow, MustAdd
  <2> QED BY <1>1, <2>1, PlannedRowLemma DEF PassRow
<1>3. plan \subseteq Rows
  BY <1>0 DEF TypeOK
<1>4. \A r \in plan : /\ r < row' <=> r < row
                      /\ r >= row' <=> r >= row
  BY <1>1, <1>2, <1>3, RowLemma
<1>5. row' \in 1..(N + 1)
  BY <1>1, RowLemma
<1>6. TypeOK'
  BY <1>0, <1>1, <1>2, <1>5 DEF TypeOK
<1>7. MatchingInv' /\ PlanInv' /\ HeldInv' /\ EveryPlannedRowTried'
  BY <1>0, <1>1, <1>2 DEF MatchingInv, PlanInv, HeldInv, ReportIsTrue, EveryPlannedRowTried
<1>8. AddingInv'
  <2>1. \A r \in plan : /\ Tried(r) <=> r < row
                        /\ Tried(r)' <=> r < row'
    BY <1>1 DEF Tried
  <2> QED BY <1>0, <1>1, <1>2, <1>4, <2>1 DEF AddingInv
<1>9. MembershipInv'
  <2>1. \A t \in existingIDs : \/ t \in snapshot
                               \/ \E r \in plan : r < row /\ outcomes[r].chosen = t
    BY <1>0, <1>1 DEF MembershipInv
  <2>2. \A t \in existingIDs : \/ t \in snapshot
                               \/ \E r \in plan : r < row' /\ outcomes[r].chosen = t
    BY <1>4, <2>1
  <2> QED BY <1>1, <1>2, <2>2 DEF MembershipInv
<1> QED BY <1>6, <1>7, <1>8, <1>9 DEF IInv

LEMMA CreateTargetLemma == IInv /\ CreateTarget => IInv'
<1> SUFFICES ASSUME IInv, CreateTarget PROVE IInv'
  OBVIOUS
<1>0. /\ TypeOK /\ MatchingInv /\ PlanInv /\ AddingInv /\ MembershipInv /\ HeldInv
  BY DEF IInv
<1>1. /\ pc = "create" /\ pc' = "add"
      /\ lists' = Append(lists, <<>>) /\ target' = Len(lists) + 1
      /\ UNCHANGED <<pending, foreign, keys, request, run, row, outcomes, existingIDs,
                     plan, snapshot, overlap, cancelled, failure, posts>>
  BY DEF CreateTarget, inputVars
<1>2. lists \in Seq(Seq(Tracks)) /\ plan \subseteq Rows
  BY <1>0 DEF TypeOK
<1>3. /\ lists' \in Seq(Seq(Tracks)) /\ DOMAIN lists \subseteq DOMAIN lists'
      /\ target' \in DOMAIN lists' /\ target' # 0
  BY <1>1, <1>2, NewListLemma
<1>4. /\ pending' \subseteq [run : 1..MaxRuns, list : DOMAIN lists', track : Tracks]
      /\ request' \in [target : {0} \cup DOMAIN lists', dry : BOOLEAN, ambiguous : Ambiguous]
  <2>1. pending \subseteq [run : 1..MaxRuns, list : DOMAIN lists, track : Tracks]
    BY <1>0 DEF TypeOK
  <2>2. request \in [target : {0} \cup DOMAIN lists, dry : BOOLEAN, ambiguous : Ambiguous]
    BY <1>0 DEF TypeOK
  <2>3. pending' \subseteq [run : 1..MaxRuns, list : DOMAIN lists', track : Tracks]
    BY <1>1, <1>3, <2>1
  <2>4. request' \in [target : {0} \cup DOMAIN lists', dry : BOOLEAN, ambiguous : Ambiguous]
    BY <1>1, <1>3, <2>2
  <2> QED BY <2>3, <2>4
<1>5. TypeOK'
  BY <1>0, <1>1, <1>3, <1>4 DEF TypeOK
<1>6. MatchingInv' /\ PlanInv' /\ EveryPlannedRowTried'
  BY <1>0, <1>1 DEF MatchingInv, PlanInv, EveryPlannedRowTried
<1>7. AddingInv'
  <2>1. row = 1
    BY <1>0, <1>1 DEF AddingInv
  <2>2. \A r \in plan : ~(r < row) /\ r >= row
    BY <1>2, <2>1, RowLemma
  <2>3. \A r \in plan : ~(Tried(r)')
    BY <1>1, <2>2 DEF Tried
  <2> QED BY <1>0, <1>1, <2>2, <2>3 DEF AddingInv
<1>8. MembershipInv'
  BY <1>0, <1>1 DEF MembershipInv
<1>9. HeldInv'
  BY <1>0, <1>1 DEF HeldInv, ReportIsTrue, AddingInv
<1> QED BY <1>5, <1>6, <1>7, <1>8, <1>9 DEF IInv

LEMMA CreateFailsLemma == IInv /\ CreateFails => IInv'
<1> SUFFICES ASSUME IInv, CreateFails PROVE IInv'
  OBVIOUS
<1>0. /\ TypeOK /\ MatchingInv /\ PlanInv /\ AddingInv /\ MembershipInv /\ HeldInv
  BY DEF IInv
<1>1. /\ pc = "create" /\ pc' = "done" /\ failure' = "create"
      /\ UNCHANGED <<pending, foreign, keys, request, run, target, existingIDs, plan,
                     snapshot, overlap, row, cancelled, posts>>
  BY DEF CreateFails, inputVars, localVars
<1>2. lists \in Seq(Seq(Tracks)) /\ outcomes \in [Rows -> Outcome] /\ plan \subseteq Rows
  BY <1>0 DEF TypeOK
<1>3. /\ lists' \in Seq(Seq(Tracks)) /\ DOMAIN lists \subseteq DOMAIN lists'
  <2>1. lists' = lists \/ lists' = Append(lists, <<>>)
    BY DEF CreateFails
  <2>2. CASE lists' = lists
    BY <1>2, <2>2
  <2>3. CASE lists' = Append(lists, <<>>)
    BY <1>2, <2>3, NewListLemma
  <2> QED BY <2>1, <2>2, <2>3
<1>4. ASSUME NEW r \in Rows
      PROVE  /\ outcomes'[r] \in Outcome /\ outcomes'[r].chosen = outcomes[r].chosen
             /\ outcomes'[r].status \in {outcomes[r].status, "FAILED"}
  <2>0. /\ outcomes[r] \in Outcome
        /\ outcomes'[r] = IF outcomes[r].status = "MATCHED"
                          THEN [outcomes[r] EXCEPT !.status = "FAILED"] ELSE outcomes[r]
    BY <1>2 DEF CreateFails
  <2>1. "FAILED" \in Status
    BY DEF Status
  <2>2. CASE outcomes[r].status = "MATCHED"
    BY <2>0, <2>1, <2>2 DEF Outcome
  <2>3. CASE outcomes[r].status # "MATCHED"
    BY <2>0, <2>3
  <2> QED BY <2>2, <2>3
<1>5. outcomes' \in [Rows -> Outcome]
  <2>1. DOMAIN outcomes' = Rows /\ outcomes' = [r \in Rows |-> outcomes'[r]]
    BY DEF CreateFails
  <2> QED BY <1>4, <2>1
<1>6. /\ pending' \subseteq [run : 1..MaxRuns, list : DOMAIN lists', track : Tracks]
      /\ request' \in [target : {0} \cup DOMAIN lists', dry : BOOLEAN, ambiguous : Ambiguous]
      /\ target' \in {0} \cup DOMAIN lists'
  <2>1. pending \subseteq [run : 1..MaxRuns, list : DOMAIN lists, track : Tracks]
    BY <1>0 DEF TypeOK
  <2>2. /\ request \in [target : {0} \cup DOMAIN lists, dry : BOOLEAN, ambiguous : Ambiguous]
        /\ target \in {0} \cup DOMAIN lists
    BY <1>0 DEF TypeOK
  <2>3. pending' \subseteq [run : 1..MaxRuns, list : DOMAIN lists', track : Tracks]
    BY <1>1, <1>3, <2>1
  <2>4. /\ request' \in [target : {0} \cup DOMAIN lists', dry : BOOLEAN, ambiguous : Ambiguous]
        /\ target' \in {0} \cup DOMAIN lists'
    BY <1>1, <1>3, <2>2
  <2> QED BY <2>3, <2>4
<1>7. TypeOK'
  BY <1>0, <1>1, <1>3, <1>5, <1>6 DEF TypeOK
<1>8. PlanInv'
  <2>1. \A r \in plan : outcomes'[r].chosen = outcomes[r].chosen
    BY <1>2, <1>4
  <2> QED BY <1>0, <1>1, <2>1 DEF PlanInv
<1>9. MatchingInv' /\ AddingInv' /\ MembershipInv' /\ EveryPlannedRowTried'
  BY <1>0, <1>1 DEF MatchingInv, AddingInv, MembershipInv, EveryPlannedRowTried
<1>10. HeldInv'
  <2>1. target = 0
    BY <1>0, <1>1 DEF AddingInv
  <2>2. \A r \in Rows : outcomes'[r].status \notin {"ADDED", "ALREADY_EXISTS"}
    BY <1>0, <1>4, <2>1 DEF HeldInv, ReportIsTrue
  <2> QED BY <1>0, <1>1, <2>1, <2>2 DEF HeldInv, ReportIsTrue
<1> QED BY <1>7, <1>8, <1>9, <1>10 DEF IInv

LEMMA FinishLemma == IInv /\ Finish => IInv'
<1> SUFFICES ASSUME IInv, Finish PROVE IInv'
  OBVIOUS
<1>0. /\ TypeOK /\ MatchingInv /\ PlanInv /\ AddingInv /\ MembershipInv /\ HeldInv
  BY DEF IInv
<1>1. /\ pc = "add" /\ pc' = "done" /\ row = N + 1
      /\ UNCHANGED <<lists, pending, foreign, keys, request, run, target, existingIDs,
                     plan, snapshot, overlap, row, outcomes, cancelled, failure, posts>>
  BY DEF Finish, beatportVars, inputVars, localVars
<1>2. plan \subseteq Rows
  BY <1>0 DEF TypeOK
<1>3. \A r \in plan : r < row
  BY <1>1, <1>2, RowLemma
<1>4. TypeOK'
  BY <1>0, <1>1 DEF TypeOK
<1>5. MatchingInv' /\ PlanInv' /\ AddingInv' /\ MembershipInv'
  <2>1. PlanInv'
    BY <1>0, <1>1 DEF PlanInv
  <2>2. MatchingInv' /\ AddingInv' /\ MembershipInv'
    BY <1>0, <1>1 DEF MatchingInv, AddingInv, MembershipInv
  <2> QED BY <2>1, <2>2
<1>6. HeldInv'
  BY <1>0, <1>1 DEF HeldInv, ReportIsTrue
<1>7. EveryPlannedRowTried'
  <2>1. \A r \in plan : /\ outcomes[r].status \in {"ADDED", "FAILED"}
                        /\ posts[outcomes[r].chosen] = 1
    BY <1>0, <1>1, <1>3 DEF AddingInv, Tried
  <2>2. \A r \in Rows : outcomes[r].status \notin {"", "MATCHED"}
    BY <1>0, <1>1, <2>1 DEF AddingInv
  <2> QED BY <1>0, <1>1, <2>1, <2>2 DEF EveryPlannedRowTried, PlanInv
<1> QED BY <1>4, <1>5, <1>6, <1>7 DEF IInv

-----------------------------------------------------------------------------
(* The theorems.                                                           *)

LEMMA StepLemma == IInv /\ [Next]_vars => IInv'
<1> SUFFICES ASSUME IInv, [Next]_vars PROVE IInv'
  OBVIOUS
<1>1. CASE Start
  BY <1>1, StartLemma
<1>2. CASE LoadTarget \/ LoadFails
  BY <1>2, LoadLemma
<1>3. CASE Match
  BY <1>3, MatchLemma
<1>4. CASE MakePlan
  BY <1>4, MakePlanLemma
<1>5. CASE CreateTarget
  BY <1>5, CreateTargetLemma
<1>6. CASE CreateFails
  BY <1>6, CreateFailsLemma
<1>7. CASE PassRow
  BY <1>7, PassRowLemma
<1>8. CASE AddConfirmed
  BY <1>8, AddConfirmedLemma
<1>9. CASE AddUncertain
  BY <1>9, AddUncertainLemma
<1>10. CASE Reconcile \/ ReconcileFails
  BY <1>10, ReconcileLemma
<1>11. CASE Finish
  BY <1>11, FinishLemma
<1>12. CASE Interrupt \/ Crash \/ ApplyLate \/ ForeignAdd
  BY <1>12, EnvironmentLemma
<1>13. CASE UNCHANGED vars
  <2>1. /\ UNCHANGED <<inputVars, localVars, row, outcomes, failure, posts>>
        /\ UNCHANGED <<lists, pending, foreign, cancelled, pc>>
    BY <1>13 DEF vars, beatportVars, inputVars, localVars
  <2>2. /\ lists \in Seq(Seq(Tracks)) /\ foreign \in 0..MaxForeign /\ cancelled \in BOOLEAN
        /\ pending \subseteq [run : 1..MaxRuns, list : DOMAIN lists, track : Tracks]
    BY DEF IInv, TypeOK
  <2> QED BY <2>1, <2>2, FrameLemma
<1> QED
  BY <1>1, <1>2, <1>3, <1>4, <1>5, <1>6, <1>7, <1>8, <1>9, <1>10, <1>11, <1>12, <1>13
  DEF Next, EngineStep

LEMMA InvariantLemma == Spec => []IInv
<1>1. Init => IInv
  BY InitLemma
<1>2. IInv /\ [Next]_vars => IInv'
  BY StepLemma
<1> QED BY <1>1, <1>2, PTL DEF Spec

(* Every state of every import is well typed: the run writes only to a     *)
(* playlist that exists, and remembers only valid IDs as members.          *)
THEOREM TypeCorrect == Spec => []TypeOK
<1>1. IInv => TypeOK
  BY DEF IInv
<1> QED BY <1>1, InvariantLemma, PTL

(* Engine.Run calls AddTracks at most once per track and run, and never    *)
(* for a track it saw in the target, however responses are lost, whoever   *)
(* else writes, and whatever rows converge on one track.                   *)
THEOREM NoTrackTwice == Spec => []AppendsOnce
<1>1. IInv => AppendsOnce
  <2> SUFFICES ASSUME IInv, NEW t \in Tracks
               PROVE  posts[t] <= 1 /\ (t \in snapshot => posts[t] = 0)
    BY DEF AppendsOnce
  <2>1. PlanInv /\ posts[t] \in Nat
    BY DEF IInv, TypeOK
  <2>2. posts[t] > 0 => t \notin snapshot
    BY <2>1 DEF PlanInv
  <2> QED BY <2>1, <2>2 DEF PlanInv
<1> QED BY <1>1, InvariantLemma, PTL

(* The membership re-check before an add (syncer.go, "track appeared in    *)
(* target before add") is never true: the plan already excludes it.        *)
THEOREM RecheckNeverFires == Spec => []RecheckIsIdle
<1>1. IInv => RecheckIsIdle
  BY PlannedRowLemma DEF RecheckIsIdle, Chosen
<1> QED BY <1>1, InvariantLemma, PTL

(* What the report calls added, or already there, is in the target.        *)
THEOREM TruthfulReport == Spec => []ReportIsTrue
<1>1. IInv => ReportIsTrue
  BY DEF IInv, HeldInv
<1> QED BY <1>1, InvariantLemma, PTL

(* A run without an error has settled every row and tried every planned    *)
(* track once, those after a failed add included.                          *)
THEOREM NoPlannedRowForgotten == Spec => []EveryPlannedRowTried
<1>1. IInv => EveryPlannedRowTried
  BY DEF IInv
<1> QED BY <1>1, InvariantLemma, PTL

(* Dry runs and empty plans write nothing: each step that creates a        *)
(* playlist or posts a track starts with a plan that is not a rehearsal.   *)
THEOREM DryRunWritesNothing == Spec => WritesNeedAPlan
<1> DEFINE A == (posts' # posts /\ run' = run) \/ Len(lists') # Len(lists)
                    => ~request.dry /\ plan # {}
<1>1. IInv /\ [Next]_vars => [A]_vars
  <2> SUFFICES ASSUME IInv, Next, ~A PROVE FALSE
    OBVIOUS
  <2>0. lists \in Seq(Seq(Tracks))
    BY DEF IInv, TypeOK
  <2>1. CASE AddConfirmed \/ AddUncertain
    <3>1. row \in plan /\ ~request.dry
      BY <2>1, PlannedRowLemma DEF AddConfirmed, AddUncertain, MustAdd, IInv, AddingInv
    <3> QED BY <3>1
  <2>2. CASE CreateTarget \/ CreateFails
    BY <2>2 DEF CreateTarget, CreateFails, IInv, AddingInv
  <2>3. CASE Start
    <3>1. lists' = lists /\ run \in Nat /\ run' = run + 1
      BY <2>3 DEF Start, beatportVars, IInv, TypeOK
    <3> QED BY <3>1
  <2>4. CASE \/ LoadTarget \/ LoadFails \/ Match \/ MakePlan \/ PassRow \/ Reconcile
             \/ ReconcileFails \/ Finish \/ Interrupt \/ Crash
    BY <2>4 DEF LoadTarget, LoadFails, Match, RepeatedRow, SearchFails, NoMatch, HighMatch,
                AmbiguousMatch, Settle, MakePlan, PassRow, Reconcile, ReconcileFails,
                Finish, Interrupt, Crash, beatportVars
  <2>5. CASE ApplyLate \/ ForeignAdd
    <3>1. posts' = posts
      BY <2>5 DEF ApplyLate, ForeignAdd
    <3>2. PICK l \in DOMAIN lists, t \in Tracks : lists' = [lists EXCEPT ![l] = Append(@, t)]
      BY <2>5 DEF ApplyLate, ForeignAdd, IInv, TypeOK
    <3>3. Len(lists') = Len(lists)
      BY <2>0, <3>2, AppendLemma
    <3> QED BY <3>1, <3>3
  <2> QED BY <2>1, <2>2, <2>3, <2>4, <2>5 DEF Next, EngineStep
<1> QED BY <1>1, InvariantLemma, PTL DEF Spec, WritesNeedAPlan

-----------------------------------------------------------------------------
(* No second copy, and the order of what is added: what a playlist holds,  *)
(* and what is still to be applied to it, while nobody else writes and no  *)
(* run overlaps with a late POST of an earlier one.                        *)

Alone == foreign = 0 /\ ~overlap

(* L[1] began as c, and what stands twice in L stood twice in c.           *)
GrownFrom(L, c) ==
    /\ \A k \in DOMAIN c : k \in DOMAIN L[1] /\ L[1][k] = c[k]
    /\ \A l \in DOMAIN L : \A j, k \in DOMAIN L[l] :
          j < k /\ L[l][j] = L[l][k] => l = 1 /\ k \in DOMAIN c

PlaceInv == 1 \in DOMAIN lists /\ \E c \in InitialContents : GrownFrom(lists, c)

(* A late POST brings what its playlist lacks, and no other brings it.     *)
WaitingInv ==
    /\ \A p \in pending : ~Holds(lists[p.list], p.track)
    /\ \A p, q \in pending : p.list = q.list /\ p.track = q.track => p = q

(* The run knows its target: what it did not see there it posted.          *)
KnownInv ==
    target # 0 /\ (pc = "match" \/ plan # {}) =>
        /\ \A t \in Tracks : Holds(lists[target], t) => t \in snapshot \/ posts[t] > 0
        /\ \A p \in pending : p.list = target => posts[p.track] > 0

Precedes(list, t, u) ==
    \A k, l \in DOMAIN list : list[k] = t /\ list[l] = u => k < l

(* A track that is there stands before all that rows after its own bring.  *)
OrderInv ==
    \A r, s \in plan :
        r < s /\ outcomes[r].status = "ADDED" =>
            Precedes(lists[target], outcomes[r].chosen, outcomes[s].chosen)

(* Only planned rows are reported as added.                                *)
PlannedInv == \A r \in Rows : outcomes[r].status = "ADDED" => r \in plan

CopyInv == PlannedInv /\ (Alone => PlaceInv /\ WaitingInv /\ KnownInv /\ OrderInv)

LEMMA GrownLemma ==
    ASSUME NEW list \in Seq(Tracks), NEW t \in Tracks
    PROVE  /\ DOMAIN Append(list, t) = DOMAIN list \cup {Len(list) + 1}
           /\ Len(list) + 1 \notin DOMAIN list
           /\ Append(list, t)[Len(list) + 1] = t
           /\ \A i \in DOMAIN list : /\ Append(list, t)[i] = list[i]
                                     /\ i < Len(list) + 1
                                     /\ ~(Len(list) + 1 < i)
           /\ ~(Len(list) + 1 < Len(list) + 1)
           /\ \A x : Holds(Append(list, t), x) <=> Holds(list, x) \/ x = t
<1> DEFINE n == Len(list) + 1
           grown == Append(list, t)
<1>1. /\ Len(list) \in Nat /\ DOMAIN list = 1..Len(list) /\ DOMAIN grown = 1..n
      /\ grown[n] = t /\ \A i \in DOMAIN list : grown[i] = list[i]
  OBVIOUS
<1>2. DOMAIN grown = DOMAIN list \cup {n} /\ n \notin DOMAIN list
      /\ \A i \in DOMAIN list : i < n /\ ~(n < i)
  BY <1>1
<1>3. ~(n < n)
  BY <1>1
<1> HIDE DEF n, grown
<1>4. \A x : Holds(grown, x) <=> Holds(list, x) \/ x = t
  BY <1>1, <1>2, Zenon DEF Holds
<1> QED BY <1>1, <1>2, <1>3, <1>4 DEF n, grown

LEMMA PrecedesLemma ==
    ASSUME NEW list \in Seq(Tracks), NEW t \in Tracks, NEW x, NEW y
    PROVE  /\ Precedes(list, x, y) /\ x # t => Precedes(Append(list, t), x, y)
           /\ ~Holds(list, y) => Precedes(list, x, y)
<1> DEFINE n == Len(list) + 1
           grown == Append(list, t)
<1>1. ~Holds(list, y) => Precedes(list, x, y)
  BY DEF Holds, Precedes
<1>2. /\ DOMAIN grown = DOMAIN list \cup {n} /\ grown[n] = t
      /\ \A i \in DOMAIN list : grown[i] = list[i] /\ i < n
  BY GrownLemma
<1> HIDE DEF n, grown
<1>3. Precedes(list, x, y) /\ x # t => Precedes(grown, x, y)
  BY <1>2, Zenon DEF Precedes
<1> QED BY <1>1, <1>3 DEF grown

(* The playlist l is given a track it lacks.                               *)
LEMMA NewTrackLemma ==
    ASSUME TypeOK, PlaceInv, NEW l \in DOMAIN lists, NEW t \in Tracks,
           ~Holds(lists[l], t),
           lists' = [lists EXCEPT ![l] = Append(@, t)]
    PROVE  /\ PlaceInv'
           /\ lists[l] \in Seq(Tracks) /\ lists'[l] = Append(lists[l], t)
           /\ \A m \in DOMAIN lists : m # l => lists'[m] = lists[m]
           /\ DOMAIN lists' = DOMAIN lists
<1> DEFINE n == Len(lists[l]) + 1
<1>1. /\ lists \in Seq(Seq(Tracks)) /\ lists[l] \in Seq(Tracks)
      /\ DOMAIN lists' = DOMAIN lists /\ lists'[l] = Append(lists[l], t)
      /\ \A m \in DOMAIN lists : m # l => lists'[m] = lists[m]
  BY DEF TypeOK
<1>2. /\ DOMAIN lists'[l] = DOMAIN lists[l] \cup {n} /\ lists'[l][n] = t
      /\ n \notin DOMAIN lists[l]
      /\ \A i \in DOMAIN lists[l] : lists'[l][i] = lists[l][i] /\ i < n /\ ~(n < i)
      /\ ~(n < n)
  BY <1>1, GrownLemma
<1>3. PICK c \in InitialContents : GrownFrom(lists, c)
  BY DEF PlaceInv
<1>4. 1 \in DOMAIN lists /\ \A j \in DOMAIN lists[l] : lists[l][j] # t
  BY DEF PlaceInv, Holds
<1> HIDE DEF n
<1>5. ASSUME NEW k \in DOMAIN c
      PROVE  k \in DOMAIN lists'[1] /\ lists'[1][k] = c[k]
  <2>1. k \in DOMAIN lists[1] /\ lists[1][k] = c[k]
    BY <1>3 DEF GrownFrom
  <2>2. CASE l = 1
    <3>1. k \in DOMAIN lists'[l] /\ lists'[l][k] = lists[l][k]
      BY <1>2, <2>1, <2>2
    <3> QED BY <2>1, <2>2, <3>1
  <2>3. CASE l # 1
    BY <1>1, <1>4, <2>1, <2>3
  <2> QED BY <2>2, <2>3
<1>6. ASSUME NEW m \in DOMAIN lists', NEW j \in DOMAIN lists'[m], NEW k \in DOMAIN lists'[m],
             j < k, lists'[m][j] = lists'[m][k]
      PROVE  m = 1 /\ k \in DOMAIN c
  <2>1. CASE m # l
    BY <1>1, <1>3, <1>6, <2>1, Zenon DEF GrownFrom
  <2>2. CASE m = l
    <3>1. j \in DOMAIN lists[l] /\ k \in DOMAIN lists[l]
      BY <1>2, <1>4, <1>6, <2>2, Zenon
    <3> QED BY <1>2, <1>3, <1>6, <2>2, <3>1, Zenon DEF GrownFrom
  <2> QED BY <2>1, <2>2
<1>7. PlaceInv'
  <2>1. 1 \in DOMAIN lists'
    BY <1>1, <1>4
  <2>2. \A k \in DOMAIN c : k \in DOMAIN lists'[1] /\ lists'[1][k] = c[k]
    BY <1>5
  <2>3. \A m \in DOMAIN lists' : \A j, k \in DOMAIN lists'[m] :
           j < k /\ lists'[m][j] = lists'[m][k] => m = 1 /\ k \in DOMAIN c
    BY <1>6
  <2>4. GrownFrom(lists', c)
    BY <2>2, <2>3, Zenon DEF GrownFrom
  <2> QED BY <2>1, <2>4 DEF PlaceInv
<1> QED BY <1>1, <1>7

(* A step that writes nothing, ends no load and adds nothing to the report. *)
LEMMA QuietCopyLemma ==
    ASSUME IInv, CopyInv,
           UNCHANGED <<lists, pending, foreign, target, overlap, plan, snapshot, posts>>,
           pc' = "match" => pc = "match",
           \A r \in plan : outcomes'[r].chosen = outcomes[r].chosen,
           \A r \in Rows : outcomes'[r].status = "ADDED" => outcomes[r].status = "ADDED"
    PROVE  CopyInv'
<1>1. PlannedInv' /\ plan \subseteq Rows
  BY DEF CopyInv, PlannedInv, IInv, TypeOK
<1>2. ASSUME Alone' PROVE PlaceInv' /\ WaitingInv' /\ KnownInv' /\ OrderInv'
  <2>1. PlaceInv /\ WaitingInv /\ KnownInv /\ OrderInv
    BY <1>2 DEF CopyInv, Alone
  <2>2. PlaceInv' /\ WaitingInv' /\ KnownInv'
    BY <2>1 DEF PlaceInv, WaitingInv, KnownInv
  <2>3. OrderInv'
    BY <1>1, <2>1 DEF OrderInv
  <2> QED BY <2>2, <2>3
<1> QED BY <1>1, <1>2 DEF CopyInv

(* What a row still to be tried would bring is neither there nor underway. *)
LEMMA LaterLemma ==
    ASSUME IInv, CopyInv, Alone, pc \in {"add", "reconcile"},
           NEW r \in plan, ~Tried(r)
    PROVE  /\ ~Holds(lists[target], outcomes[r].chosen)
           /\ \A p \in pending : p.list = target => p.track # outcomes[r].chosen
<1>1. outcomes[r].chosen \in Tracks \ snapshot /\ posts[outcomes[r].chosen] = 0
  BY Zenon DEF IInv, PlanInv, AddingInv
<1>2. target # 0 /\ plan # {}
  BY NewListLemma DEF IInv, TypeOK
<1>3. ~(posts[outcomes[r].chosen] > 0)
  BY <1>1
<1> QED BY <1>1, <1>2, <1>3 DEF CopyInv, KnownInv

(* The row being tried is done with: those after it come later.            *)
LEMMA TriedRowLemma ==
    ASSUME IInv, CopyInv, Alone, pc \in {"add", "reconcile"}, row \in plan,
           NEW s \in plan, row < s
    PROVE  ~Holds(lists[target], outcomes[s].chosen) /\ outcomes[s].chosen # Chosen
<1>1. row \in Rows /\ s \in Rows
  BY DEF IInv, TypeOK
<1>2. ~Tried(s) /\ s # row
  BY <1>1 DEF Tried, Rows
<1>3. outcomes[s].chosen # Chosen
  BY <1>2 DEF IInv, PlanInv, Chosen
<1> QED BY <1>2, <1>3, LaterLemma

(* A new playlist is empty, and the run's target if it is any run's.       *)
LEMMA CreateCopyLemma == IInv /\ CopyInv /\ (CreateTarget \/ CreateFails) => CopyInv'
<1> SUFFICES ASSUME IInv, CopyInv, CreateTarget \/ CreateFails PROVE CopyInv'
  OBVIOUS
<1>0. TypeOK /\ lists \in Seq(Seq(Tracks)) /\ outcomes \in [Rows -> Outcome]
  BY DEF IInv, TypeOK
<1>1. /\ target = 0 /\ plan # {} /\ plan \subseteq Rows
      /\ \A r \in plan : outcomes[r].status = "MATCHED"
  BY <1>0, Zenon DEF IInv, AddingInv, TypeOK, CreateTarget, CreateFails
<1>2. UNCHANGED <<pending, foreign, plan, snapshot, overlap, posts>>
      /\ pc' \in {"add", "done"} /\ (lists' = lists \/ lists' = Append(lists, <<>>))
  BY DEF CreateTarget, CreateFails, localVars
<1>3. \A r \in Rows : outcomes[r].status # "ADDED"
  BY <1>1 DEF CopyInv, PlannedInv
<1>4. \A r \in Rows : outcomes'[r].status # "ADDED"
  <2>1. CASE CreateTarget
    BY <1>3, <2>1 DEF CreateTarget
  <2>2. CASE CreateFails
    <3> SUFFICES ASSUME NEW r \in Rows PROVE outcomes'[r].status # "ADDED"
      OBVIOUS
    <3>1. outcomes'[r] = IF outcomes[r].status = "MATCHED"
                         THEN [outcomes[r] EXCEPT !.status = "FAILED"] ELSE outcomes[r]
      BY <2>2 DEF CreateFails
    <3>2. [outcomes[r] EXCEPT !.status = "FAILED"].status = "FAILED"
      BY <1>0 DEF Outcome
    <3> QED BY <1>3, <3>1, <3>2
  <2> QED BY <2>1, <2>2
<1>5. ASSUME Alone' PROVE PlaceInv' /\ WaitingInv' /\ KnownInv' /\ OrderInv'
  <2>1. PlaceInv /\ WaitingInv
    BY <1>2, <1>5 DEF CopyInv, Alone
  <2>2. /\ DOMAIN lists \subseteq DOMAIN lists' /\ \A l \in DOMAIN lists : lists'[l] = lists[l]
        /\ \A l \in DOMAIN lists' \ DOMAIN lists : DOMAIN lists'[l] = {}
    <3>1. CASE lists' = lists
      BY <3>1
    <3>2. CASE lists' = Append(lists, <<>>)
      <4>1. /\ DOMAIN lists = 1..Len(lists) /\ DOMAIN lists' = 1..(Len(lists) + 1)
            /\ lists'[Len(lists) + 1] = <<>> /\ \A l \in DOMAIN lists : lists'[l] = lists[l]
            /\ Len(lists) \in Nat
        BY <1>0, <3>2
      <4>2. \A l \in DOMAIN lists' \ DOMAIN lists : l = Len(lists) + 1
        BY <4>1
      <4>3. DOMAIN (<<>>) = {}
        OBVIOUS
      <4>4. \A l \in DOMAIN lists' \ DOMAIN lists : lists'[l] = <<>>
        BY <4>1, <4>2
      <4>5. DOMAIN lists \subseteq DOMAIN lists'
        BY <4>1
      <4> QED BY <4>1, <4>3, <4>4, <4>5
    <3> QED BY <1>2, <3>1, <3>2
  <2>3. PlaceInv'
    <3>1. PICK c \in InitialContents : GrownFrom(lists, c)
      BY <2>1 DEF PlaceInv
    <3>2. 1 \in DOMAIN lists /\ 1 \in DOMAIN lists' /\ lists'[1] = lists[1]
      BY <2>1, <2>2 DEF PlaceInv
    <3>3. GrownFrom(lists', c)
      BY <2>2, <3>1, <3>2, Zenon DEF GrownFrom
    <3> QED BY <3>2, <3>3 DEF PlaceInv
  <2>4. \A p \in pending : p.list \in DOMAIN lists
    BY <1>0 DEF TypeOK
  <2>5. WaitingInv'
    BY <1>2, <2>1, <2>2, <2>4 DEF WaitingInv
  <2>6. KnownInv'
    <3>1. CASE CreateFails
      BY <1>1, <1>2, <3>1 DEF CreateFails, localVars, KnownInv
    <3>2. CASE CreateTarget
      <4>1. lists' = Append(lists, <<>>) /\ target' = Len(lists) + 1
        BY <3>2 DEF CreateTarget
      <4>2. target' \notin DOMAIN lists /\ target' \in DOMAIN lists'
        BY <1>0, <4>1
      <4>3. DOMAIN lists'[target'] = {}
        BY <2>2, <4>2
      <4> QED BY <1>2, <2>4, <4>2, <4>3 DEF KnownInv, Holds
    <3> QED BY <3>1, <3>2
  <2>7. OrderInv'
    BY <1>1, <1>2, <1>4 DEF OrderInv
  <2> QED BY <2>3, <2>5, <2>6, <2>7
<1> QED BY <1>4, <1>5 DEF CopyInv, PlannedInv

(* An append that Beatport applies at once, confirmed or not.              *)
LEMMA AppendCopyLemma ==
    ASSUME IInv, CopyInv, MustAdd,
           lists' = [lists EXCEPT ![target] = Append(@, Chosen)],
           posts' = [posts EXCEPT ![Chosen] = @ + 1],
           UNCHANGED <<pending, foreign, target, plan, snapshot, overlap>>,
           \A r \in Rows : outcomes'[r].chosen = outcomes[r].chosen,
           \A r \in Rows : outcomes'[r].status = "ADDED"
                              => outcomes[r].status = "ADDED" \/ r = row
    PROVE  CopyInv'
<1>0. /\ TypeOK /\ row \in plan /\ Chosen \in Tracks /\ posts[Chosen] = 0
      /\ target \in DOMAIN lists /\ plan \subseteq Rows /\ posts \in [Tracks -> Nat]
      /\ \A p \in pending : p.list \in DOMAIN lists
  BY PlannedRowLemma DEF MustAdd, IInv, TypeOK
<1>1. PlannedInv'
  BY <1>0 DEF CopyInv, PlannedInv
<1>2. ASSUME Alone' PROVE PlaceInv' /\ WaitingInv' /\ KnownInv' /\ OrderInv'
  <2>1. Alone /\ PlaceInv /\ WaitingInv /\ KnownInv /\ OrderInv
    BY <1>2 DEF CopyInv, Alone
  <2>2. ~Tried(row)
    BY RowLemma DEF Tried, MustAdd
  <2>3. /\ ~Holds(lists[target], Chosen)
        /\ \A p \in pending : p.list = target => p.track # Chosen
    BY <1>0, <2>1, <2>2, LaterLemma DEF MustAdd, Chosen
  <2>4. /\ PlaceInv'
        /\ lists[target] \in Seq(Tracks) /\ lists'[target] = Append(lists[target], Chosen)
        /\ \A m \in DOMAIN lists : m # target => lists'[m] = lists[m]
    BY <1>0, <2>1, <2>3, NewTrackLemma
  <2>5. \A x : Holds(lists'[target], x) <=> Holds(lists[target], x) \/ x = Chosen
    BY <1>0, <2>4, GrownLemma
  <2>6. WaitingInv'
    BY <1>0, <2>1, <2>3, <2>4, <2>5 DEF WaitingInv
  <2>7. \A t \in Tracks : /\ posts[t] > 0 => posts'[t] > 0
                          /\ posts'[Chosen] > 0
    BY <1>0
  <2>8. KnownInv'
    <3>1. target # 0 /\ plan # {}
      BY <1>0, NewListLemma DEF TypeOK
    <3>2. /\ \A t \in Tracks : Holds(lists[target], t) => t \in snapshot \/ posts[t] > 0
          /\ \A p \in pending : p.list = target => posts[p.track] > 0 /\ p.track \in Tracks
      BY <1>0, <2>1, <3>1 DEF KnownInv, TypeOK
    <3> QED BY <1>0, <2>5, <2>7, <3>2 DEF KnownInv
  <2>9. OrderInv'
    <3> SUFFICES ASSUME NEW r \in plan, NEW s \in plan, r < s, outcomes'[r].status = "ADDED"
                 PROVE  Precedes(lists'[target], outcomes[r].chosen, outcomes[s].chosen)
      BY <1>0 DEF OrderInv
    <3>1. CASE r = row
      <4>1. ~Holds(lists[target], outcomes[s].chosen) /\ outcomes[s].chosen # Chosen
        BY <1>0, <2>1, <3>1, TriedRowLemma DEF MustAdd
      <4>2. ~Holds(lists'[target], outcomes[s].chosen)
        BY <2>5, <4>1
      <4> QED BY <4>2 DEF Holds, Precedes
    <3>2. CASE r # row
      <4>1. Precedes(lists[target], outcomes[r].chosen, outcomes[s].chosen)
        BY <1>0, <2>1, <3>2 DEF OrderInv
      <4>2. outcomes[r].chosen # Chosen
        BY <1>0, <3>2 DEF IInv, PlanInv, Chosen
      <4> QED BY <1>0, <2>4, <4>1, <4>2, PrecedesLemma
    <3> QED BY <3>1, <3>2
  <2> QED BY <2>4, <2>6, <2>8, <2>9
<1> QED BY <1>1, <1>2 DEF CopyInv

(* The POST may also be lost, or be applied later.                         *)
LEMMA AddCopyLemma == IInv /\ CopyInv /\ (AddConfirmed \/ AddUncertain) => CopyInv'
<1> SUFFICES ASSUME IInv, CopyInv, AddConfirmed \/ AddUncertain PROVE CopyInv'
  OBVIOUS
<1>0. /\ MustAdd /\ TypeOK /\ outcomes \in [Rows -> Outcome]
      /\ posts' = [posts EXCEPT ![Chosen] = @ + 1]
      /\ UNCHANGED <<foreign, target, plan, snapshot, overlap>>
  BY DEF AddConfirmed, AddUncertain, localVars, IInv, TypeOK
<1>1. CASE AddConfirmed
  <2>1. outcomes' = [outcomes EXCEPT ![row].status = "ADDED"]
    BY <1>1 DEF AddConfirmed, Confirm
  <2>2. ASSUME NEW r \in Rows
        PROVE  /\ outcomes'[r].chosen = outcomes[r].chosen
               /\ r # row => outcomes'[r] = outcomes[r]
    BY <1>0, <2>1 DEF Outcome
  <2>3. /\ lists' = [lists EXCEPT ![target] = Append(@, Chosen)]
        /\ pending' = pending
    BY <1>1 DEF AddConfirmed
  <2> QED BY <1>0, <2>2, <2>3, AppendCopyLemma
<1>2. CASE AddUncertain
  <2>0. outcomes' = outcomes /\ pc' = "reconcile"
    BY <1>2 DEF AddUncertain
  <2>1. CASE lists' = [lists EXCEPT ![target] = Append(@, Chosen)] /\ pending' = pending
    BY <1>0, <2>0, <2>1, AppendCopyLemma
  <2> DEFINE late == [run |-> run, list |-> target, track |-> Chosen]
  <2>2. CASE lists' = lists /\ (pending' = pending \/ pending' = pending \cup {late})
    <3>1. /\ row \in plan /\ Chosen \in Tracks /\ posts[Chosen] = 0
          /\ plan \subseteq Rows /\ posts \in [Tracks -> Nat]
          /\ \A p \in pending : p.track \in Tracks
      BY <1>0, PlannedRowLemma DEF MustAdd, TypeOK
    <3>2. PlannedInv'
      BY <1>0, <2>0 DEF CopyInv, PlannedInv
    <3>3. ASSUME Alone' PROVE PlaceInv' /\ WaitingInv' /\ KnownInv' /\ OrderInv'
      <4>1. Alone /\ PlaceInv /\ WaitingInv /\ KnownInv /\ OrderInv
        BY <1>0, <3>3 DEF CopyInv, Alone
      <4>2. ~Tried(row)
        BY <1>0, RowLemma DEF Tried, MustAdd
      <4>3. /\ ~Holds(lists[target], Chosen)
            /\ \A p \in pending : p.list = target => p.track # Chosen
        BY <1>0, <3>1, <4>1, <4>2, LaterLemma DEF MustAdd, Chosen
      <4>4. \A p \in pending' : p \in pending \/ (p = late /\ p.list = target /\ p.track = Chosen)
        BY <2>2
      <4>5. WaitingInv'
        BY <2>2, <4>1, <4>3, <4>4, Zenon DEF WaitingInv
      <4>6. posts'[Chosen] > 0 /\ \A t \in Tracks : posts[t] > 0 => posts'[t] > 0
        BY <1>0, <3>1
      <4>7. KnownInv'
        BY <1>0, <2>2, <3>1, <4>1, <4>4, <4>6 DEF KnownInv
      <4>8. OrderInv' /\ PlaceInv'
        BY <1>0, <2>0, <2>2, <4>1 DEF OrderInv, PlaceInv
      <4> QED BY <4>1, <4>5, <4>7, <4>8
    <3> QED BY <3>2, <3>3 DEF CopyInv
  <2> QED BY <1>2, <2>1, <2>2 DEF AddUncertain
<1> QED BY <1>1, <1>2

LEMMA ReconcileCopyLemma == IInv /\ CopyInv /\ Reconcile => CopyInv'
<1> SUFFICES ASSUME IInv, CopyInv, Reconcile PROVE CopyInv'
  OBVIOUS
<1>0. /\ pc = "reconcile" /\ pc' = "add" /\ row \in plan /\ plan \subseteq Rows
      /\ outcomes \in [Rows -> Outcome]
      /\ UNCHANGED <<lists, pending, foreign, target, overlap, plan, snapshot, posts>>
  BY Zenon DEF Reconcile, beatportVars, IInv, AddingInv, TypeOK
<1>1. \E s \in {"ADDED", "FAILED"} : outcomes' = [outcomes EXCEPT ![row].status = s]
  BY DEF Reconcile, Confirm
<1>2. ASSUME NEW r \in Rows
      PROVE  /\ outcomes'[r].chosen = outcomes[r].chosen
             /\ r # row => outcomes'[r] = outcomes[r]
  BY <1>0, <1>1 DEF Outcome
<1>3. PlannedInv'
  BY <1>0, <1>2 DEF CopyInv, PlannedInv
<1>4. ASSUME Alone' PROVE PlaceInv' /\ WaitingInv' /\ KnownInv' /\ OrderInv'
  <2>1. Alone /\ PlaceInv /\ WaitingInv /\ KnownInv /\ OrderInv
    BY <1>0, <1>4 DEF CopyInv, Alone
  <2>2. PlaceInv' /\ WaitingInv' /\ KnownInv'
    BY <1>0, <2>1 DEF PlaceInv, WaitingInv, KnownInv
  <2>3. OrderInv'
    <3> SUFFICES ASSUME NEW r \in plan, NEW s \in plan, r < s, outcomes'[r].status = "ADDED"
                 PROVE  Precedes(lists[target], outcomes[r].chosen, outcomes[s].chosen)
      BY <1>0, <1>2 DEF OrderInv
    <3>1. CASE r = row
      <4>1. ~Holds(lists[target], outcomes[s].chosen)
        BY <1>0, <2>1, <3>1, TriedRowLemma
      <4> QED BY <4>1 DEF Holds, Precedes
    <3>2. CASE r # row
      BY <1>0, <1>2, <2>1, <3>2 DEF OrderInv
    <3> QED BY <3>1, <3>2
  <2> QED BY <2>2, <2>3
<1> QED BY <1>3, <1>4 DEF CopyInv

(* A late POST is one its playlist lacks, so no reported track's.          *)
LEMMA EnvironmentCopyLemma == IInv /\ CopyInv /\ (ApplyLate \/ ForeignAdd) => CopyInv'
<1> SUFFICES ASSUME IInv, CopyInv, ApplyLate \/ ForeignAdd PROVE CopyInv'
  OBVIOUS
<1>0. /\ TypeOK /\ UNCHANGED <<pc, target, overlap, plan, snapshot, posts, outcomes>>
      /\ plan \subseteq Rows
  BY DEF ApplyLate, ForeignAdd, localVars, IInv, TypeOK
<1>1. PlannedInv'
  BY <1>0 DEF CopyInv, PlannedInv
<1>2. CASE ForeignAdd
  <2>1. foreign' # 0
    BY <1>0, <1>2 DEF ForeignAdd, TypeOK
  <2> QED BY <1>1, <2>1 DEF CopyInv, Alone
<1>3. CASE ApplyLate
  <2>0. foreign' = foreign
    BY <1>3 DEF ApplyLate
  <2>1. PICK p \in pending : /\ lists' = [lists EXCEPT ![p.list] = Append(@, p.track)]
                             /\ pending' = pending \ {p}
    BY <1>3 DEF ApplyLate
  <2>2. /\ \A q \in pending : q.list \in DOMAIN lists /\ q.track \in Tracks
        /\ target \in {0} \cup DOMAIN lists
    BY <1>0 DEF TypeOK
  <2>3. ASSUME Alone' PROVE PlaceInv' /\ WaitingInv' /\ KnownInv' /\ OrderInv'
    <3>1. Alone /\ PlaceInv /\ WaitingInv /\ KnownInv /\ OrderInv
      BY <1>0, <2>0, <2>3 DEF CopyInv, Alone
    <3>2. ~Holds(lists[p.list], p.track)
      BY <3>1 DEF WaitingInv
    <3>3. /\ PlaceInv'
          /\ lists[p.list] \in Seq(Tracks) /\ lists'[p.list] = Append(lists[p.list], p.track)
          /\ \A m \in DOMAIN lists : m # p.list => lists'[m] = lists[m]
      BY <1>0, <2>1, <2>2, <3>1, <3>2, NewTrackLemma
    <3>4. \A x : Holds(lists'[p.list], x) <=> Holds(lists[p.list], x) \/ x = p.track
      BY <2>2, <3>3, GrownLemma
    <3>5. WaitingInv'
      BY <2>1, <2>2, <3>1, <3>3, <3>4, Zenon DEF WaitingInv
    <3>6. KnownInv'
      BY <1>0, <2>1, <2>2, <3>1, <3>3, <3>4 DEF KnownInv
    <3>7. OrderInv'
      <4> SUFFICES ASSUME NEW r \in plan, NEW s \in plan, r < s, outcomes[r].status = "ADDED"
                   PROVE  Precedes(lists'[target], outcomes[r].chosen, outcomes[s].chosen)
        BY <1>0 DEF OrderInv
      <4>1. Precedes(lists[target], outcomes[r].chosen, outcomes[s].chosen)
        BY <3>1 DEF OrderInv
      <4>2. target # 0 /\ Holds(lists[target], outcomes[r].chosen)
        BY <1>0 DEF IInv, HeldInv, ReportIsTrue
      <4>3. CASE p.list = target
        BY <2>2, <3>2, <3>3, <4>1, <4>2, <4>3, PrecedesLemma
      <4>4. CASE p.list # target
        BY <2>2, <3>3, <4>1, <4>2, <4>4
      <4> QED BY <4>3, <4>4
    <3> QED BY <3>3, <3>5, <3>6, <3>7
  <2> QED BY <1>1, <2>3 DEF CopyInv
<1> QED BY <1>2, <1>3

(* A fresh outcome, or one fresh from the plan, is not reported as added.  *)
LEMMA NothingAddedLemma ==
    IInv => /\ \A r \in Rows : FreshOutcomes[r].status # "ADDED"
            /\ MakePlan => /\ PlannedRows(outcomes, existingIDs) \subseteq Rows
                           /\ \A r \in Rows : outcomes'[r].status # "ADDED"
<1> SUFFICES ASSUME IInv
             PROVE  /\ \A r \in Rows : FreshOutcomes[r].status # "ADDED"
                    /\ MakePlan => /\ PlannedRows(outcomes, existingIDs) \subseteq Rows
                                   /\ \A r \in Rows : outcomes'[r].status # "ADDED"
  OBVIOUS
<1>1. \A r \in Rows : FreshOutcomes[r].status # "ADDED"
  <2>1. \A r \in Rows : FreshOutcomes[r].status = ""
    BY FreshLemma, Zenon DEF IInv, TypeOK
  <2> QED BY <2>1, Zenon
<1>2. ASSUME MakePlan
      PROVE  /\ PlannedRows(outcomes, existingIDs) \subseteq Rows
             /\ \A r \in Rows : outcomes'[r].status # "ADDED"
  <2>1. /\ plan' \subseteq Rows
        /\ \A r \in plan' : /\ outcomes'[r].status = "MATCHED"
                            /\ outcomes[r].chosen \in Tracks \ existingIDs
        /\ \A r \in Rows \ plan' : outcomes'[r].status \notin {"", "MATCHED", "ADDED"}
    BY <1>2, PlannedLemma, Zenon DEF Planning
  <2> QED BY <1>2, <2>1, Zenon DEF MakePlan
<1> QED BY <1>1, <1>2

(* Until there is a plan, what the run read is all its target holds.       *)
LEMMA PlanCopyLemma == IInv /\ CopyInv /\ (Start \/ LoadTarget \/ MakePlan) => CopyInv'
<1> SUFFICES ASSUME IInv, CopyInv, Start \/ LoadTarget \/ MakePlan PROVE CopyInv'
  OBVIOUS
<1>0. TypeOK /\ IInv' /\ UNCHANGED <<lists, pending, foreign>>
  BY StartLemma, LoadLemma, MakePlanLemma DEF Start, LoadTarget, MakePlan, beatportVars, IInv
<1>1. PlaceInv' <=> PlaceInv
  BY <1>0 DEF PlaceInv
<1>2. WaitingInv' <=> WaitingInv
  BY <1>0 DEF WaitingInv
<1>3. CASE Start
  <2>1. /\ plan' = {} /\ overlap' = overlap /\ outcomes' = FreshOutcomes
        /\ pc' = IF target' = 0 THEN "match" ELSE "load"
    BY <1>3 DEF Start
  <2>2. \A r \in Rows : outcomes'[r].status # "ADDED"
    BY <2>1, NothingAddedLemma
  <2>3. KnownInv' /\ OrderInv'
    BY <2>1 DEF KnownInv, OrderInv
  <2> QED BY <1>0, <1>1, <1>2, <2>1, <2>2, <2>3 DEF CopyInv, PlannedInv, Alone
<1>4. CASE LoadTarget
  <2>0. pc = "load" /\ plan = {}
    BY <1>4, Zenon DEF LoadTarget, IInv, MatchingInv
  <2>1. /\ UNCHANGED <<plan, outcomes, target, posts>> /\ plan = {}
        /\ snapshot' = ExistingTrackIDs(lists[target])
        /\ overlap' = (overlap \/ \E p \in pending : p.list = target)
    BY <1>4, <2>0 DEF LoadTarget
  <2>2. PlannedInv'
    BY <2>1 DEF CopyInv, PlannedInv
  <2>3. ASSUME Alone' PROVE KnownInv' /\ OrderInv' /\ Alone
    <3>1. Alone /\ \A p \in pending : p.list # target
      BY <1>0, <2>1, <2>3 DEF Alone
    <3>2. \A t \in Tracks : Holds(lists[target], t) => t \in snapshot'
      BY <2>1 DEF ExistingTrackIDs, Holds
    <3> QED BY <1>0, <2>1, <3>1, <3>2 DEF KnownInv, OrderInv
  <2> QED BY <1>1, <1>2, <2>2, <2>3 DEF CopyInv
<1>5. CASE MakePlan
  <2>1. /\ UNCHANGED <<target, posts, snapshot, overlap>> /\ pc = "match"
        /\ outcomes' = BuildPlan(outcomes, existingIDs)
        /\ plan' = PlannedRows(outcomes, existingIDs)
    BY <1>5 DEF MakePlan
  <2>3. plan' \subseteq Rows /\ \A r \in Rows : outcomes'[r].status # "ADDED"
    BY <1>5, <2>1, NothingAddedLemma
  <2>5. PlannedInv' /\ OrderInv'
    BY <2>3 DEF PlannedInv, OrderInv
  <2>6. KnownInv => KnownInv'
    BY <1>0, <2>1 DEF KnownInv
  <2> QED BY <1>0, <1>1, <1>2, <2>1, <2>5, <2>6 DEF CopyInv, Alone
<1> QED BY <1>3, <1>4, <1>5

LEMMA CopyStepLemma == IInv /\ CopyInv /\ [Next]_vars => CopyInv'
<1> SUFFICES ASSUME IInv, CopyInv, [Next]_vars PROVE CopyInv'
  OBVIOUS
<1>0. /\ outcomes \in [Rows -> Outcome] /\ plan \subseteq Rows
      /\ pc = "match" => plan = {}
  BY Zenon DEF IInv, TypeOK, MatchingInv
<1>1. CASE Start \/ LoadTarget \/ MakePlan
  BY <1>1, PlanCopyLemma
<1>2. CASE CreateTarget \/ CreateFails
  BY <1>2, CreateCopyLemma
<1>3. CASE AddConfirmed \/ AddUncertain
  BY <1>3, AddCopyLemma
<1>4. CASE Reconcile
  BY <1>4, ReconcileCopyLemma
<1>5. CASE ApplyLate \/ ForeignAdd
  BY <1>5, EnvironmentCopyLemma
<1>6. CASE LoadFails \/ Finish \/ Interrupt \/ Crash \/ UNCHANGED vars
  <2>1. UNCHANGED <<lists, pending, foreign, target, overlap, plan, snapshot, posts, outcomes>>
        /\ (pc' = "match" => pc = "match")
    BY <1>6 DEF LoadFails, Finish, Interrupt, Crash, vars, beatportVars, localVars
  <2> QED BY <2>1, QuietCopyLemma
<1>7. CASE Match \/ PassRow \/ ReconcileFails
  <2>1. UNCHANGED <<lists, pending, foreign, target, overlap, plan, snapshot, posts>>
    BY <1>7 DEF Match, RepeatedRow, SearchFails, NoMatch, HighMatch, AmbiguousMatch, Settle,
                PassRow, ReconcileFails, beatportVars, localVars
  <2>2. pc' = "match" => pc = "match"
    BY <1>7 DEF Match, RepeatedRow, SearchFails, NoMatch, HighMatch, AmbiguousMatch, AtRow,
                PassRow, ReconcileFails
  <2>3. \/ /\ pc = "match"
           /\ \E s \in {"INPUT_DUPLICATE", "FAILED", "NOT_FOUND", "MATCHED", "SKIPPED",
                        "AMBIGUOUS"}, c \in Tracks \cup {NoTrack, BadTrack} :
                 outcomes' = [outcomes EXCEPT ![row].status = s, ![row].chosen = c]
        \/ \E s \in {"ALREADY_EXISTS", "FAILED"} :
                 outcomes' = [outcomes EXCEPT ![row].status = s]
        \/ outcomes' = outcomes
    <3>1. CASE RepeatedRow \/ SearchFails \/ NoMatch
      BY <3>1 DEF RepeatedRow, SearchFails, NoMatch, AtRow, Settle
    <3>2. CASE HighMatch
      BY <3>2 DEF HighMatch, AtRow, Settle
    <3>3. CASE AmbiguousMatch
      BY <3>3 DEF AmbiguousMatch, AtRow, Settle
    <3>4. CASE PassRow \/ ReconcileFails
      BY <3>4 DEF PassRow, ReconcileFails
    <3> QED BY <1>7, <3>1, <3>2, <3>3, <3>4 DEF Match
  <2>4. ASSUME NEW r \in Rows
        PROVE  /\ r \in plan => outcomes'[r].chosen = outcomes[r].chosen
               /\ outcomes'[r].status = "ADDED" => outcomes[r].status = "ADDED"
    BY <1>0, <2>3 DEF Outcome
  <2> QED BY <1>0, <2>1, <2>2, <2>4, QuietCopyLemma
<1> QED
  BY <1>1, <1>2, <1>3, <1>4, <1>5, <1>6, <1>7 DEF Next, EngineStep

LEMMA CopyInvariantLemma == Spec => []CopyInv
<1>1. Init => CopyInv
  <2> SUFFICES ASSUME Init PROVE CopyInv
    OBVIOUS
  <2>1. IInv /\ plan = {} /\ pending = {} /\ target = 0 /\ outcomes = FreshOutcomes
    BY InitLemma DEF Init
  <2>2. PlannedInv
    BY <2>1, NothingAddedLemma DEF PlannedInv
  <2>3. PICK c \in InitialContents : lists = <<c>>
    BY DEF Init
  <2>4. DOMAIN lists = {1} /\ lists[1] = c
    BY <2>3
  <2>5. PlaceInv
    BY <2>4, Zenon DEF PlaceInv, GrownFrom
  <2> QED BY <2>1, <2>2, <2>5 DEF CopyInv, WaitingInv, KnownInv, OrderInv
<1>2. Spec => []IInv
  BY InvariantLemma
<1>3. IInv /\ CopyInv /\ [Next]_vars => CopyInv'
  BY CopyStepLemma
<1> QED BY <1>1, <1>2, <1>3, PTL DEF Spec

(* Additions are sequential: with no other writer, the tracks Engine.Run   *)
(* reports as added stand in the target in source order, even if some were *)
(* confirmed only by the re-read, and whatever is applied late.            *)
THEOREM AdditionsAreInSourceOrder == Spec => []AddedInSourceOrder
<1>1. IInv /\ CopyInv => AddedInSourceOrder
  <2> SUFFICES ASSUME IInv, CopyInv, Alone PROVE
        \A r, s \in Rows :
            r < s /\ outcomes[r].status = "ADDED" /\ outcomes[s].status = "ADDED" =>
                Precedes(lists[target], outcomes[r].chosen, outcomes[s].chosen)
    BY Zenon DEF AddedInSourceOrder, Alone, Precedes
  <2> QED BY DEF CopyInv, PlannedInv, OrderInv
<1> QED BY <1>1, InvariantLemma, CopyInvariantLemma, PTL

(* Importing the same source again after failures, interrupts or a crash   *)
(* appends no second copy of a track: a playlist holds twice only what it  *)
(* held twice at first, while nobody else writes and no run reads a target *)
(* to which a POST of an earlier run is still to be applied.               *)
THEOREM RerunsAddNoCopy == Spec => []RerunsAppendNoCopy
<1>1. CopyInv => RerunsAppendNoCopy
  BY Zenon DEF CopyInv, Alone, PlaceInv, GrownFrom, RerunsAppendNoCopy
<1> QED BY <1>1, CopyInvariantLemma, PTL

-----------------------------------------------------------------------------
(* Verdicts are final.  The one step that goes over settled rows again is  *)
(* BuildPlan, which repeats the search for duplicates: it finds those that *)
(* the first loop found.                                                   *)

SourceInv ==
    \A r \in Rows :
        /\ outcomes[r].key = keys[r]
        /\ outcomes[r].dup = TRUE <=> \E q \in Rows : q < r /\ keys[q] = keys[r]
        /\ pc = "match" /\ r < row /\ outcomes[r].dup = TRUE
              => outcomes[r].status = "INPUT_DUPLICATE"

(* The row that waits for the re-read is planned, and was asked for once.  *)
LEMMA ReconcileRowLemma ==
    ASSUME IInv, pc = "reconcile"
    PROVE  /\ row \in Rows /\ row \in plan /\ outcomes[row].status = "MATCHED"
           /\ Chosen \in Tracks /\ posts[Chosen] = 1
<1>1. row \in plan /\ row \in Rows
  BY Zenon DEF IInv, AddingInv, TypeOK
<1>2. row >= row /\ Tried(row)
  BY <1>1, RowLemma DEF Tried
<1>3. outcomes[row].status = "MATCHED" /\ posts[outcomes[row].chosen] = 1
  BY <1>1, <1>2, Zenon DEF IInv, AddingInv
<1>4. outcomes[row].chosen \in Tracks
  BY <1>1 DEF IInv, PlanInv
<1> QED BY <1>1, <1>3, <1>4 DEF Chosen

(* What each step of the engine does to the rows.                          *)
LEMMA VerdictLemma ==
    ASSUME IInv, [Next]_vars, ~Start, ~MakePlan, NEW r \in Rows
    PROVE  /\ outcomes'[r].key = outcomes[r].key /\ outcomes'[r].dup = outcomes[r].dup
           /\ \/ outcomes'[r].status = outcomes[r].status
              \/ Match /\ r = row
              \/ outcomes[r].status = "MATCHED"
<1>0. outcomes \in [Rows -> Outcome] /\ keys' = keys
  BY DEF IInv, TypeOK, Next, EngineStep, LoadTarget, LoadFails, Match, RepeatedRow, SearchFails,
         NoMatch, HighMatch, AmbiguousMatch, Settle, CreateTarget, CreateFails, PassRow,
         AddConfirmed, AddUncertain, Reconcile, ReconcileFails, Finish, Interrupt, Crash,
         ApplyLate, ForeignAdd, inputVars, vars
<1>1. CASE \/ LoadTarget \/ LoadFails \/ CreateTarget \/ AddUncertain \/ Finish \/ Interrupt
           \/ Crash \/ ApplyLate \/ ForeignAdd \/ UNCHANGED vars
  BY <1>1 DEF LoadTarget, LoadFails, CreateTarget, AddUncertain, Finish, Interrupt, Crash,
              ApplyLate, ForeignAdd, vars
<1>2. CASE Match
  <2>1. \E s, c : outcomes' = [outcomes EXCEPT ![row].status = s, ![row].chosen = c]
    BY <1>2, Zenon DEF Match, RepeatedRow, SearchFails, NoMatch, HighMatch, AmbiguousMatch, Settle
  <2> QED BY <1>0, <1>2, <2>1 DEF Outcome
<1>3. CASE CreateFails
  BY <1>0, <1>3 DEF CreateFails, Outcome
<1>4. CASE PassRow \/ AddConfirmed
  <2>1. \/ outcomes' = outcomes
        \/ /\ outcomes[row].status = "MATCHED"
           /\ \E s : outcomes' = [outcomes EXCEPT ![row].status = s]
    BY <1>4 DEF PassRow, AddConfirmed, MustAdd, Confirm
  <2> QED BY <1>0, <2>1 DEF Outcome
<1>5. CASE Reconcile \/ ReconcileFails
  <2>1. pc = "reconcile" /\ \E s : outcomes' = [outcomes EXCEPT ![row].status = s]
    BY <1>5 DEF Reconcile, ReconcileFails, Confirm
  <2>2. outcomes[row].status = "MATCHED"
    BY <2>1, ReconcileRowLemma
  <2> QED BY <1>0, <2>1, <2>2 DEF Outcome
<1> QED BY <1>1, <1>2, <1>3, <1>4, <1>5 DEF Next, EngineStep

(* A fresh outcome knows its key, and whether an earlier row has it.       *)
LEMMA FreshSourceLemma ==
    ASSUME keys \in [Rows -> Keys], NEW r \in Rows
    PROVE  /\ FreshOutcomes[r].key = keys[r]
           /\ FreshOutcomes[r].dup = TRUE <=> \E q \in Rows : q < r /\ keys[q] = keys[r]
<1> DEFINE marked == MarkSourceDuplicates(keys)
           none == ""
<1>1. marked[r] = (\E q \in Rows : q < r /\ keys[q] = keys[r])
  BY DEF MarkSourceDuplicates
<1> HIDE DEF marked, none
<1>2. FreshOutcomes[r] = [key |-> keys[r], dup |-> marked[r], status |-> none, chosen |-> NoTrack]
  BY Zenon DEF FreshOutcomes, marked, none
<1>3. FreshOutcomes[r].key = keys[r] /\ FreshOutcomes[r].dup = marked[r]
  BY <1>2
<1> QED BY <1>1, <1>3, Zenon

(* BuildPlan row by row.                                                   *)
LEMMA PlannedRowStatusLemma ==
    ASSUME NEW rows \in [Rows -> Outcome], NEW existing, NEW r \in Rows
    PROVE  /\ BuildPlan(rows, existing)[r].key = rows[r].key
           /\ BuildPlan(rows, existing)[r].dup = Repeated(rows, r)
           /\ BuildPlan(rows, existing)[r].status = PlanStatus(rows, existing, r)
<1> DEFINE again == Repeated(rows, r)
           verdict == PlanStatus(rows, existing, r)
<1>1. r \in DOMAIN rows /\ rows[r] \in Outcome
  OBVIOUS
<1>2. BuildPlan(rows, existing)[r] = [rows[r] EXCEPT !.dup = again, !.status = verdict]
  BY <1>1, Zenon DEF BuildPlan
<1> HIDE DEF again, verdict
<1>3. /\ BuildPlan(rows, existing)[r].key = rows[r].key
      /\ BuildPlan(rows, existing)[r].dup = again
      /\ BuildPlan(rows, existing)[r].status = verdict
  BY <1>1, <1>2 DEF Outcome
<1> QED BY <1>3 DEF again, verdict

LEMMA SourceStepLemma == IInv /\ SourceInv /\ [Next]_vars => SourceInv'
<1> SUFFICES ASSUME IInv, SourceInv, [Next]_vars PROVE SourceInv'
  OBVIOUS
<1>0. /\ outcomes \in [Rows -> Outcome] /\ keys \in [Rows -> Keys] /\ keys' = keys
      /\ row \in 1..(N + 1)
  BY DEF IInv, TypeOK, Next, EngineStep, Start, LoadTarget, LoadFails, Match, RepeatedRow,
         SearchFails, NoMatch, HighMatch, AmbiguousMatch, Settle, MakePlan, CreateTarget,
         CreateFails, PassRow, AddConfirmed, AddUncertain, Reconcile, ReconcileFails, Finish,
         Interrupt, Crash, ApplyLate, ForeignAdd, inputVars, vars
<1> SUFFICES ASSUME NEW r \in Rows
             PROVE  /\ outcomes'[r].key = keys[r]
                    /\ outcomes'[r].dup = TRUE <=> \E q \in Rows : q < r /\ keys[q] = keys[r]
                    /\ pc' = "match" /\ r < row' /\ outcomes'[r].dup = TRUE
                          => outcomes'[r].status = "INPUT_DUPLICATE"
  BY <1>0, Zenon DEF SourceInv
<1>1. CASE Start
  <2>1. outcomes' = FreshOutcomes /\ row' = 1
    BY <1>1 DEF Start
  <2>2. ~(r < row')
    BY <2>1, RowLemma
  <2> QED BY <1>0, <2>1, <2>2, FreshSourceLemma
<1>2. CASE MakePlan
  <2>1. outcomes' = BuildPlan(outcomes, existingIDs) /\ pc' # "match"
    BY <1>2 DEF MakePlan
  <2>2. outcomes'[r].key = outcomes[r].key /\ outcomes'[r].dup = Repeated(outcomes, r)
    BY <1>0, <2>1, PlannedRowStatusLemma
  <2>3. Repeated(outcomes, r) <=>
            outcomes[r].dup \/ \E q \in Rows : q < r /\ outcomes[q].key = outcomes[r].key
    BY <1>0 DEF Repeated
  <2>4. outcomes[r].dup \in BOOLEAN
    BY <1>0 DEF Outcome
  <2>5. Repeated(outcomes, r) <=> \E q \in Rows : q < r /\ keys[q] = keys[r]
    BY <2>3, <2>4, Zenon DEF SourceInv
  <2> QED BY <2>1, <2>2, <2>5, Zenon DEF SourceInv
<1>3. CASE Match
  <2>1. /\ row \in Rows /\ pc = "match" /\ row' = row + 1
        /\ outcomes[row].dup = TRUE => outcomes'[row].status = "INPUT_DUPLICATE"
    BY <1>0, <1>3 DEF Match, RepeatedRow, SearchFails, NoMatch, HighMatch, AmbiguousMatch,
                      Settle, AtRow, Outcome
  <2>2. /\ outcomes'[r].key = outcomes[r].key /\ outcomes'[r].dup = outcomes[r].dup
        /\ r # row => outcomes'[r] = outcomes[r]
    <3>1. \E s, c : outcomes' = [outcomes EXCEPT ![row].status = s, ![row].chosen = c]
      BY <1>3, Zenon DEF Match, RepeatedRow, SearchFails, NoMatch, HighMatch, AmbiguousMatch,
                         Settle
    <3> QED BY <1>0, <3>1 DEF Outcome
  <2>3. r < row' <=> r < row \/ r = row
    BY <2>1, RowLemma
  <2> QED BY <2>1, <2>2, <2>3 DEF SourceInv
<1>4. CASE ~Start /\ ~MakePlan /\ ~Match
  <2>1. outcomes'[r].key = outcomes[r].key /\ outcomes'[r].dup = outcomes[r].dup
    BY <1>4, VerdictLemma
  <2>2. CASE pc' = "match"
    <3>1. \/ pc = "load" /\ outcomes' = outcomes /\ row' = row
          \/ pc = "match" /\ outcomes' = outcomes /\ row' = row
      BY <1>4, <2>2 DEF Next, EngineStep, LoadTarget, LoadFails, CreateTarget, CreateFails,
         PassRow, MustAdd, AddConfirmed, AddUncertain, Reconcile, ReconcileFails, Finish,
         Interrupt, Crash, ApplyLate, ForeignAdd, vars
    <3>2. pc = "load" => row = 1
      BY Zenon DEF IInv, MatchingInv
    <3> QED BY <2>1, <3>1, <3>2, RowLemma DEF SourceInv
  <2> QED BY <2>1, <2>2 DEF SourceInv
<1> QED BY <1>1, <1>2, <1>3, <1>4

LEMMA SourceLemma == Spec => []SourceInv
<1>1. Init => SourceInv
  <2> SUFFICES ASSUME Init, NEW r \in Rows
               PROVE  /\ outcomes[r].key = keys[r]
                      /\ outcomes[r].dup = TRUE <=> \E q \in Rows : q < r /\ keys[q] = keys[r]
                      /\ pc # "match"
    BY Zenon DEF SourceInv
  <2>1. outcomes = FreshOutcomes /\ keys \in [Rows -> Keys] /\ pc = "idle"
    BY DEF Init
  <2> QED BY <2>1, FreshSourceLemma
<1>2. Spec => []IInv
  BY InvariantLemma
<1>3. IInv /\ SourceInv /\ [Next]_vars => SourceInv'
  BY SourceStepLemma
<1> QED BY <1>1, <1>2, <1>3, PTL DEF Spec

(* The row has a verdict that the second loop will not replace.            *)
Settled(r) == outcomes[r].status \notin {"", "MATCHED"}

(* Each row is independent: a verdict of Engine.Run, once given, survives  *)
(* the plan, and whatever happens to the rows after it and to the target.  *)
THEOREM SettledRowsStaySettled == Spec => VerdictsAreFinal
<1> DEFINE A == run' = run =>
        \A r \in Rows : outcomes[r].status \notin {"", "MATCHED"} =>
            outcomes'[r].status = outcomes[r].status
<1>1. IInv /\ SourceInv /\ [Next]_vars => [A]_vars
  <2> SUFFICES ASSUME IInv, SourceInv, [Next]_vars, run' = run, NEW r \in Rows,
                      Settled(r)
               PROVE  outcomes'[r].status = outcomes[r].status
    BY Zenon DEF Settled
  <2>0. outcomes \in [Rows -> Outcome] /\ run \in Nat
    BY DEF IInv, TypeOK
  <2>1. ~Start
    <3>1. Start => run' = run + 1
      BY DEF Start
    <3>2. run + 1 # run
      BY <2>0
    <3> QED BY <3>1, <3>2
  <2>2. CASE Match
    <3>1. ~(row < row) /\ row \in Rows /\ row # N + 1 /\ pc = "match"
      BY <2>2, RowLemma DEF Match, RepeatedRow, SearchFails, NoMatch, HighMatch, AmbiguousMatch,
                            AtRow
    <3>2. outcomes[row].status = ""
      BY <3>1, Zenon DEF IInv, MatchingInv
    <3>3. r # row /\ ~MakePlan
      BY <2>0, <2>2, <3>1, <3>2, Zenon DEF Settled, MakePlan
    <3> QED BY <2>1, <3>3, VerdictLemma, Zenon DEF Settled
  <2>3. CASE MakePlan
    <3>1. pc = "match" /\ row = N + 1 /\ outcomes' = BuildPlan(outcomes, existingIDs)
      BY <2>3 DEF MakePlan
    <3>2. r < row
      BY <3>1, RowLemma
    <3>3. /\ outcomes[r].status \in Verdicts \ {"MATCHED"}
          /\ outcomes[r].status = "INPUT_DUPLICATE" => outcomes[r].dup = TRUE
      BY <3>1, <3>2, Zenon DEF Settled, IInv, MatchingInv, Judged
    <3>4. /\ outcomes[r].dup = TRUE => outcomes[r].status = "INPUT_DUPLICATE"
          /\ Repeated(outcomes, r) => outcomes[r].dup = TRUE
      BY <2>0, <3>1, <3>2 DEF SourceInv, Repeated, Outcome
    <3>5. outcomes'[r].status = PlanStatus(outcomes, existingIDs, r)
      BY <2>0, <3>1, PlannedRowStatusLemma
    <3>6. CASE Repeated(outcomes, r)
      <4>1. PlanStatus(outcomes, existingIDs, r) = "INPUT_DUPLICATE"
        BY <3>6 DEF PlanStatus, Eligible, InPlay
      <4> QED BY <3>4, <3>5, <3>6, <4>1
    <3>7. CASE ~Repeated(outcomes, r)
      <4>1. outcomes[r].status \in Unresolved
        BY <3>3, <3>7 DEF Repeated, Unresolved, Verdicts
      <4>2. ~InPlay(outcomes, r)
        BY <4>1 DEF InPlay
      <4>3. PlanStatus(outcomes, existingIDs, r) = outcomes[r].status
        BY <3>7, <4>2 DEF PlanStatus, Eligible
      <4> QED BY <3>5, <4>3
    <3> QED BY <3>6, <3>7
  <2>4. CASE ~MakePlan /\ ~Match
    BY <2>1, <2>4, VerdictLemma, Zenon DEF Settled
  <2> QED BY <2>2, <2>3, <2>4
<1> QED BY <1>1, InvariantLemma, SourceLemma, PTL DEF Spec, VerdictsAreFinal

-----------------------------------------------------------------------------
(* The engine implements ImportContract, step by step.                     *)

Asked == {t \in Tracks : posts[t] > 0}
Claimed == {outcomes[r].chosen : r \in {q \in Rows : outcomes[q].status = "ADDED"}}

contractVars == <<lists, target, snapshot, Asked, Claimed>>

LEMMA ClaimedLemma ==
    /\ (\A r \in Rows : /\ outcomes'[r].status = "ADDED" <=> outcomes[r].status = "ADDED"
                        /\ outcomes'[r].chosen = outcomes[r].chosen)
          => Claimed' = Claimed
    /\ (\A r \in Rows : outcomes[r].status # "ADDED") => Claimed = {}
    /\ (\A r \in Rows : outcomes'[r].status # "ADDED") => Claimed' = {}
BY DEF Claimed

(* The row in hand is reported as added, its track asked for before.       *)
LEMMA ConfirmLemma ==
    ASSUME outcomes \in [Rows -> Outcome], row \in Rows,
           outcomes' = [outcomes EXCEPT ![row].status = "ADDED"]
    PROVE  Claimed' = Claimed \cup {Chosen}
<1>1. ASSUME NEW r \in Rows
      PROVE  /\ outcomes'[r].chosen = outcomes[r].chosen
             /\ outcomes'[r].status = "ADDED" <=> outcomes[r].status = "ADDED" \/ r = row
  BY DEF Outcome
<1> QED BY <1>1 DEF Claimed, Chosen

(* Steps that only move inside the run, and verdicts that are no claims.   *)
LEMMA SilentLemma ==
    ASSUME IInv, CopyInv,
           \/ LoadFails \/ Match \/ MakePlan \/ PassRow \/ ReconcileFails \/ Finish
           \/ Interrupt \/ Crash \/ UNCHANGED vars
    PROVE  UNCHANGED contractVars
<1>0. outcomes \in [Rows -> Outcome]
  BY DEF IInv, TypeOK
<1>1. UNCHANGED <<lists, target, snapshot, posts>>
  BY DEF LoadFails, Match, RepeatedRow, SearchFails, NoMatch, HighMatch, AmbiguousMatch, Settle,
         MakePlan, PassRow, ReconcileFails, Finish, Interrupt, Crash, beatportVars, localVars, vars
<1>2. Claimed' = Claimed
  <2>1. CASE LoadFails \/ Finish \/ Interrupt \/ Crash \/ UNCHANGED vars
    BY <2>1, ClaimedLemma DEF LoadFails, Finish, Interrupt, Crash, vars
  <2>2. CASE Match \/ MakePlan
    <3>1. pc = "match"
      BY <2>2 DEF MakePlan, Match, RepeatedRow, SearchFails, NoMatch, HighMatch, AmbiguousMatch,
                  AtRow
    <3>2. \A r \in Rows : outcomes[r].status # "ADDED"
      <4>1. plan = {}
        BY <3>1, Zenon DEF IInv, MatchingInv
      <4> QED BY <4>1 DEF CopyInv, PlannedInv
    <3>3. \A r \in Rows : outcomes'[r].status # "ADDED"
      <4>1. CASE MakePlan
        BY <4>1, NothingAddedLemma
      <4>2. CASE Match
        <5>1. \E s \in {"INPUT_DUPLICATE", "FAILED", "NOT_FOUND", "MATCHED", "SKIPPED",
                        "AMBIGUOUS"} :
                 \E c : outcomes' = [outcomes EXCEPT ![row].status = s, ![row].chosen = c]
          BY <4>2, Zenon DEF Match, RepeatedRow, SearchFails, NoMatch, HighMatch,
                             AmbiguousMatch, Settle
        <5> QED BY <1>0, <3>2, <5>1 DEF Outcome
      <4> QED BY <2>2, <4>1, <4>2
    <3> QED BY <3>2, <3>3, ClaimedLemma
  <2>3. CASE PassRow \/ ReconcileFails
    <3>1. \/ outcomes' = outcomes
          \/ /\ outcomes[row].status = "MATCHED"
             /\ \E s \in {"ALREADY_EXISTS", "FAILED"} :
                   outcomes' = [outcomes EXCEPT ![row].status = s]
      <4>1. CASE PassRow
        BY <4>1 DEF PassRow
      <4>2. CASE ReconcileFails
        <5>1. pc = "reconcile" /\ outcomes' = [outcomes EXCEPT ![row].status = "FAILED"]
          BY <4>2 DEF ReconcileFails
        <5> QED BY <5>1, ReconcileRowLemma
      <4> QED BY <2>3, <4>1, <4>2
    <3>2. \A r \in Rows : /\ outcomes'[r].status = "ADDED" <=> outcomes[r].status = "ADDED"
                          /\ outcomes'[r].chosen = outcomes[r].chosen
      BY <1>0, <3>1 DEF Outcome
    <3> QED BY <3>2, ClaimedLemma
  <2> QED BY <2>1, <2>2, <2>3
<1> QED BY <1>1, <1>2 DEF contractVars, Asked

LEMMA ContractStepLemma ==
    IInv /\ CopyInv /\ [Next]_vars => [Contract!Next]_(Contract!vars)
<1> SUFFICES ASSUME IInv, CopyInv, [Next]_vars
             PROVE  Contract!Next \/ UNCHANGED contractVars
  BY DEF Contract!vars, contractVars, Asked, Claimed
<1>0. /\ TypeOK /\ outcomes \in [Rows -> Outcome] /\ lists \in Seq(Seq(Tracks))
      /\ posts \in [Tracks -> Nat] /\ target \in {0} \cup DOMAIN lists
  BY DEF IInv, TypeOK
<1>1. CASE Start
  <2>1. /\ target' \in {0} \cup DOMAIN lists /\ snapshot' = {} /\ lists' = lists
        /\ outcomes' = FreshOutcomes /\ posts' = [t \in Tracks |-> 0]
    BY <1>1 DEF Start, beatportVars
  <2>2. Asked' = {}
    BY <2>1 DEF Asked
  <2>3. Claimed' = {}
    BY <2>1, NothingAddedLemma, ClaimedLemma
  <2>4. Contract!Begin
    BY <2>1, <2>2, <2>3 DEF Contract!Begin, Asked, Claimed
  <2> QED BY <2>4 DEF Contract!Next
<1>2. CASE LoadTarget
  <2>1. /\ pc = "load" /\ UNCHANGED <<lists, target, outcomes, posts>>
        /\ snapshot' = ExistingTrackIDs(lists[target])
    BY <1>2 DEF LoadTarget, beatportVars
  <2>2. target \in DOMAIN lists /\ target # 0 /\ lists[target] \in Seq(Tracks)
    BY <1>0, <2>1, NewListLemma DEF TypeOK
  <2>3. snapshot' = Contract!Contents(lists[target])
    BY <2>1, <2>2 DEF ExistingTrackIDs, Contract!Contents
  <2>4. Asked = {}
    <3>1. \A t \in Tracks : posts[t] = 0
      BY <2>1, Zenon DEF IInv, MatchingInv
    <3> QED BY <3>1 DEF Asked
  <2>5. Contract!Look
    BY <2>1, <2>2, <2>3, <2>4 DEF Contract!Look, Asked, Claimed
  <2> QED BY <2>5 DEF Contract!Next
<1>3. CASE CreateTarget \/ CreateFails
  <2>1. target = 0 /\ UNCHANGED <<snapshot, posts>>
    <3>1. pc = "create"
      BY <1>3 DEF CreateTarget, CreateFails
    <3>2. target = 0
      BY <3>1, Zenon DEF IInv, AddingInv
    <3> QED BY <1>3, <3>2 DEF CreateTarget, CreateFails, localVars
  <2>2. Claimed' = Claimed
    <3>1. CASE CreateTarget
      BY <3>1 DEF CreateTarget, Claimed
    <3>2. CASE CreateFails
      <4>1. ASSUME NEW r \in Rows
            PROVE  /\ outcomes'[r].status = "ADDED" <=> outcomes[r].status = "ADDED"
                   /\ outcomes'[r].chosen = outcomes[r].chosen
        BY <1>0, <3>2 DEF CreateFails, Outcome
      <4> QED BY <4>1, ClaimedLemma
    <3> QED BY <1>3, <3>1, <3>2
  <2>3. \/ lists' = lists /\ target' = target
        \/ lists' = Append(lists, <<>>) /\ target' \in {0, Len(lists) + 1}
    BY <1>3, <2>1 DEF CreateTarget, CreateFails, localVars
  <2>4. CASE lists' = lists /\ target' = target
    BY <2>1, <2>2, <2>4 DEF contractVars, Asked
  <2>5. CASE lists' = Append(lists, <<>>) /\ target' \in {0, Len(lists) + 1}
    <3>1. Contract!Create
      BY <2>1, <2>2, <2>5 DEF Contract!Create, Asked, Claimed
    <3> QED BY <3>1 DEF Contract!Next
  <2> QED BY <2>3, <2>4, <2>5
<1>4. CASE AddConfirmed \/ AddUncertain
  <2>1. /\ MustAdd /\ posts' = [posts EXCEPT ![Chosen] = @ + 1]
        /\ UNCHANGED <<target, snapshot>>
    BY <1>4 DEF AddConfirmed, AddUncertain, localVars
  <2>2. /\ Chosen \in Tracks /\ posts[Chosen] = 0 /\ Chosen \notin snapshot
        /\ target # 0 /\ row \in Rows
    BY <1>0, <2>1, PlannedRowLemma, NewListLemma DEF MustAdd, TypeOK
  <2>3. Asked' = Asked \cup {Chosen} /\ Chosen \notin Asked
    BY <1>0, <2>1, <2>2 DEF Asked
  <2>4. \/ lists' = lists /\ Claimed' = Claimed
        \/ /\ lists' = [lists EXCEPT ![target] = Append(@, Chosen)]
           /\ Claimed' \in {Claimed, Claimed \cup {Chosen}}
    <3>1. CASE AddConfirmed
      BY <1>0, <2>2, <3>1, ConfirmLemma DEF AddConfirmed, Confirm
    <3>2. CASE AddUncertain
      <4>1. Claimed' = Claimed
        BY <3>2 DEF AddUncertain, Claimed
      <4> QED BY <3>2, <4>1 DEF AddUncertain
    <3> QED BY <1>4, <3>1, <3>2
  <2>5. PICK t \in Tracks : t = Chosen
    BY <2>2
  <2>6. Contract!Ask(t)
    BY <2>1, <2>2, <2>3, <2>4, <2>5 DEF Contract!Ask, Asked, Claimed
  <2> QED BY <2>6 DEF Contract!Next
<1>5. CASE Reconcile
  <2>1. pc = "reconcile" /\ UNCHANGED <<lists, target, snapshot, posts>>
    BY <1>5 DEF Reconcile, beatportVars
  <2>2. /\ row \in Rows /\ row \in plan /\ outcomes[row].status = "MATCHED"
        /\ Chosen \in Tracks /\ posts[Chosen] = 1
    BY <2>1, ReconcileRowLemma
  <2>3. CASE Chosen \in ExistingTrackIDs(lists[target])
    <3>1. Claimed' = Claimed \cup {Chosen}
      BY <1>0, <1>5, <2>2, <2>3, ConfirmLemma DEF Reconcile, Confirm
    <3>2. Chosen \in Asked /\ Chosen \in Contract!Contents(lists[target])
      BY <2>2, <2>3 DEF Asked, ExistingTrackIDs, Contract!Contents
    <3>3. PICK t \in Tracks : t = Chosen
      BY <2>2
    <3>4. Contract!Claim(t)
      BY <2>1, <3>1, <3>2, <3>3 DEF Contract!Claim, Asked, Claimed
    <3> QED BY <3>4 DEF Contract!Next
  <2>4. CASE Chosen \notin ExistingTrackIDs(lists[target])
    <3>1. outcomes' = [outcomes EXCEPT ![row].status = "FAILED"]
      BY <1>5, <2>4 DEF Reconcile
    <3>2. \A r \in Rows : /\ outcomes'[r].status = "ADDED" <=> outcomes[r].status = "ADDED"
                          /\ outcomes'[r].chosen = outcomes[r].chosen
      BY <1>0, <2>2, <3>1 DEF Outcome
    <3> QED BY <2>1, <3>2, ClaimedLemma DEF contractVars, Asked
  <2> QED BY <2>3, <2>4
<1>6. CASE ApplyLate \/ ForeignAdd
  <2>1. \E l \in DOMAIN lists, t \in Tracks : lists' = [lists EXCEPT ![l] = Append(@, t)]
    BY <1>0, <1>6 DEF ApplyLate, ForeignAdd, TypeOK
  <2>2. UNCHANGED <<target, snapshot, posts, outcomes>>
    BY <1>6 DEF ApplyLate, ForeignAdd, localVars
  <2>3. Contract!Grow
    BY <2>1, <2>2 DEF Contract!Grow
  <2> QED BY <2>3 DEF Contract!Next
<1>7. CASE \/ LoadFails \/ Match \/ MakePlan \/ PassRow \/ ReconcileFails \/ Finish
           \/ Interrupt \/ Crash \/ UNCHANGED vars
  BY <1>7, SilentLemma
<1> QED BY <1>1, <1>2, <1>3, <1>4, <1>5, <1>6, <1>7 DEF Next, EngineStep

(* Engine.Run against Beatport implements the contract of an import: the   *)
(* account's playlists are only appended to, a run asks for a track at     *)
(* most once and never for one it found, and claims to have added only     *)
(* what it asked for and the target holds.                                 *)
THEOREM EngineKeepsContract == Spec => KeepsContract
<1>1. Init => Contract!Init
  <2> SUFFICES ASSUME Init PROVE Contract!Init
    OBVIOUS
  <2>1. /\ lists \in {<<c>> : c \in InitialContents} /\ target = 0 /\ snapshot = {}
        /\ outcomes = FreshOutcomes /\ posts = [t \in Tracks |-> 0]
    BY DEF Init
  <2>2. Asked = {} /\ Claimed = {}
    BY <2>1, InitLemma, NothingAddedLemma, ClaimedLemma DEF Asked
  <2> QED BY <2>1, <2>2 DEF Contract!Init, Asked, Claimed
<1>2. IInv /\ CopyInv /\ [Next]_vars => [Contract!Next]_(Contract!vars)
  BY ContractStepLemma
<1> QED
  BY <1>1, <1>2, InvariantLemma, CopyInvariantLemma, PTL DEF Spec, KeepsContract, Contract!Spec

-----------------------------------------------------------------------------
(* How long a run can take.                                                *)

(* An upper bound on the steps that Engine.Run still has to take: two for  *)
(* each row of the second loop, one for each row of the first, and one     *)
(* each to load, to plan, to create and to return.                         *)
StepsLeft ==
    CASE pc = "load"      -> 3 * N + 4
      [] pc = "match"     -> 3 * N + 4 - row
      [] pc = "create"    -> 2 * N + 2
      [] pc = "add"       -> 2 * (N + 1 - row) + 1
      [] pc = "reconcile" -> 2 * (N + 1 - row)
      [] OTHER            -> 0

(* A run takes 3N + 4 steps at most: each step of the engine leaves fewer, *)
(* and nothing that others do in the course of it leaves more.             *)
RunIsShort ==
    /\ [](StepsLeft \in 0..(3 * N + 4))
    /\ [][/\ EngineStep => StepsLeft' < StepsLeft
          /\ run' = run => StepsLeft' <= StepsLeft]_vars

LEMMA StepsLeftIsANumber == TypeOK => StepsLeft \in 0..(3 * N + 4)
<1> SUFFICES ASSUME TypeOK PROVE StepsLeft \in 0..(3 * N + 4)
  OBVIOUS
<1>1. N \in Nat /\ row \in 1..(N + 1) /\ (pc = "reconcile" => row \in 1..N)
  BY NAssumption DEF TypeOK, Rows
<1>2. /\ 3 * N + 4 \in 0..(3 * N + 4)
      /\ 3 * N + 4 - row \in 0..(3 * N + 4)
      /\ 2 * N + 2 \in 0..(3 * N + 4)
      /\ 2 * (N + 1 - row) + 1 \in 0..(3 * N + 4)
      /\ 2 * (N + 1 - row) \in 0..(3 * N + 4)
      /\ 0 \in 0..(3 * N + 4)
  BY <1>1
<1> QED BY <1>2 DEF StepsLeft

LEMMA EngineStepCounts == TypeOK /\ EngineStep => StepsLeft' < StepsLeft
<1> SUFFICES ASSUME TypeOK, EngineStep PROVE StepsLeft' < StepsLeft
  OBVIOUS
<1>1. N \in Nat /\ row \in 1..(N + 1) /\ (pc = "reconcile" => row \in 1..N)
  BY NAssumption DEF TypeOK, Rows
<1>2. CASE LoadTarget \/ LoadFails
  BY <1>1, <1>2 DEF LoadTarget, LoadFails, StepsLeft
<1>3. CASE Match
  <2>1. pc = "match" /\ pc' = pc /\ row' = row + 1
    BY <1>3 DEF Match, RepeatedRow, SearchFails, NoMatch, HighMatch, AmbiguousMatch,
                AtRow, Settle
  <2>2. StepsLeft = 3 * N + 4 - row /\ StepsLeft' = 3 * N + 4 - row'
    BY <2>1 DEF StepsLeft
  <2> QED BY <1>1, <2>1, <2>2
<1>4. CASE MakePlan
  <2>1. pc = "match" /\ row = N + 1 /\ row' = 1 /\ pc' \in {"done", "create", "add"}
    BY <1>4 DEF MakePlan
  <2>2. StepsLeft = 3 * N + 4 - row
    BY <2>1 DEF StepsLeft
  <2>3. StepsLeft' \in {0, 2 * N + 2, 2 * (N + 1 - row') + 1}
    BY <2>1 DEF StepsLeft
  <2> QED BY <1>1, <2>1, <2>2, <2>3
<1>5. CASE CreateTarget \/ CreateFails
  <2>1. pc = "create" /\ pc' \in {"done", "add"} /\ row' = row
    BY <1>5 DEF CreateTarget, CreateFails
  <2>2. StepsLeft = 2 * N + 2 /\ StepsLeft' \in {0, 2 * (N + 1 - row') + 1}
    BY <2>1 DEF StepsLeft
  <2> QED BY <1>1, <2>1, <2>2
<1>6. CASE PassRow \/ AddConfirmed
  <2>1. pc = "add" /\ pc' = pc /\ row' = row + 1
    BY <1>6 DEF PassRow, AddConfirmed, MustAdd
  <2>2. StepsLeft = 2 * (N + 1 - row) + 1 /\ StepsLeft' = 2 * (N + 1 - row') + 1
    BY <2>1 DEF StepsLeft
  <2> QED BY <1>1, <2>1, <2>2
<1>7. CASE AddUncertain
  <2>1. pc = "add" /\ pc' = "reconcile" /\ row' = row
    BY <1>7 DEF AddUncertain, MustAdd
  <2>2. StepsLeft = 2 * (N + 1 - row) + 1 /\ StepsLeft' = 2 * (N + 1 - row')
    BY <2>1 DEF StepsLeft
  <2> QED BY <1>1, <2>1, <2>2
<1>8. CASE Reconcile \/ ReconcileFails
  <2>1. pc = "reconcile" /\ pc' = "add" /\ row' = row + 1
    BY <1>8 DEF Reconcile, ReconcileFails
  <2>2. StepsLeft = 2 * (N + 1 - row) /\ StepsLeft' = 2 * (N + 1 - row') + 1
    BY <2>1 DEF StepsLeft
  <2> QED BY <1>1, <2>1, <2>2
<1>9. CASE Finish
  <2>1. pc = "add" /\ pc' = "done"
    BY <1>9 DEF Finish
  <2>2. StepsLeft = 2 * (N + 1 - row) + 1 /\ StepsLeft' = 0
    BY <2>1 DEF StepsLeft
  <2> QED BY <1>1, <2>2
<1> QED
  BY <1>2, <1>3, <1>4, <1>5, <1>6, <1>7, <1>8, <1>9 DEF EngineStep

LEMMA OthersDoNotPutOff == TypeOK /\ [Next]_vars /\ run' = run => StepsLeft' <= StepsLeft
<1> SUFFICES ASSUME TypeOK, [Next]_vars, run' = run PROVE StepsLeft' <= StepsLeft
  OBVIOUS
<1>1. StepsLeft \in Nat
  BY StepsLeftIsANumber, NAssumption
<1>2. CASE EngineStep
  <2>1. StepsLeft' < StepsLeft
    BY <1>2, EngineStepCounts
  <2>2. StepsLeft' \in Int
    <3>1. N \in Int /\ row \in Int
      BY NAssumption DEF TypeOK
    <3>2. row' \in {row, row + 1, 1}
      BY <1>2 DEF EngineStep, LoadTarget, LoadFails, Match, RepeatedRow, SearchFails,
         NoMatch, HighMatch, AmbiguousMatch, Settle, MakePlan, CreateTarget, CreateFails,
         PassRow, AddConfirmed, AddUncertain, Reconcile, ReconcileFails, Finish
    <3> QED BY <3>1, <3>2 DEF StepsLeft
  <2> QED BY <1>1, <2>1, <2>2
<1>3. CASE Start
  <2>1. run \in Int /\ run' = run + 1
    BY <1>3, BoundAssumption DEF Start, TypeOK
  <2> QED BY <2>1
<1>4. CASE Crash
  BY <1>1, <1>4 DEF Crash, StepsLeft
<1>5. CASE Interrupt \/ ApplyLate \/ ForeignAdd \/ UNCHANGED vars
  <2>1. pc' = pc /\ row' = row
    BY <1>5 DEF Interrupt, ApplyLate, ForeignAdd, vars
  <2>2. StepsLeft' = StepsLeft
    BY <2>1 DEF StepsLeft
  <2> QED BY <1>1, <2>2
<1> QED BY <1>2, <1>3, <1>4, <1>5 DEF Next

(* Engine.Run gives every call one try and never goes back: it ends after  *)
(* 3N + 4 steps at most, however many searches, additions and re-reads of  *)
(* them fail.                                                              *)
THEOREM RunsAreShort == Spec => RunIsShort
<1>1. IInv => TypeOK
  BY DEF IInv
<1>2. TypeOK => StepsLeft \in 0..(3 * N + 4)
  BY StepsLeftIsANumber
<1> DEFINE A == /\ EngineStep => StepsLeft' < StepsLeft
                /\ run' = run => StepsLeft' <= StepsLeft
<1>3. TypeOK /\ [Next]_vars => [A]_vars
  BY EngineStepCounts, OthersDoNotPutOff
<1> QED BY <1>1, <1>2, <1>3, InvariantLemma, PTL DEF Spec, RunIsShort

=============================================================================
