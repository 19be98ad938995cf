---------------------------- MODULE PlaylistPlan ----------------------------
(***************************************************************************)
(* What the planning helpers of internal/playlist compute, stated without  *)
(* their loops: which rows of a source are duplicates, which Beatport      *)
(* tracks a run may append, and the verdict every row ends the plan with.  *)
(*                                                                         *)
(* A source row is reduced to its identity key (matcher.SourceKey), a      *)
(* Beatport track to its ID.                                               *)
(***************************************************************************)
EXTENDS Naturals, Sequences

CONSTANTS
    Keys,      \* source identities: rows with the same key are the same song
    Tracks,    \* valid (positive) Beatport track IDs
    NoTrack,   \* Chosen = nil
    BadTrack   \* an ID that is zero or negative

ASSUME TrackAssumption ==
    /\ NoTrack \notin Tracks
    /\ BadTrack \notin Tracks
    /\ NoTrack # BadTrack

(* The outcome statuses of internal/model; "" is Go's zero value.          *)
Status == {"", "MATCHED", "ADDED", "ALREADY_EXISTS", "INPUT_DUPLICATE",
           "AMBIGUOUS", "NOT_FOUND", "SKIPPED", "FAILED"}

(* A TrackOutcome: key and dup stand for Input, the rest for the verdict.  *)
Outcome == [key    : Keys,
            dup    : BOOLEAN,
            status : Status,
            chosen : Tracks \cup {NoTrack, BadTrack}]

(* Statuses that are never turned into an addition.                        *)
Unresolved == {"AMBIGUOUS", "NOT_FOUND", "SKIPPED", "FAILED"}

-----------------------------------------------------------------------------

(* Every occurrence of a key after the first is marked.                    *)
MarkSourceDuplicates(keys) ==
    [i \in DOMAIN keys |-> \E j \in DOMAIN keys : j < i /\ keys[j] = keys[i]]

(* The membership set of a fetched playlist: invalid IDs are ignored.      *)
ExistingTrackIDs(items) ==
    {items[i] : i \in DOMAIN items} \cap Tracks

Repeated(rows, i) ==
    \/ rows[i].dup
    \/ \E j \in DOMAIN rows : j < i /\ rows[j].key = rows[i].key

(* Row i is a first occurrence with a chosen candidate still in play.      *)
InPlay(rows, i) ==
    /\ ~Repeated(rows, i)
    /\ rows[i].status \notin Unresolved
    /\ rows[i].chosen # NoTrack

(* Row i reaches the append list unless an earlier row chose its track.    *)
Eligible(rows, existing, i) ==
    /\ InPlay(rows, i)
    /\ rows[i].chosen \in Tracks \ existing

(* An earlier row brings row i's track already.                            *)
ClaimedEarlier(rows, existing, i) ==
    \E j \in DOMAIN rows :
        j < i /\ Eligible(rows, existing, j) /\ rows[j].chosen = rows[i].chosen

(* The rows whose chosen track is appended: PlanResult.Tracks.             *)
PlannedRows(rows, existing) ==
    {i \in DOMAIN rows : /\ Eligible(rows, existing, i)
                         /\ ~ClaimedEarlier(rows, existing, i)}

(* A row that came without a status is matched once its track is planned.  *)
PlannedStatus(row) == IF row.status = "" THEN "MATCHED" ELSE row.status

(* The status row i leaves the plan with.                                  *)
PlanStatus(rows, existing, i) ==
    CASE Repeated(rows, i) -> "INPUT_DUPLICATE"
      [] ~Repeated(rows, i) /\ ~InPlay(rows, i) -> rows[i].status
      [] InPlay(rows, i) /\ rows[i].chosen \notin Tracks -> "FAILED"
      [] InPlay(rows, i) /\ rows[i].chosen \in existing \cap Tracks -> "ALREADY_EXISTS"
      [] Eligible(rows, existing, i) ->
            IF ClaimedEarlier(rows, existing, i) THEN "INPUT_DUPLICATE"
            ELSE PlannedStatus(rows[i])

BuildPlan(rows, existing) ==
    [i \in DOMAIN rows |->
        [rows[i] EXCEPT !.dup = Repeated(rows, i),
                        !.status = PlanStatus(rows, existing, i)]]

=============================================================================
