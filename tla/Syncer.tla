------------------------------- MODULE Syncer -------------------------------
(***************************************************************************)
(* The import engine (internal/syncer, Engine.Run) against a Beatport      *)
(* account: load the target's membership, give every source row a verdict, *)
(* plan, create the target when it is new, append the planned tracks one   *)
(* by one, and re-read the target when an append's response is an error.   *)
(*                                                                         *)
(* Beatport is outside the program: a POST may be lost, applied although   *)
(* its response is an error, or applied late; another client of the        *)
(* account may append too.  The process may be interrupted (its context is *)
(* cancelled), or killed, and the same source imported again.              *)
(***************************************************************************)
EXTENDS PlaylistPlan, FiniteSets

CONSTANTS
    N,                \* number of source rows
    InitialContents,  \* what the account's one playlist may hold at first
    MaxRuns,          \* bound: imports of the source
    MaxForeign        \* bound: appends by other clients

ASSUME NAssumption == N \in Nat \ {0}
ASSUME InitialAssumption == InitialContents \subseteq Seq(Tracks)
ASSUME BoundAssumption == MaxRuns \in Nat /\ MaxForeign \in Nat

Rows == 1..N

VARIABLES
    \* Beatport
    lists,        \* the account's playlists: sequences of track IDs, by playlist ID
    pending,      \* POSTs answered with an error that Beatport still will apply
    foreign,      \* how many tracks other clients appended
    \* the process
    pc,           \* "idle", "load", "match", "create", "add", "reconcile",
                  \* "done" (Run returned) or "crashed"
    keys,         \* the source: the same in every run
    request,      \* Request.Target and the options that matter
    target,       \* Result.Target.ID, 0 until the new playlist exists
    row,          \* the loop index
    outcomes,
    existingIDs,
    plan,         \* the rows of PlanResult.Tracks
    cancelled,    \* the context is done
    failure,      \* the error Run returns: "none", "load" or "create"
    \* history
    run,          \* number of runs started
    posts,        \* AddTracks calls of this run, per track
    snapshot,     \* the membership this run loaded
    overlap       \* a run loaded a target with a POST to it still pending

beatportVars == <<lists, pending, foreign>>
inputVars    == <<keys, request, run>>
localVars    == <<target, existingIDs, plan, snapshot, overlap>>
vars == <<beatportVars, pc, inputVars, localVars, row, outcomes, cancelled,
          failure, posts>>

Ambiguous == {"auto", "ask", "leave"}   \* --auto-ambiguous, resolver, neither

FreshOutcomes ==
    LET marked == MarkSourceDuplicates(keys)
    IN  [r \in Rows |-> [key |-> keys[r], dup |-> marked[r],
                         status |-> "", chosen |-> NoTrack]]

Init ==
    /\ lists \in {<<c>> : c \in InitialContents}
    /\ pending = {} /\ foreign = 0
    /\ pc = "idle"
    /\ keys \in [Rows -> Keys]
    /\ request = [target |-> 0, dry |-> FALSE, ambiguous |-> "leave"]
    /\ target = 0
    /\ row = 1
    /\ outcomes = FreshOutcomes
    /\ existingIDs = {} /\ snapshot = {} /\ plan = {}
    /\ cancelled = FALSE /\ failure = "none"
    /\ run = 0
    /\ posts = [t \in Tracks |-> 0]
    /\ overlap = FALSE

-----------------------------------------------------------------------------
(* A run begins: target 0 asks for a new playlist.                         *)

Start ==
    /\ pc \in {"idle", "done", "crashed"}
    /\ run < MaxRuns
    /\ run' = run + 1
    /\ \E chosen \in {0} \cup DOMAIN lists, dry \in BOOLEAN, ambiguous \in Ambiguous :
          /\ request' = [target |-> chosen, dry |-> dry, ambiguous |-> ambiguous]
          /\ target' = chosen
          /\ pc' = IF chosen = 0 THEN "match" ELSE "load"
    /\ row' = 1
    /\ outcomes' = FreshOutcomes
    /\ existingIDs' = {} /\ snapshot' = {} /\ plan' = {}
    /\ cancelled' = FALSE /\ failure' = "none"
    /\ posts' = [t \in Tracks |-> 0]
    /\ UNCHANGED <<beatportVars, keys, overlap>>

(* Mutant of LoadTarget: only the first item of the playlist is read.      *)
LoadTargetFirstItem ==
    /\ pc = "load" /\ ~cancelled
    /\ existingIDs' = {lists[target][k] : k \in DOMAIN lists[target] \cap {1}}
    /\ snapshot' = existingIDs'
    /\ overlap' = (overlap \/ \E p \in pending : p.list = target)
    /\ pc' = "match"
    /\ UNCHANGED <<beatportVars, inputVars, target, row, outcomes, plan,
                   cancelled, failure, posts>>

(* GetPlaylist, then every page of GetPlaylistTracks.                      *)
LoadTarget ==
    /\ pc = "load" /\ ~cancelled
    /\ existingIDs' = ExistingTrackIDs(lists[target])
    /\ snapshot' = existingIDs'
    /\ overlap' = (overlap \/ \E p \in pending : p.list = target)
    /\ pc' = "match"
    /\ UNCHANGED <<beatportVars, inputVars, target, row, outcomes, plan,
                   cancelled, failure, posts>>

LoadFails ==
    /\ pc = "load"
    /\ failure' = "load"
    /\ pc' = "done"
    /\ UNCHANGED <<beatportVars, inputVars, localVars, row, outcomes, cancelled, posts>>

-----------------------------------------------------------------------------
(* The first loop: one verdict per row.  A cancelled context does not stop *)
(* it: searches may still be answered by the cache.                        *)

AtRow(dup) == pc = "match" /\ row \in Rows /\ outcomes[row].dup = dup

Settle(status, chosen) ==
    /\ outcomes' = [outcomes EXCEPT ![row].status = status, ![row].chosen = chosen]
    /\ row' = row + 1
    /\ UNCHANGED <<beatportVars, pc, inputVars, localVars, cancelled, failure, posts>>

RepeatedRow == AtRow(TRUE) /\ Settle("INPUT_DUPLICATE", NoTrack)

SearchFails == AtRow(FALSE) /\ Settle("FAILED", NoTrack)

NoMatch == AtRow(FALSE) /\ Settle("NOT_FOUND", NoTrack)

HighMatch == AtRow(FALSE) /\ \E t \in Tracks : Settle("MATCHED", t)

(* The resolver may return a candidate of a search the user typed, whose   *)
(* results are not filtered by ID.                                         *)
AmbiguousMatch ==
    /\ AtRow(FALSE)
    /\ \/ /\ request.ambiguous = "auto"
          /\ \E t \in Tracks : Settle("MATCHED", t)
       \/ /\ request.ambiguous = "ask"
          /\ \/ Settle("FAILED", NoTrack)
             \/ Settle("SKIPPED", NoTrack)
             \/ \E t \in Tracks \cup {BadTrack} : Settle("MATCHED", t)
       \/ /\ request.ambiguous = "leave"
          /\ Settle("AMBIGUOUS", NoTrack)

Match == \/ RepeatedRow
         \/ SearchFails
         \/ NoMatch
         \/ HighMatch
         \/ AmbiguousMatch

(* Mutant of MakePlan: a dry run goes on to the mutations.                 *)
MakePlanIgnoresDryRun ==
    /\ pc = "match" /\ row = N + 1
    /\ outcomes' = BuildPlan(outcomes, existingIDs)
    /\ plan' = PlannedRows(outcomes, existingIDs)
    /\ pc' = IF plan' = {} THEN "done"
             ELSE IF request.target = 0 THEN "create" ELSE "add"
    /\ row' = 1
    /\ UNCHANGED <<beatportVars, inputVars, target, existingIDs, snapshot, overlap,
                   cancelled, failure, posts>>

(* BuildPlan, and the early returns after it.                              *)
MakePlan ==
    /\ pc = "match" /\ row = N + 1
    /\ outcomes' = BuildPlan(outcomes, existingIDs)
    /\ plan' = PlannedRows(outcomes, existingIDs)
    /\ pc' = IF request.dry \/ plan' = {} THEN "done"
             ELSE IF request.target = 0 THEN "create" ELSE "add"
    /\ row' = 1
    /\ UNCHANGED <<beatportVars, inputVars, target, existingIDs, snapshot, overlap,
                   cancelled, failure, posts>>

-----------------------------------------------------------------------------
(* Mutants: the created playlist's ID is not kept; a failed creation fails *)
(* every row, the ones that needed no addition too.                        *)

CreateTargetDropsID ==
    /\ pc = "create" /\ ~cancelled
    /\ lists' = Append(lists, <<>>)
    /\ pc' = "add"
    /\ UNCHANGED <<pending, foreign, inputVars, localVars, row, outcomes, cancelled,
                   failure, posts>>

CreateFailsEveryRow ==
    /\ pc = "create"
    /\ outcomes' = [r \in Rows |-> [outcomes[r] EXCEPT !.status = "FAILED"]]
    /\ failure' = "create"
    /\ pc' = "done"
    /\ UNCHANGED <<beatportVars, inputVars, localVars, row, cancelled, posts>>

-----------------------------------------------------------------------------
(* CreatePlaylist.  Its error may hide a playlist that was created.        *)

CreateTarget ==
    /\ pc = "create" /\ ~cancelled
    /\ lists' = Append(lists, <<>>)
    /\ target' = Len(lists) + 1
    /\ pc' = "add"
    /\ UNCHANGED <<pending, foreign, inputVars, row, outcomes, existingIDs, plan,
                   snapshot, overlap, cancelled, failure, posts>>

CreateFails ==
    /\ pc = "create"
    /\ \E created \in IF cancelled THEN {FALSE} ELSE BOOLEAN :
          lists' = IF created THEN Append(lists, <<>>) ELSE lists
    /\ outcomes' = [r \in Rows |-> IF outcomes[r].status = "MATCHED"
                                   THEN [outcomes[r] EXCEPT !.status = "FAILED"]
                                   ELSE outcomes[r]]
    /\ failure' = "create"
    /\ pc' = "done"
    /\ UNCHANGED <<pending, foreign, inputVars, localVars, row, cancelled, posts>>

-----------------------------------------------------------------------------
(* The second loop: the planned tracks are appended in source order.       *)

Chosen == outcomes[row].chosen

MustAdd ==
    /\ pc = "add" /\ row \in Rows
    /\ outcomes[row].status = "MATCHED"
    /\ Chosen \notin existingIDs

(* Rows without an addition, and the check for a track that turned up.     *)
PassRow ==
    /\ pc = "add" /\ row \in Rows /\ ~MustAdd
    /\ outcomes' = IF outcomes[row].status = "MATCHED"
                   THEN [outcomes EXCEPT ![row].status = "ALREADY_EXISTS"]
                   ELSE outcomes
    /\ row' = row + 1
    /\ UNCHANGED <<beatportVars, pc, inputVars, localVars, cancelled, failure, posts>>

Confirm ==
    /\ outcomes' = [outcomes EXCEPT ![row].status = "ADDED"]
    /\ existingIDs' = existingIDs \cup {Chosen}

AddConfirmed ==
    /\ MustAdd /\ ~cancelled
    /\ posts' = [posts EXCEPT ![Chosen] = @ + 1]
    /\ lists' = [lists EXCEPT ![target] = Append(@, Chosen)]
    /\ Confirm
    /\ row' = row + 1
    /\ UNCHANGED <<pending, foreign, pc, inputVars, target, plan, snapshot, overlap,
                   cancelled, failure>>

(* Mutants of what follows an add error: the POST is sent again at once;   *)
(* the row is tried again after the re-read; it is reported as added       *)
(* without looking; the loop ends; the re-read is repeated until it works. *)

AddUncertainResends ==
    /\ MustAdd
    /\ posts' = [posts EXCEPT ![Chosen] = @ + 1]
    /\ lists' = IF cancelled THEN lists
                ELSE [lists EXCEPT ![target] = @ \o <<Chosen, Chosen>>]
    /\ pc' = "reconcile"
    /\ UNCHANGED <<pending, foreign, inputVars, localVars, row, outcomes, cancelled,
                   failure>>

ReconcileRetriesAdd ==
    /\ pc = "reconcile" /\ ~cancelled
    /\ pc' = "add"
    /\ UNCHANGED <<beatportVars, inputVars, localVars, row, outcomes, cancelled,
                   failure, posts>>

ReconcileAssumesAdded ==
    /\ pc = "reconcile" /\ ~cancelled
    /\ Confirm
    /\ row' = row + 1
    /\ pc' = "add"
    /\ UNCHANGED <<beatportVars, inputVars, target, plan, snapshot, overlap,
                   cancelled, failure, posts>>

ReconcileFailsAsAdded ==
    /\ pc = "reconcile"
    /\ Confirm
    /\ row' = row + 1
    /\ pc' = "add"
    /\ UNCHANGED <<beatportVars, inputVars, target, plan, snapshot, overlap,
                   cancelled, failure, posts>>

ReconcileFailsEndsLoop ==
    /\ pc = "reconcile"
    /\ outcomes' = [outcomes EXCEPT ![row].status = "FAILED"]
    /\ pc' = "done"
    /\ UNCHANGED <<beatportVars, inputVars, localVars, row, cancelled, failure, posts>>

ReconcileFailsAgain ==
    /\ pc = "reconcile"
    /\ UNCHANGED vars

(* AddTracks returns an error.  Under a cancelled context the request is   *)
(* never sent; otherwise Beatport may have applied it, or still will.      *)
AddUncertain ==
    /\ MustAdd
    /\ posts' = [posts EXCEPT ![Chosen] = @ + 1]
    /\ \/ UNCHANGED <<lists, pending>>
       \/ /\ ~cancelled
          /\ lists' = [lists EXCEPT ![target] = Append(@, Chosen)]
          /\ UNCHANGED pending
       \/ /\ ~cancelled
          /\ pending' = pending \cup {[run |-> run, list |-> target, track |-> Chosen]}
          /\ UNCHANGED lists
    /\ pc' = "reconcile"
    /\ UNCHANGED <<foreign, inputVars, localVars, row, outcomes, cancelled, failure>>

Reconcile ==
    /\ pc = "reconcile" /\ ~cancelled
    /\ IF Chosen \in ExistingTrackIDs(lists[target])
       THEN Confirm
       ELSE /\ outcomes' = [outcomes EXCEPT ![row].status = "FAILED"]
            /\ UNCHANGED existingIDs
    /\ row' = row + 1
    /\ pc' = "add"
    /\ UNCHANGED <<beatportVars, inputVars, target, plan, snapshot, overlap,
                   cancelled, failure, posts>>

ReconcileFails ==
    /\ pc = "reconcile"
    /\ outcomes' = [outcomes EXCEPT ![row].status = "FAILED"]
    /\ row' = row + 1
    /\ pc' = "add"
    /\ UNCHANGED <<beatportVars, inputVars, localVars, cancelled, failure, posts>>

Finish ==
    /\ pc = "add" /\ row = N + 1
    /\ pc' = "done"
    /\ UNCHANGED <<beatportVars, inputVars, localVars, row, outcomes, cancelled,
                   failure, posts>>

-----------------------------------------------------------------------------
(* The environment.                                                        *)

Running == pc \notin {"idle", "done", "crashed"}

(* The first SIGINT cancels the context every call runs under.             *)
Interrupt ==
    /\ Running /\ ~cancelled
    /\ cancelled' = TRUE
    /\ UNCHANGED <<beatportVars, pc, inputVars, localVars, row, outcomes, failure, posts>>

(* The process dies: nothing of a run outlives it but Beatport's state.    *)
Crash ==
    /\ Running
    /\ pc' = "crashed"
    /\ UNCHANGED <<beatportVars, inputVars, localVars, row, outcomes, cancelled,
                   failure, posts>>

ApplyLate ==
    /\ \E p \in pending :
          /\ lists' = [lists EXCEPT ![p.list] = Append(@, p.track)]
          /\ pending' = pending \ {p}
    /\ UNCHANGED <<foreign, pc, inputVars, localVars, row, outcomes, cancelled,
                   failure, posts>>

ForeignAdd ==
    /\ foreign < MaxForeign
    /\ foreign' = foreign + 1
    /\ \E l \in DOMAIN lists, t \in Tracks :
          lists' = [lists EXCEPT ![l] = Append(@, t)]
    /\ UNCHANGED <<pending, pc, inputVars, localVars, row, outcomes, cancelled,
                   failure, posts>>

EngineStep ==
    \/ LoadTarget \/ LoadFails
    \/ Match \/ MakePlan
    \/ CreateTarget \/ CreateFails
    \/ PassRow \/ AddConfirmed \/ AddUncertain \/ Reconcile \/ ReconcileFails
    \/ Finish

Next == Start \/ EngineStep \/ Interrupt \/ Crash \/ ApplyLate \/ ForeignAdd

Spec == Init /\ [][Next]_vars

(* Run is one goroutine that blocks only in calls that return: HTTP calls  *)
(* have timeouts, and a user is assumed to answer the resolver.            *)
FairSpec == Spec /\ WF_vars(EngineStep)

-----------------------------------------------------------------------------

(* The variables' types; in particular target names a playlist whenever    *)
(* the run may write, and only valid IDs are ever remembered as members.   *)
TypeOK ==
    /\ lists \in Seq(Seq(Tracks))
    /\ pending \subseteq [run : 1..MaxRuns, list : DOMAIN lists, track : Tracks]
    /\ foreign \in 0..MaxForeign
    /\ pc \in {"idle", "load", "match", "create", "add", "reconcile", "done", "crashed"}
    /\ keys \in [Rows -> Keys]
    /\ request \in [target : {0} \cup DOMAIN lists, dry : BOOLEAN, ambiguous : Ambiguous]
    /\ target \in {0} \cup DOMAIN lists
    /\ pc \in {"load", "add", "reconcile"} => target \in DOMAIN lists
    /\ pc \in {"load", "match", "create"} => target = request.target
    /\ row \in 1..(N + 1)
    /\ pc = "reconcile" => row \in Rows
    /\ outcomes \in [Rows -> Outcome]
    /\ existingIDs \subseteq Tracks
    /\ plan \subseteq Rows
    /\ cancelled \in BOOLEAN
    /\ failure \in {"none", "load", "create"}
    /\ run \in 0..MaxRuns
    /\ posts \in [Tracks -> Nat]
    /\ snapshot \subseteq Tracks
    /\ overlap \in BOOLEAN

Holds(list, t) == \E k \in DOMAIN list : list[k] = t

(* "A lost response cannot blindly append twice ... never reposted": a run *)
(* calls AddTracks at most once per track, whatever rows converge on it    *)
(* and however its responses fail, and never for a track it saw in the     *)
(* target.                                                                 *)
AppendsOnce ==
    \A t \in Tracks : /\ posts[t] <= 1
                      /\ t \in snapshot => posts[t] = 0

(* The second membership check, "track appeared in target before add",     *)
(* never fires: the set it consults holds nothing a planned row chose.     *)
(* No run checks this, it follows from the plan and is proved.             *)
RecheckIsIdle ==
    pc = "add" /\ row \in Rows /\ outcomes[row].status = "MATCHED"
        => outcomes[row].chosen \notin existingIDs

(* ADDED and ALREADY_EXISTS are only reported of tracks the target holds,  *)
(* also when the append's response was an error.                           *)
ReportIsTrue ==
    \A r \in Rows :
        outcomes[r].status \in {"ADDED", "ALREADY_EXISTS"}
            => target # 0 /\ Holds(lists[target], outcomes[r].chosen)

(* A run that returns without an error has settled every row, and has      *)
(* tried to append every planned track, those after a failed add included. *)
EveryPlannedRowTried ==
    pc = "done" /\ failure = "none" /\ ~request.dry =>
        /\ \A r \in Rows : outcomes[r].status \notin {"", "MATCHED"}
        /\ \A r \in plan : /\ outcomes[r].status \in {"ADDED", "FAILED"}
                           /\ posts[outcomes[r].chosen] = 1
        /\ \A t \in Tracks : posts[t] > 0 => \E r \in plan : outcomes[r].chosen = t

(* "Additions are sequential": with no other writer, the tracks a run      *)
(* reports as added stand in the target in source order, even if some      *)
(* were confirmed only by the re-read and others are applied late.         *)
AddedInSourceOrder ==
    foreign = 0 /\ ~overlap =>
        \A r, s \in Rows :
            r < s /\ outcomes[r].status = "ADDED" /\ outcomes[s].status = "ADDED" =>
                \A k, l \in DOMAIN lists[target] :
                    /\ lists[target][k] = outcomes[r].chosen
                    /\ lists[target][l] = outcomes[s].chosen
                    => k < l

(* Importing the same source again, after failures, interrupts or a crash, *)
(* appends no second copy: all that a playlist ever holds twice it held    *)
(* twice at first; provided nobody else writes and no run reads a target   *)
(* while a POST of an earlier run to it is still to be applied.            *)
RerunsAppendNoCopy ==
    foreign = 0 /\ ~overlap =>
        \E c \in InitialContents :
            /\ \A k \in DOMAIN c : k \in DOMAIN lists[1] /\ lists[1][k] = c[k]
            /\ \A l \in DOMAIN lists : \A j, k \in DOMAIN lists[l] :
                  j < k /\ lists[l][j] = lists[l][k] => l = 1 /\ k \in DOMAIN c

(* "--dry-run: the create and add methods are never invoked", and a target *)
(* is created only for a plan that has something to append.                *)
WritesNeedAPlan ==
    [][\/ posts' # posts /\ run' = run
       \/ Len(lists') # Len(lists)
       => ~request.dry /\ plan # {}]_vars

(* Each row is independent: a verdict, once given, survives whatever       *)
(* happens to the rows after it and to the target.                         *)
VerdictsAreFinal ==
    [][run' = run =>
        \A r \in Rows : outcomes[r].status \notin {"", "MATCHED"} =>
            outcomes'[r].status = outcomes[r].status]_vars

(* A run comes to an end whatever fails in it.                             *)
RunReturns == Running ~> ~Running

-----------------------------------------------------------------------------

Contract == INSTANCE ImportContract WITH
    known   <- snapshot,
    asked   <- {t \in Tracks : posts[t] > 0},
    claimed <- {outcomes[r].chosen : r \in {q \in Rows : outcomes[q].status = "ADDED"}}

(* The engine keeps the contract of an import: append-only playlists, one  *)
(* request per track, and no claim the target does not bear out.           *)
KeepsContract == Contract!Spec

=============================================================================
