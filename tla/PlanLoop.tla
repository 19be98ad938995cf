------------------------------ MODULE PlanLoop ------------------------------
(***************************************************************************)
(* The loops between a list of lines and the plan, as they run: the text   *)
(* parser, MarkSourceDuplicates and BuildPlan each walk their rows once,   *)
(* in source order, with the maps the code keeps (seen, seenSource,        *)
(* seenMatched).  In between a row gets its verdict the way the engine, or *)
(* PlanMatches, assigns it.                                                *)
(***************************************************************************)
EXTENDS PlaylistPlan, Sequences, SequencesExt, FiniteSets

CONSTANTS
    Blank,        \* an empty line
    Comments,     \* the keys of lines that begin with #
    N             \* bound: number of lines, or of match results

ASSUME NAssumption == N \in Nat
ASSUME LinesAssumption == Blank \notin Keys /\ Comments \subseteq Keys

VARIABLES
    via,          \* where the rows come from: "text", "songs" or "matches"
    phase,        \* "parse", "mark", "fill", "plan", "done" or "failed"
    i,            \* the loop index
    lines,        \* the lines' keys, never changed
    source,       \* the keys of the rows read from them
    marked,       \* their InputDuplicate
    seen,         \* the parser's map, then MarkSourceDuplicates's
    given,        \* the outcomes BuildPlan receives
    existing,     \* the target's membership set
    outcomes,     \* PlanResult.Outcomes
    tracks,       \* PlanResult.Tracks
    seenSource,
    seenMatched

parsed == <<lines, source, marked, seen>>
planned == <<outcomes, tracks, seenSource, seenMatched>>
vars == <<via, phase, i, parsed, given, existing, planned>>

Rows == DOMAIN source

Init ==
    /\ via \in {"text", "songs", "matches"}
    /\ existing \in SUBSET Tracks
    /\ \/ /\ via # "matches" /\ phase = "parse"
          /\ lines \in SeqOf(Keys \cup {Blank}, N) /\ source = <<>>
       \/ /\ via = "matches" /\ phase = "fill"
          /\ lines = <<>> /\ source \in [1..N -> Keys]
    /\ i = 1
    /\ marked = [r \in Rows |-> FALSE]
    /\ seen = {}
    /\ given = <<>>
    /\ outcomes = <<>> /\ tracks = <<>>
    /\ seenSource = {} /\ seenMatched = {}

(* ParseTextReader ignores comments, ParseLines takes them for titles.     *)
Ignored(line) == line = Blank \/ (via = "text" /\ line \in Comments)

(* One line of either parser; a line that is no UTF-8 ends the import.     *)
ParseLine ==
    /\ phase = "parse" /\ i \in DOMAIN lines
    /\ \/ /\ i' = i + 1 /\ UNCHANGED phase
          /\ IF Ignored(lines[i])
             THEN UNCHANGED <<source, marked, seen>>
             ELSE /\ source' = Append(source, lines[i])
                  /\ marked' = Append(marked, lines[i] \in seen)
                  /\ seen' = seen \cup {lines[i]}
       \/ phase' = "failed" /\ UNCHANGED <<i, source, marked, seen>>
    /\ UNCHANGED <<via, lines, given, existing, planned>>

(* One iteration of MarkSourceDuplicates, over rows that may bear a mark.  *)
MarkRow ==
    /\ phase = "mark" /\ i \in Rows
    /\ marked' = [marked EXCEPT ![i] = marked[i] \/ source[i] \in seen]
    /\ seen' = seen \cup {source[i]}
    /\ i' = i + 1
    /\ UNCHANGED <<via, phase, lines, source, given, existing, planned>>

(* The (status, chosen) pairs the engine can give an unmarked row ...      *)
EngineVerdicts ==
    ({"FAILED", "NOT_FOUND", "AMBIGUOUS", "SKIPPED"} \X {NoTrack})
        \cup ({"MATCHED"} \X (Tracks \cup {BadTrack}))

(* ... and those PlanMatches gives a match result.                         *)
MatchVerdicts ==
    ({"NOT_FOUND", "AMBIGUOUS"} \X {NoTrack})
        \cup ({"MATCHED"} \X (Tracks \cup {BadTrack}))

(* One row gets its outcome; PlanMatches never looks at a mark.            *)
FillRow ==
    /\ phase = "fill" /\ i \in Rows
    /\ \E v \in IF via = "matches" THEN MatchVerdicts
                ELSE IF marked[i] THEN {<<"INPUT_DUPLICATE", NoTrack>>}
                ELSE EngineVerdicts :
          given' = Append(given, [key |-> source[i], dup |-> marked[i],
                                  status |-> v[1], chosen |-> v[2]])
    /\ i' = i + 1
    /\ UNCHANGED <<via, phase, parsed, existing, planned>>

(* Mutant of RowVerdict: unresolved rows are left alone before repeated    *)
(* ones are recognised.                                                    *)
RowVerdictUnresolvedFirst(row, repeated) ==
    IF row.status \in Unresolved \/ row.chosen = NoTrack THEN row.status
    ELSE IF repeated THEN "INPUT_DUPLICATE"
    ELSE IF row.chosen \notin Tracks THEN "FAILED"
    ELSE IF row.chosen \in existing THEN "ALREADY_EXISTS"
    ELSE IF row.chosen \in seenMatched THEN "INPUT_DUPLICATE"
    ELSE PlannedStatus(row)

(* The status BuildPlan's body leaves a row with: its early continues, in  *)
(* the code's order.                                                       *)
RowVerdict(row, repeated) ==
    IF repeated THEN "INPUT_DUPLICATE"
    ELSE IF row.status \in Unresolved \/ row.chosen = NoTrack THEN row.status
    ELSE IF row.chosen \notin Tracks THEN "FAILED"
    ELSE IF row.chosen \in existing THEN "ALREADY_EXISTS"
    ELSE IF row.chosen \in seenMatched THEN "INPUT_DUPLICATE"
    ELSE PlannedStatus(row)

(* Mutant of Appends: a track claimed by an earlier row is appended again. *)
AppendsClaimedTrack(row, repeated) ==
    /\ ~repeated
    /\ row.status \notin Unresolved
    /\ row.chosen \in Tracks \ existing

(* The row survives every early continue: its track joins the plan.        *)
Appends(row, repeated) ==
    /\ ~repeated
    /\ row.status \notin Unresolved
    /\ row.chosen \in Tracks \ (existing \cup seenMatched)

(* One iteration of BuildPlan.                                             *)
PlanRow ==
    LET row      == outcomes[i]
        repeated == row.dup \/ row.key \in seenSource
    IN  /\ phase = "plan" /\ i \in Rows
        /\ seenSource' = seenSource \cup {row.key}
        /\ outcomes' = [outcomes EXCEPT ![i].status = RowVerdict(row, repeated),
                                        ![i].dup = repeated]
        /\ IF Appends(row, repeated)
           THEN /\ seenMatched' = seenMatched \cup {row.chosen}
                /\ tracks' = Append(tracks, row.chosen)
           ELSE UNCHANGED <<seenMatched, tracks>>
        /\ i' = i + 1
        /\ UNCHANGED <<via, phase, parsed, given, existing>>

(* The end of a loop: the next one starts at the first row, with new maps. *)
NextLoop ==
    /\ \/ phase = "parse" /\ i = Len(lines) + 1
       \/ phase \in {"mark", "fill", "plan"} /\ i = Len(source) + 1
    /\ phase' = CASE phase = "parse" -> IF source = <<>> THEN "failed" ELSE "mark"
                  [] phase = "mark" -> "fill"
                  [] phase = "fill" -> "plan"
                  [] phase = "plan" -> "done"
    /\ i' = 1
    /\ seen' = {}
    /\ outcomes' = IF phase = "fill" THEN given ELSE outcomes
    /\ UNCHANGED <<via, lines, source, marked, given, existing, tracks,
                   seenSource, seenMatched>>

Next == ParseLine \/ MarkRow \/ FillRow \/ PlanRow \/ NextLoop

Spec == Init /\ [][Next]_vars

-----------------------------------------------------------------------------

(* The list holds the values of the picked indexes, in their order.        *)
Lists(list, picked, value) ==
    /\ Len(list) = Cardinality(picked)
    /\ \A r \in picked : list[Cardinality({p \in picked : p <= r})] = value[r]

Kept == {l \in DOMAIN lines : ~Ignored(lines[l])}

Chosen == [r \in DOMAIN given |-> given[r].chosen]

(* The loops compute what PlaylistPlan defines without maps: either parser *)
(* keeps the songs in their order and, like the marking loop after it,     *)
(* marks every occurrence after the first; the planning loop is BuildPlan, *)
(* and lists the planned rows' tracks in source order.                     *)
LoopIsBuildPlan ==
    /\ phase \in {"mark", "fill", "plan", "done"} /\ via # "matches" =>
          /\ Lists(source, Kept, lines)
          /\ marked = MarkSourceDuplicates(source)
    /\ phase = "done" =>
          /\ outcomes = BuildPlan(given, existing)
          /\ Lists(tracks, PlannedRows(given, existing), Chosen)

(* "An ordered, duplicate-safe add plan": the plan never lists a track     *)
(* twice, nor one the target holds, nor an invalid ID, and drops no song:  *)
(* the chosen track of every first occurrence is in the target or in the   *)
(* plan.                                                                   *)
PlanIsSound ==
    phase = "done" =>
        LET listed == {tracks[k] : k \in DOMAIN tracks}
        IN  /\ Cardinality(listed) = Len(tracks)
            /\ listed \subseteq Tracks \ existing
            /\ \A r \in Rows :
                  /\ given[r].status = "MATCHED" /\ given[r].chosen \in Tracks
                  /\ \A p \in 1..(r - 1) : source[p] # source[r]
                  => given[r].chosen \in listed \cup existing

=============================================================================
