------------------------------- MODULE MCLoops -------------------------------
(***************************************************************************)
(* Model checking of the code that meets nobody else: a behaviour runs     *)
(* the planner (PlanLoop), one of the text functions (Similarity),         *)
(* commands that load their settings (Settings), or the search of one row  *)
(* and its result (MatchPolicy), over every small input.                   *)
(***************************************************************************)
EXTENDS PlanLoop, Similarity, Settings, MatchPolicy, TLC

(* The settings of the matcher: its defaults, and lenient ones.            *)
Defaults == [high |-> 85000, ambiguous |-> 70000, margin |-> 3000, preferExtended |-> TRUE]
Lenient  == [high |-> 60000, ambiguous |-> 0, margin |-> 0, preferExtended |-> FALSE]

PlannerRests ==
    /\ via = "matches" /\ phase = "none" /\ i = 0
    /\ lines = <<>> /\ source = <<>> /\ marked = <<>> /\ seen = {} /\ given = <<>>
    /\ existing = {} /\ outcomes = <<>> /\ tracks = <<>> /\ seenSource = {} /\ seenMatched = {}

TextRests ==
    /\ task = "none" /\ text = <<>> /\ grade = <<>> /\ maskLimit = 0 /\ stage = "none"
    /\ left = <<>> /\ right = <<>> /\ at = 0 /\ row = <<>> /\ answer = 0

SettingsRest ==
    /\ toml = NoFile /\ environment = Silent /\ flag = FlagDefault
    /\ command = "none" /\ loading = "never" /\ settings = Default

PolicyRests ==
    /\ config = Defaults /\ sourceTrack = [version |-> "default", artistKnown |-> TRUE]
    /\ pool = <<>> /\ order = <<>> /\ confidence = "none" /\ chosen = 0

LoopsInit ==
    \/ Init /\ TextRests /\ SettingsRest /\ PolicyRests
    \/ TextInit /\ PlannerRests /\ SettingsRest /\ PolicyRests
    \/ SettingsInit /\ PlannerRests /\ TextRests /\ PolicyRests
    \/ PolicyInit /\ PlannerRests /\ TextRests /\ SettingsRest

LoopsNext ==
    \/ Next /\ UNCHANGED <<textVars, settingsVars, policyVars>>
    \/ TextNext /\ UNCHANGED <<vars, settingsVars, policyVars>>
    \/ SettingsNext /\ UNCHANGED <<vars, textVars, policyVars>>
    \/ PolicyNext /\ UNCHANGED <<vars, textVars, settingsVars>>

LoopsSpec == LoopsInit /\ [][LoopsNext]_<<vars, textVars, settingsVars, policyVars>>

Symmetry == Permutations(Keys \ Comments) \cup Permutations(Tracks)

ThreeGrades == 0..2
MaskSizes == {1, 3}
TwoLetters == 1..2
Thresholds == {-500, 0, 60000, 80000, 100001}

(* Two candidates, each either some mix of the song, or as close as a      *)
(* wrong song or version comes on either side of a limit, with everything  *)
(* else speaking for it.                                                   *)
TwoCandidates == 2
DefaultOrLenient == {Defaults, Lenient}

Mixes ==
    {[version |-> v, full |-> 100, base |-> 100, artists |-> 100, agreement |-> a,
      release |-> 0, duration |-> d, isrc |-> "unknown"] :
        v \in Versions, a \in {0, 100}, d \in {-1, 2, 61}}

Limits ==
    {[version |-> v, full |-> 100, base |-> b, artists |-> a, agreement |-> g,
      release |-> 100, duration |-> d, isrc |-> code] :
        v \in {"extended", "remix"}, b \in {47, 48, 100}, a \in {59, 60, 100},
        g \in {81, 100}, d \in {3}, code \in {"unknown", "same"}}

(* Another recording of the same song, by its ISRC.                        *)
Others ==
    {[version |-> v, full |-> 100, base |-> 100, artists |-> 100, agreement |-> 100,
      release |-> 0, duration |-> 2, isrc |-> "differs"] : v \in {"extended", "original"}}

MixesAndLimits == Mixes \cup Limits \cup Others

=============================================================================
