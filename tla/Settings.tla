------------------------------ MODULE Settings ------------------------------
(***************************************************************************)
(* Where the thresholds of a command come from (internal/config, Load and  *)
(* Save; App.loadConfig): the defaults, the file, the environment and the  *)
(* flag, each over the one before; and `setup`, which stores what came out *)
(* of them.  A user may edit the file between commands.                    *)
(*                                                                         *)
(* The two thresholds stand for every setting that is a number; they are   *)
(* in thousandths of a percent, as in MatchPolicy, and none of them        *)
(* compares with NaN, which Go parses as a number.                         *)
(***************************************************************************)
EXTENDS Integers

CONSTANTS
    Numbers,    \* the thresholds that may be written somewhere
    NaN,
    Unset,      \* the key or variable is absent
    Malformed,  \* it is there and is no number
    NoFile, Unreadable

ASSUME NumbersAssumption == Numbers \subseteq Int /\ NaN \notin Int

Fields == {"high", "ambiguous"}
Values == Numbers \cup {NaN}
Files  == [Fields -> Values \cup {Unset}] \cup {NoFile, Unreadable}

FlagDefault == -1000
FlagHelp    == {n \in Int : n >= 1000 /\ n <= 100000}    \* "minimum 1-100 score"

VARIABLES
    toml,           \* the file
    environment,    \* the variables BPBRIDGE_MATCH_THRESHOLD and ..AMBIGUOUS_THRESHOLD
    flag,           \* --match-threshold
    command,        \* "none", "import" or "setup"
    loading,        \* how far the command is
    settings        \* config.Config; at last the matcher's

settingsVars == <<toml, environment, flag, command, loading, settings>>

Default == [high |-> 85000, ambiguous |-> 70000]

Silent == [f \in Fields |-> Unset]

Idle ==
    /\ environment' = Silent /\ flag' = FlagDefault
    /\ command' = "none" /\ loading' = "idle" /\ settings' = Default

SettingsInit ==
    /\ toml \in Files
    /\ environment = Silent /\ flag = FlagDefault
    /\ command = "none" /\ loading = "idle" /\ settings = Default

-----------------------------------------------------------------------------

Exceeds(x, y) == x # NaN /\ y # NaN /\ x > y

(* Validate only refuses what compares.                                    *)
InRange(value) == ~Exceeds(1, value) /\ ~Exceeds(value, 100000)

Valid(given) ==
    /\ InRange(given.high) /\ InRange(given.ambiguous)
    /\ ~Exceeds(given.ambiguous, given.high)

Over(layer, below) == [f \in Fields |-> IF layer[f] = Unset THEN below[f] ELSE layer[f]]

Start ==
    /\ loading = "idle"
    /\ command' \in {"import", "setup"}
    /\ environment' \in [Fields -> Values \cup {Unset, Malformed}]
    /\ flag' \in Values \cup {FlagDefault}
    /\ loading' = "file"
    /\ UNCHANGED <<toml, settings>>

(* A missing file is the first run.                                        *)
ReadFile ==
    /\ loading = "file" /\ toml # Unreadable
    /\ settings' = IF toml = NoFile THEN Default ELSE Over(toml, Default)
    /\ loading' = "environment"
    /\ UNCHANGED <<toml, environment, flag, command>>

EnvironmentAccepted ==
    /\ \A f \in Fields : environment[f] # Malformed
    /\ Valid(Over(environment, settings))

(* applyEnvironment, and what load checks then.                            *)
ApplyEnvironment ==
    /\ loading = "environment"
    /\ EnvironmentAccepted
    /\ settings' = Over(environment, settings)
    /\ loading' = "flag"
    /\ UNCHANGED <<toml, environment, flag, command>>

FlagIsSet == flag # NaN /\ flag >= 0

Flagged == IF FlagIsSet THEN [settings EXCEPT !.high = flag] ELSE settings

InFlagRange == ~Exceeds(FlagDefault, flag)

FlagAccepted == InFlagRange /\ Valid(Flagged)

(* Mutant: the settings are not validated again.                           *)
ApplyFlagUnchecked ==
    /\ loading = "flag"
    /\ InFlagRange
    /\ settings' = Flagged
    /\ loading' = "loaded"
    /\ UNCHANGED <<toml, environment, flag, command>>

ApplyFlag ==
    /\ loading = "flag"
    /\ FlagAccepted
    /\ settings' = Flagged
    /\ loading' = "loaded"
    /\ UNCHANGED <<toml, environment, flag, command>>

(* The command ends with an error in whichever of the steps cannot be      *)
(* taken.                                                                  *)
Refused ==
    \/ loading = "file" /\ toml = Unreadable
    \/ /\ loading = "environment"
       /\ ~EnvironmentAccepted
    \/ /\ loading = "flag"
       /\ ~FlagAccepted

Refuse == Refused /\ Idle /\ UNCHANGED toml

(* runImport hands the thresholds to the matcher, whose normalizedConfig   *)
(* mends what it cannot use.                                               *)
Mended(value, default) == IF Exceeds(1, value) THEN default ELSE value

StartMatching ==
    /\ loading = "loaded" /\ command = "import"
    /\ LET high      == Mended(settings.high, Default.high)
           ambiguous == Mended(settings.ambiguous, Default.ambiguous)
       IN  settings' = [high |-> high, ambiguous |-> IF Exceeds(ambiguous, high) THEN high ELSE ambiguous]
    /\ loading' = "matching"
    /\ UNCHANGED <<toml, environment, flag, command>>

(* Save: the file is replaced as a whole, by what every layer together     *)
(* gave, or not at all.                                                    *)
SaveSettings ==
    /\ loading = "loaded" /\ command = "setup"
    /\ toml' \in {settings, toml}
    /\ Idle

EndMatching == loading = "matching" /\ Idle /\ UNCHANGED toml

EditFile ==
    /\ loading = "idle"
    /\ toml' \in Files
    /\ UNCHANGED <<environment, flag, command, loading, settings>>

SettingsNext ==
    \/ Start \/ ReadFile \/ ApplyEnvironment \/ ApplyFlag \/ Refuse
    \/ StartMatching \/ SaveSettings \/ EndMatching \/ EditFile

SettingsSpec == SettingsInit /\ [][SettingsNext]_settingsVars

-----------------------------------------------------------------------------

(* What the layers below the flag say.                                     *)
Configured(f) ==
    IF environment[f] # Unset THEN environment[f]
    ELSE IF toml # NoFile /\ toml[f] # Unset THEN toml[f]
    ELSE Default[f]

(* What the matcher works with is what the user said last ("Environment    *)
(* variables override it", "--match-threshold 90 for a one-run threshold"),*)
(* never a silent correction of it: what cannot be used ends the command.  *)
(* Of a flag outside of 1 to 100 the help promises nothing.                *)
SettingsAreObeyed ==
    loading = "matching" =>
        /\ flag = FlagDefault => settings.high = Configured("high")
        /\ flag \in FlagHelp => settings.high = flag
        /\ settings.ambiguous = Configured("ambiguous")
        /\ ~Exceeds(settings.ambiguous, settings.high)

=============================================================================
