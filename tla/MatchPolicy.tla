---------------------------- MODULE MatchPolicy ----------------------------
(***************************************************************************)
(* The score of a Beatport candidate and what is chosen by it              *)
(* (matcher/score.go).  Texts are compared elsewhere: here a candidate is  *)
(* what the comparisons with the source row say of it, in percent, and a   *)
(* version is the class that NormalizeVersion puts it in.                  *)
(*                                                                         *)
(* A point of the code's scale of 100 is 1000 here, which keeps every      *)
(* term a whole number.                                                    *)
(***************************************************************************)
EXTENDS Integers, Sequences

CONSTANTS
    Candidates,     \* the candidates that occur
    Configs,        \* the settings that occur
    MaxPool         \* bound: candidates found for a row

Max2(a, b) == IF a >= b THEN a ELSE b
Min2(a, b) == IF a <= b THEN a ELSE b

(* The versions that LooksLikeVersion tells from a title, and Beatport's   *)
(* mix names that it does not ("other").                                   *)
SourceVersions == {"default", "extended", "original", "radio", "remix", "specific"}
Versions == SourceVersions \cup {"other"}
NamedOrSpecific == {"remix", "specific"}

Top == 100000
Scale == 0..Top
Config == [high : Scale, ambiguous : Scale, margin : Int, preferExtended : BOOLEAN]
Source == [version : SourceVersions, artistKnown : BOOLEAN]

(* agreement: of the remixers for a named remix, of the labels otherwise;  *)
(* duration: the difference in seconds, -1 when one length is unknown.     *)
Percent == 0..100
Candidate == [version : Versions, full : Percent, base : Percent, artists : Percent,
              agreement : Percent, release : Percent, duration : Int,
              isrc : {"unknown", "same", "differs"}]

ASSUME ConfigAssumption == Configs \subseteq Config
ASSUME CandidateAssumption == Candidates \subseteq Candidate
ASSUME BoundAssumption == MaxPool \in Nat

VARIABLES
    config,     \* Config, after normalizedConfig
    sourceTrack, \* the row
    pool,       \* the candidates found so far, in the order of their IDs
    order,      \* MatchResult.Candidates: positions of the pool, best first
    confidence, \* MatchResult.Confidence; "" before Match
    chosen      \* MatchResult.Chosen: a position of the pool; 0 when nil

policyVars == <<config, sourceTrack, pool, order, confidence, chosen>>

-----------------------------------------------------------------------------
(* ScoreCandidate                                                          *)

Verdict(score, extended, penalty) ==
    [score |-> score, extended |-> extended, penalty |-> penalty]

(* What two versions have in common when neither is a particular one.      *)
Counterpart(wanted, found) ==
    CASE wanted = "radio"    /\ found = "radio"    -> 6000
      [] wanted = "original" /\ found = "original" -> 5000
      [] wanted = "default"  /\ found = "default"  -> 3000
      [] wanted = "default"  /\ found = "original" -> 2000
      [] OTHER -> 0

(* Mutant: a conflicting version is left to the other signals.             *)
AssessVersionMildly(row, c, prefer) ==
    IF row.version = "remix" THEN Verdict(120 * c.agreement, 0, 0)
    ELSE Verdict(Counterpart(row.version, c.version), 0, 0)

AssessVersion(row, c, prefer) ==
    CASE row.version = "extended" ->
            Verdict(IF c.version = "extended" THEN 10000 ELSE -10000, 0, 0)
      [] row.version = "remix" ->
            IF c.agreement >= 82 THEN Verdict(120 * c.agreement, 0, 0) ELSE Verdict(0, 0, 24000)
      [] row.version = "specific" ->
            IF c.agreement >= 85 THEN Verdict(10000, 0, 0) ELSE Verdict(0, 0, 18000)
      [] row.version \in {"default", "original", "radio"} ->
            IF c.version \in NamedOrSpecific THEN Verdict(0, 0, 20000)
            ELSE IF c.version = "extended" /\ prefer
            THEN Verdict(1000, IF row.version = "default" THEN 7000 ELSE 8000, 0)
            ELSE Verdict(Counterpart(row.version, c.version), 0, 0)

IsrcSignal(row, c) ==
    CASE c.isrc = "unknown" -> 0
      [] c.isrc = "same" -> 22000
      [] c.isrc = "differs" ->
            IF c.version = "extended" /\ row.version \notin NamedOrSpecific THEN 0 ELSE -3000

(* An Extended Mix may be longer than what was asked for, not much shorter *)
(* or longer than another Extended Mix.                                    *)
DurationSignal(row, c) ==
    IF c.duration < 0 THEN 0
    ELSE IF c.duration <= 3 THEN 4000
    ELSE IF c.duration <= 8 THEN 3000
    ELSE IF c.duration <= 15 THEN 1500
    ELSE IF c.version = "extended" /\ row.version # "extended" THEN 0
    ELSE IF c.duration > 60 THEN -4000
    ELSE IF c.duration > 30 THEN -2000
    ELSE 0

ReleaseSignal(c) == IF c.release >= 55 THEN 20 * c.release ELSE 0

(* Mutant: a row without artists is what the guardrail is for.             *)
MismatchPenaltyUnknown(row, c) ==
    IF c.isrc = "same" THEN 0
    ELSE (IF c.base < 48 THEN 25000 ELSE 0)
       + (IF ~row.artistKnown /\ c.artists < 60 THEN 25000 ELSE 0)

(* The guardrails against another song of the same name or artist.         *)
MismatchPenalty(row, c) ==
    IF c.isrc = "same" THEN 0
    ELSE (IF c.base < 48 THEN 25000 ELSE 0)
       + (IF row.artistKnown /\ c.artists < 60 THEN 25000 ELSE 0)

TitleSignal(c) == 20 * Max2(10 * c.full, 9 * c.base) + 350 * c.base

ArtistSignal(row, c) == IF row.artistKnown THEN 300 * c.artists ELSE 15000

Points(row, c, prefer) ==
    LET version == AssessVersion(row, c, prefer)
    IN  TitleSignal(c) + ArtistSignal(row, c) + version.score + version.extended
          + IsrcSignal(row, c) + DurationSignal(row, c) + ReleaseSignal(c)
          - version.penalty - MismatchPenalty(row, c)

(* Between 0 and 100, to a tenth.                                          *)
Rounded(points) == 100 * ((Max2(0, Min2(Top, points)) + 50) \div 100)

Score(row, c, prefer) == Rounded(Points(row, c, prefer))

Band(settings, score) ==
    IF score >= settings.high THEN "HIGH"
    ELSE IF score >= settings.ambiguous THEN "AMBIGUOUS" ELSE "LOW"

-----------------------------------------------------------------------------
(* RankCandidates and Match                                                *)

ExtendedOnly(c, d) == c.version = "extended" /\ d.version # "extended"

(* Mutant: a tie is broken by the ID alone.                                *)
BeforeByID(row, settings, found, i, j) ==
    LET At(k) == Score(row, found[k], settings.preferExtended)
    IN  At(i) > At(j) \/ (At(i) = At(j) /\ i < j)

Before(row, settings, found, i, j) ==
    LET At(k) == Score(row, found[k], settings.preferExtended)
        Preferred(k, l) == settings.preferExtended /\ ExtendedOnly(found[k], found[l])
    IN  \/ At(i) > At(j)
        \/ At(i) = At(j) /\ (Preferred(i, j) \/ (~Preferred(j, i) /\ i < j))

Ranked(row, settings, found) ==
    CHOOSE ranking \in [1..Len(found) -> 1..Len(found)] :
        \A i, j \in 1..Len(found) :
            i < j => Before(row, settings, found, ranking[i], ranking[j])

(* Mutant: the runner-up is not looked at.                                 *)
ConfidenceOfFirst(row, settings, found, ranking) ==
    Band(settings, Score(row, found[ranking[1]], settings.preferExtended))

Confidence(row, settings, found, ranking) ==
    LET At(i) == Score(row, found[ranking[i]], settings.preferExtended)
        band  == Band(settings, At(1))
    IN  IF band = "HIGH" /\ Len(found) > 1 /\ At(1) - At(2) < settings.margin
        THEN "AMBIGUOUS" ELSE band

-----------------------------------------------------------------------------

(* 0 stands for a default; no settings at all prefer Extended Mixes.       *)
NormalizedConfig(settings) ==
    LET high      == IF settings.high = 0 THEN 85000 ELSE settings.high
        ambiguous == IF settings.ambiguous = 0 THEN 70000 ELSE settings.ambiguous
    IN  [high |-> high, ambiguous |-> Min2(ambiguous, high),
         margin |-> IF settings.margin = 0 THEN 3000 ELSE Max2(0, settings.margin),
         preferExtended |-> settings.preferExtended
                              \/ (settings.high = 0 /\ settings.ambiguous = 0 /\ settings.margin = 0)]

PolicyInit ==
    /\ config \in {NormalizedConfig(settings) : settings \in Configs}
    /\ sourceTrack \in Source
    /\ pool = <<>> /\ order = <<>> /\ confidence = "" /\ chosen = 0

Find(c) ==
    /\ confidence = "" /\ Len(pool) < MaxPool
    /\ pool' = Append(pool, c)
    /\ UNCHANGED <<config, sourceTrack, order, confidence, chosen>>

Match ==
    /\ confidence = ""
    /\ order' = Ranked(sourceTrack, config, pool)
    /\ confidence' = IF pool = <<>> THEN "LOW" ELSE Confidence(sourceTrack, config, pool, order')
    /\ chosen' = IF confidence' = "HIGH" THEN order'[1] ELSE 0
    /\ UNCHANGED <<config, sourceTrack, pool>>

PolicyNext == (\E c \in Candidates : Find(c)) \/ Match

PolicySpec == PolicyInit /\ [][PolicyNext]_policyVars

-----------------------------------------------------------------------------

Found == {pool[i] : i \in 1..Len(pool)}

WrongSong(c) == c.base < 48 \/ (sourceTrack.artistKnown /\ c.artists < 60)

(* docs/MATCHING.md: "reject a same-title result by the wrong artist even  *)
(* if some title tokens happen to match", and a track with the Extended    *)
(* bonus too.  Only the same ISRC may override it.                         *)
WrongSongIsLow ==
    config.ambiguous >= 66000 =>
        \A c \in Found : WrongSong(c) /\ c.isrc # "same" =>
            Band(config, Score(sourceTrack, c, config.preferExtended)) = "LOW"

(* A version other than the requested one.                                 *)
WrongVersion(c) ==
    CASE sourceTrack.version = "extended" -> c.version # "extended"
      [] sourceTrack.version = "remix" -> c.agreement < 82
      [] sourceTrack.version = "specific" -> c.agreement < 85
      [] OTHER -> c.version \in NamedOrSpecific

TitleAlone(c) == ~sourceTrack.artistKnown /\ c.duration < 0 /\ c.release < 55

(* Nothing is chosen without asking that is another song, another version  *)
(* or a mere title, however well everything else agrees ("a specifically   *)
(* named remix must match that remix"; "cannot become a high-confidence    *)
(* match on title alone"), unless its ISRC is the requested one.           *)
ChosenIsEarned ==
    config.high >= 85000 /\ chosen # 0 =>
        LET c == pool[chosen]
        IN  \/ c.isrc = "same"
            \/ ~WrongSong(c) /\ ~WrongVersion(c) /\ ~TitleAlone(c)

(* Two mixes of one song that only differ in the mix and its length.       *)
SameBut(c, d) ==
    [c EXCEPT !.version = d.version, !.duration = d.duration] = d

(* docs/MATCHING.md: "when Original and Extended candidates are otherwise  *)
(* near-equal, Extended wins", even if only the Original has the length    *)
(* that was asked for.                                                     *)
ExtendedWins ==
    /\ confidence # "" /\ config.preferExtended
    /\ sourceTrack.version \in {"default", "original", "radio"}
    => \A i, j \in 1..Len(order) :
          /\ pool[order[i]].version \in {"default", "original"}
          /\ pool[order[j]].version = "extended"
          /\ SameBut(pool[order[i]], pool[order[j]])
          => j < i

=============================================================================
