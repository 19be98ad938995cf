------------------------- MODULE MatchPolicyProofs -------------------------
(***************************************************************************)
(* What the score and the ranking of candidates guarantee for every        *)
(* similarity, every length and every combination of signals, not only for *)
(* those of a model: each signal is bounded by a lemma of its own, their   *)
(* sum by arithmetic, and the ranking exists because its comparison is a   *)
(* strict total order (OrderLemmas).                                       *)
(***************************************************************************)
EXTENDS MatchPolicy, OrderLemmas, TLAPS

(* Both titles together bring between 0 and 55 points, less with the base. *)
LEMMA TitleBound ==
    ASSUME NEW c \in Candidate
    PROVE  /\ TitleSignal(c) \in Int
           /\ 0 <= TitleSignal(c)
           /\ TitleSignal(c) <= 20000 + 350 * c.base
<1>1. c.full \in 0..100 /\ c.base \in 0..100
  BY DEF Candidate, Percent
<1> DEFINE m == Max2(10 * c.full, 9 * c.base)
<1>2. m = 10 * c.full \/ m = 9 * c.base
  BY DEF Max2
<1> HIDE DEF m
<1>3. m \in Int /\ m >= 0 /\ m <= 1000
  BY <1>1, <1>2
<1>4. TitleSignal(c) = 20 * m + 350 * c.base
  BY DEF TitleSignal, m
<1> QED
  BY <1>1, <1>3, <1>4

LEMMA ArtistBound ==
    ASSUME NEW row \in Source, NEW c \in Candidate
    PROVE  /\ ArtistSignal(row, c) \in Int
           /\ 0 <= ArtistSignal(row, c)
           /\ ArtistSignal(row, c) <= 30000
           /\ row.artistKnown => ArtistSignal(row, c) = 300 * c.artists
           /\ ~row.artistKnown => ArtistSignal(row, c) = 15000
<1>1. c.artists \in 0..100
  BY DEF Candidate, Percent
<1> QED
  BY <1>1 DEF ArtistSignal

(* A version's bonuses, less its penalty.                                  *)
VersionPoints(row, c, prefer) ==
    AssessVersion(row, c, prefer).score + AssessVersion(row, c, prefer).extended
        - AssessVersion(row, c, prefer).penalty

(* No version is worth more than the named remix, and a version that was   *)
(* not asked for brings nothing.                                           *)
Unrequested(row, c) ==
    CASE row.version = "extended" -> c.version # "extended"
      [] row.version = "remix" -> c.agreement < 82
      [] row.version = "specific" -> c.agreement < 85
      [] OTHER -> c.version \in NamedOrSpecific

LEMMA VersionBound ==
    ASSUME NEW row \in Source, NEW c \in Candidate, NEW prefer \in BOOLEAN
    PROVE  /\ AssessVersion(row, c, prefer).score \in Int
           /\ AssessVersion(row, c, prefer).extended \in Int
           /\ AssessVersion(row, c, prefer).penalty \in Int
           /\ VersionPoints(row, c, prefer) <= 12000
           /\ Unrequested(row, c) => VersionPoints(row, c, prefer) <= -10000
<1>1. c.agreement \in 0..100
  BY DEF Candidate, Percent
<1>2. row.version \in SourceVersions
  BY DEF Source
<1>3. CASE row.version = "extended"
  BY <1>3 DEF AssessVersion, Verdict, VersionPoints, Unrequested
<1>4. CASE row.version = "remix"
  BY <1>1, <1>4 DEF AssessVersion, Verdict, VersionPoints, Unrequested
<1>5. CASE row.version = "specific"
  BY <1>1, <1>5 DEF AssessVersion, Verdict, VersionPoints, Unrequested
<1>6. CASE row.version \in {"default", "original", "radio"}
  <2>1. /\ Counterpart(row.version, c.version) \in Int
        /\ Counterpart(row.version, c.version) <= 6000
    BY DEF Counterpart
  <2>2. AssessVersion(row, c, prefer) =
          IF c.version \in NamedOrSpecific THEN Verdict(0, 0, 20000)
          ELSE IF c.version = "extended" /\ prefer
          THEN Verdict(1000, IF row.version = "default" THEN 7000 ELSE 8000, 0)
          ELSE Verdict(Counterpart(row.version, c.version), 0, 0)
    BY <1>6 DEF AssessVersion
  <2>3. Unrequested(row, c) <=> c.version \in NamedOrSpecific
    BY <1>6 DEF Unrequested
  <2>4. CASE c.version \in NamedOrSpecific
    BY <2>2, <2>4 DEF Verdict, VersionPoints
  <2>5. CASE c.version \notin NamedOrSpecific /\ c.version = "extended" /\ prefer
    BY <2>2, <2>3, <2>5 DEF Verdict, VersionPoints
  <2>6. CASE c.version \notin NamedOrSpecific /\ ~(c.version = "extended" /\ prefer)
    <3>1. AssessVersion(row, c, prefer) = Verdict(Counterpart(row.version, c.version), 0, 0)
      BY <2>2, <2>6
    <3>2. /\ AssessVersion(row, c, prefer).score = Counterpart(row.version, c.version)
          /\ AssessVersion(row, c, prefer).extended = 0
          /\ AssessVersion(row, c, prefer).penalty = 0
      BY <3>1 DEF Verdict
    <3>3. VersionPoints(row, c, prefer) = Counterpart(row.version, c.version)
      BY <2>1, <3>2 DEF VersionPoints
    <3>4. ~Unrequested(row, c)
      BY <2>3, <2>6
    <3> QED
      BY <2>1, <3>2, <3>3, <3>4
  <2> QED
    BY <2>4, <2>5, <2>6
<1> QED
  BY <1>2, <1>3, <1>4, <1>5, <1>6 DEF SourceVersions

LEMMA SmallSignals ==
    ASSUME NEW row \in Source, NEW c \in Candidate
    PROVE  /\ IsrcSignal(row, c) \in Int /\ (c.isrc # "same" => IsrcSignal(row, c) <= 0)
           /\ DurationSignal(row, c) \in Int /\ DurationSignal(row, c) <= 4000
           /\ c.duration < 0 => DurationSignal(row, c) = 0
           /\ ReleaseSignal(c) \in Int /\ ReleaseSignal(c) <= 2000
           /\ c.release < 55 => ReleaseSignal(c) = 0
<1>1. c.isrc \in {"unknown", "same", "differs"} /\ c.duration \in Int /\ c.release \in 0..100
  BY DEF Candidate, Percent
<1>2. IsrcSignal(row, c) \in Int /\ (c.isrc # "same" => IsrcSignal(row, c) <= 0)
  BY <1>1 DEF IsrcSignal
<1>3. /\ DurationSignal(row, c) \in Int /\ DurationSignal(row, c) <= 4000
      /\ c.duration < 0 => DurationSignal(row, c) = 0
  BY <1>1 DEF DurationSignal
<1>4. /\ ReleaseSignal(c) \in Int /\ ReleaseSignal(c) <= 2000
      /\ c.release < 55 => ReleaseSignal(c) = 0
  BY <1>1 DEF ReleaseSignal
<1> QED
  BY <1>2, <1>3, <1>4

(* Another song, by its title or by its artists.                           *)
Mismatch(row, c) == c.base < 48 \/ (row.artistKnown /\ c.artists < 60)

LEMMA PenaltyBound ==
    ASSUME NEW row \in Source, NEW c \in Candidate
    PROVE  /\ MismatchPenalty(row, c) \in Int
           /\ MismatchPenalty(row, c) >= 0
           /\ Mismatch(row, c) /\ c.isrc # "same" => MismatchPenalty(row, c) >= 25000
<1>1. c.base \in 0..100 /\ c.artists \in 0..100
  BY DEF Candidate, Percent
<1> QED
  BY <1>1 DEF MismatchPenalty, Mismatch

(* Rounding never lifts a score over a bound of whole tenths.              *)
LEMMA RoundedBound ==
    ASSUME NEW x \in Int, NEW k \in Nat, x <= 100 * k
    PROVE  Rounded(x) \in Int /\ Rounded(x) <= 100 * k
<1> DEFINE y == Max2(0, Min2(Top, x))
<1>1. y \in Int /\ y >= 0 /\ y <= 100 * k
  BY DEF Max2, Min2, Top
<1> HIDE DEF y
<1>2. (y + 50) \div 100 \in Int /\ (y + 50) \div 100 <= k
  BY <1>1
<1>3. Rounded(x) = 100 * ((y + 50) \div 100)
  BY DEF Rounded, y
<1> QED
  BY <1>2, <1>3

(* Another song stays below 66 points whatever else agrees: at most 65.7   *)
(* with the wrong artists, 59.5 with the wrong title.                      *)
LEMMA Guardrail ==
    ASSUME NEW row \in Source, NEW c \in Candidate, NEW prefer \in BOOLEAN,
           Mismatch(row, c), c.isrc # "same"
    PROVE  Score(row, c, prefer) \in Int /\ Score(row, c, prefer) < 66000
<1> DEFINE title   == TitleSignal(c)
           artist  == ArtistSignal(row, c)
           version == AssessVersion(row, c, prefer)
           isrc    == IsrcSignal(row, c)
           length  == DurationSignal(row, c)
           release == ReleaseSignal(c)
           penalty == MismatchPenalty(row, c)
<1>1. c.base \in 0..100 /\ c.artists \in 0..100
  BY DEF Candidate, Percent
<1>2. title \in Int /\ 0 <= title /\ title <= 20000 + 350 * c.base
  BY TitleBound
<1>3. /\ artist \in Int /\ artist <= 30000
      /\ row.artistKnown => artist = 300 * c.artists
  BY ArtistBound
<1>4. /\ version.score \in Int /\ version.extended \in Int /\ version.penalty \in Int
      /\ version.score + version.extended - version.penalty <= 12000
  BY VersionBound DEF VersionPoints
<1>5. /\ isrc \in Int /\ isrc <= 0
      /\ length \in Int /\ length <= 4000
      /\ release \in Int /\ release <= 2000
  BY SmallSignals
<1>6. penalty \in Int /\ penalty >= 25000
  BY PenaltyBound
<1>7. Points(row, c, prefer) =
        title + artist + version.score + version.extended + isrc + length + release
          - version.penalty - penalty
  BY DEF Points
<1> HIDE DEF title, artist, version, isrc, length, release, penalty
<1>8. title + artist <= 72700
  <2>1. CASE c.base < 48
    BY <1>1, <1>2, <1>3, <2>1
  <2>2. CASE row.artistKnown /\ c.artists < 60
    BY <1>1, <1>2, <1>3, <2>2
  <2> QED
    BY <2>1, <2>2 DEF Mismatch
<1>9. Points(row, c, prefer) \in Int /\ Points(row, c, prefer) <= 100 * 657
  BY <1>2, <1>3, <1>4, <1>5, <1>6, <1>7, <1>8
<1>10. /\ Rounded(Points(row, c, prefer)) \in Int
       /\ Rounded(Points(row, c, prefer)) <= 100 * 657
  <2>1. 657 \in Nat
    OBVIOUS
  <2> QED
    BY <1>9, <2>1, RoundedBound
<1> QED
  BY <1>10 DEF Score

-----------------------------------------------------------------------------

(* The settings in use are normalized and every candidate is one of the    *)
(* configured kind.                                                        *)
PolicyInv ==
    /\ config \in Config /\ config.ambiguous <= config.high
    /\ sourceTrack \in Source
    /\ pool \in Seq(Candidates)

LEMMA ScaleBounds ==
    ASSUME NEW x PROVE x \in Scale <=> x \in Int /\ 0 <= x /\ x <= Top
<1>1. Top \in Int
  BY DEF Top
<1> QED
  BY <1>1 DEF Scale

LEMMA NormalizedConfigs ==
    ASSUME NEW settings \in Config
    PROVE  /\ NormalizedConfig(settings) \in Config
           /\ NormalizedConfig(settings).ambiguous <= NormalizedConfig(settings).high
<1>1. settings.high \in Scale /\ settings.ambiguous \in Scale /\ settings.margin \in Int
  BY DEF Config
<1> DEFINE high      == IF settings.high = 0 THEN 85000 ELSE settings.high
           wanted    == IF settings.ambiguous = 0 THEN 70000 ELSE settings.ambiguous
           ambiguous == Min2(wanted, high)
           margin    == IF settings.margin = 0 THEN 3000 ELSE Max2(0, settings.margin)
           prefer    == settings.preferExtended
                          \/ (settings.high = 0 /\ settings.ambiguous = 0 /\ settings.margin = 0)
<1>2. high \in Scale /\ wanted \in Scale
  BY <1>1, ScaleBounds DEF Top
<1>3. ambiguous \in Scale /\ ambiguous <= high
  <2> HIDE DEF high, wanted
  <2> QED
    BY <1>2, ScaleBounds DEF Min2, Top
<1>4. margin \in Int
  BY <1>1 DEF Max2
<1>5. prefer \in BOOLEAN
  BY DEF Config
<1>6. NormalizedConfig(settings) =
        [high |-> high, ambiguous |-> ambiguous, margin |-> margin, preferExtended |-> prefer]
  BY DEF NormalizedConfig
<1> HIDE DEF high, wanted, ambiguous, margin, prefer
<1>7. NormalizedConfig(settings) \in Config
  BY <1>2, <1>3, <1>4, <1>5, <1>6 DEF Config
<1>8. NormalizedConfig(settings).ambiguous <= NormalizedConfig(settings).high
  BY <1>3, <1>6
<1> QED
  BY <1>7, <1>8

LEMMA InitPolicyInv == PolicyInit => PolicyInv
<1> SUFFICES ASSUME PolicyInit PROVE PolicyInv
  OBVIOUS
<1>1. PICK settings \in Configs : config = NormalizedConfig(settings)
  BY DEF PolicyInit
<1>2. config \in Config /\ config.ambiguous <= config.high
  <2>1. settings \in Config
    BY ConfigAssumption
  <2> QED
    BY <1>1, <2>1, NormalizedConfigs
<1>3. sourceTrack \in Source /\ pool \in Seq(Candidates)
  <2>1. sourceTrack \in Source /\ pool = <<>>
    BY DEF PolicyInit
  <2> QED
    BY <2>1
<1> QED
  BY <1>2, <1>3 DEF PolicyInv

LEMMA NextPolicyInv == PolicyInv /\ [PolicyNext]_policyVars => PolicyInv'
<1> SUFFICES ASSUME PolicyInv, [PolicyNext]_policyVars PROVE PolicyInv'
  OBVIOUS
<1>1. ASSUME NEW c \in Candidates, Find(c) PROVE PolicyInv'
  <2>1. pool' = Append(pool, c) /\ UNCHANGED <<config, sourceTrack>>
    BY <1>1 DEF Find
  <2>2. pool' \in Seq(Candidates)
    BY <2>1 DEF PolicyInv
  <2> QED
    BY <2>1, <2>2 DEF PolicyInv
<1>2. CASE Match
  BY <1>2 DEF Match, PolicyInv
<1>3. CASE UNCHANGED policyVars
  BY <1>3 DEF policyVars, PolicyInv
<1> QED
  BY <1>1, <1>2, <1>3 DEF PolicyNext

LEMMA PolicyInvGuards == PolicyInv => WrongSongIsLow
<1> SUFFICES ASSUME PolicyInv, config.ambiguous >= 66000,
                    NEW c \in Found, WrongSong(c), c.isrc # "same"
             PROVE  Band(config, Score(sourceTrack, c, config.preferExtended)) = "LOW"
  BY DEF WrongSongIsLow
<1>1. c \in Candidate
  BY CandidateAssumption DEF Found, PolicyInv
<1>2. config.high \in Int /\ config.ambiguous \in Int
  <2>1. config.high \in Scale /\ config.ambiguous \in Scale
    BY DEF PolicyInv, Config
  <2> QED
    BY <2>1, ScaleBounds
<1>5. sourceTrack \in Source /\ config.preferExtended \in BOOLEAN
  BY DEF PolicyInv, Config
<1>3. Mismatch(sourceTrack, c)
  BY DEF WrongSong, Mismatch
<1>4. /\ Score(sourceTrack, c, config.preferExtended) \in Int
      /\ Score(sourceTrack, c, config.preferExtended) < 66000
  BY <1>1, <1>3, <1>5, Guardrail
<1> QED
  BY <1>2, <1>4 DEF Band, PolicyInv

(* However well its version, length and release agree, and whatever the    *)
(* settings say as long as LOW ends at 66 points or more, a song with      *)
(* another title or other artists and no common ISRC is LOW (the           *)
(* guardrails of ScoreCandidate).                                          *)
THEOREM WrongSongNeverPasses == PolicySpec => []WrongSongIsLow
<1>1. PolicyInit => PolicyInv
  BY InitPolicyInv
<1>2. PolicyInv /\ [PolicyNext]_policyVars => PolicyInv'
  BY NextPolicyInv
<1>3. PolicyInv => WrongSongIsLow
  BY PolicyInvGuards
<1> QED
  BY <1>1, <1>2, <1>3, PTL DEF PolicySpec

-----------------------------------------------------------------------------
(* Bounds on a whole score.                                                *)

LEMMA PointsType ==
    ASSUME NEW row \in Source, NEW c \in Candidate, NEW prefer \in BOOLEAN
    PROVE  Points(row, c, prefer) \in Int
<1>1. TitleSignal(c) \in Int
  BY TitleBound
<1>2. ArtistSignal(row, c) \in Int
  BY ArtistBound
<1>3. /\ AssessVersion(row, c, prefer).score \in Int /\ AssessVersion(row, c, prefer).extended \in Int
      /\ AssessVersion(row, c, prefer).penalty \in Int
  BY VersionBound
<1>4. IsrcSignal(row, c) \in Int /\ DurationSignal(row, c) \in Int /\ ReleaseSignal(c) \in Int
  BY SmallSignals
<1>5. MismatchPenalty(row, c) \in Int
  BY PenaltyBound
<1> QED BY <1>1, <1>2, <1>3, <1>4, <1>5 DEF Points

(* Without a common ISRC, 55 points for the title and no penalty at best.  *)
LEMMA PointsBound ==
    ASSUME NEW row \in Source, NEW c \in Candidate, NEW prefer \in BOOLEAN, c.isrc # "same"
    PROVE  Points(row, c, prefer) <=
             55000 + ArtistSignal(row, c) + VersionPoints(row, c, prefer)
               + DurationSignal(row, c) + ReleaseSignal(c)
<1> DEFINE title   == TitleSignal(c)
           artist  == ArtistSignal(row, c)
           version == AssessVersion(row, c, prefer)
           isrc    == IsrcSignal(row, c)
           length  == DurationSignal(row, c)
           release == ReleaseSignal(c)
           penalty == MismatchPenalty(row, c)
<1>1. title \in Int /\ title <= 55000
  <2>1. c.base \in 0..100
    BY DEF Candidate, Percent
  <2>2. title \in Int /\ title <= 20000 + 350 * c.base
    BY TitleBound
  <2> HIDE DEF title
  <2> QED BY <2>1, <2>2
<1>2. artist \in Int
  BY ArtistBound
<1>3. version.score \in Int /\ version.extended \in Int /\ version.penalty \in Int
  BY VersionBound
<1>4. isrc \in Int /\ isrc <= 0 /\ length \in Int /\ release \in Int
  BY SmallSignals
<1>5. penalty \in Int /\ penalty >= 0
  BY PenaltyBound
<1>6. Points(row, c, prefer) =
        title + artist + version.score + version.extended + isrc + length + release
          - version.penalty - penalty
  BY DEF Points
<1>7. VersionPoints(row, c, prefer) = version.score + version.extended - version.penalty
  BY DEF VersionPoints
<1> HIDE DEF title, artist, version, isrc, length, release, penalty
<1> QED BY <1>1, <1>2, <1>3, <1>4, <1>5, <1>6, <1>7 DEF artist, length, release

(* A version that was not asked for ends at 81 points, a bare title at 82. *)
LEMMA NoHighWithoutMerit ==
    ASSUME NEW row \in Source, NEW c \in Candidate, NEW prefer \in BOOLEAN, c.isrc # "same",
           \/ Unrequested(row, c)
           \/ ~row.artistKnown /\ c.duration < 0 /\ c.release < 55
    PROVE  Score(row, c, prefer) \in Int /\ Score(row, c, prefer) <= 82000
<1> DEFINE artist  == ArtistSignal(row, c)
           version == VersionPoints(row, c, prefer)
           length  == DurationSignal(row, c)
           release == ReleaseSignal(c)
           points  == Points(row, c, prefer)
<1>1. artist \in Int /\ artist <= 30000 /\ (~row.artistKnown => artist = 15000)
  BY ArtistBound
<1>2. version \in Int /\ version <= 12000 /\ (Unrequested(row, c) => version <= -10000)
  BY VersionBound DEF VersionPoints
<1>3. /\ length \in Int /\ length <= 4000 /\ (c.duration < 0 => length = 0)
      /\ release \in Int /\ release <= 2000 /\ (c.release < 55 => release = 0)
  BY SmallSignals
<1>4. points \in Int /\ points <= 55000 + artist + version + length + release
  BY PointsType, PointsBound
<1> HIDE DEF artist, version, length, release, points
<1> DEFINE top == 820
<1>5. top \in Nat /\ points <= 100 * top
  <2>1. CASE Unrequested(row, c)
    BY <1>1, <1>2, <1>3, <1>4, <2>1
  <2>2. CASE ~row.artistKnown /\ c.duration < 0 /\ c.release < 55
    BY <1>1, <1>2, <1>3, <1>4, <2>2
  <2> QED BY <2>1, <2>2
<1>6. Rounded(points) \in Int /\ Rounded(points) <= 100 * top
  <2>1. points \in Int
    BY <1>4
  <2> HIDE DEF top
  <2> QED BY <1>5, <2>1, RoundedBound
<1>7. Rounded(points) <= 82000
  BY <1>6
<1> QED BY <1>6, <1>7 DEF Score, points

LEMMA RoundedIsMonotonic ==
    ASSUME NEW x \in Int, NEW y \in Int, x <= y
    PROVE  Rounded(x) \in Int /\ Rounded(y) \in Int /\ Rounded(x) <= Rounded(y)
<1> DEFINE u == Max2(0, Min2(Top, x))
           v == Max2(0, Min2(Top, y))
<1>1. u \in Int /\ v \in Int /\ u <= v
  BY DEF Max2, Min2, Top
<1> HIDE DEF u, v
<1>2. (u + 50) \div 100 \in Int /\ (v + 50) \div 100 \in Int /\ (u + 50) \div 100 <= (v + 50) \div 100
  BY <1>1
<1>3. Rounded(x) = 100 * ((u + 50) \div 100) /\ Rounded(y) = 100 * ((v + 50) \div 100)
  BY DEF Rounded, u, v
<1> QED BY <1>2, <1>3

LEMMA ScoreType ==
    ASSUME NEW row \in Source, NEW c \in Candidate, NEW prefer \in BOOLEAN
    PROVE  Score(row, c, prefer) \in Int
BY PointsType, RoundedIsMonotonic DEF Score

-----------------------------------------------------------------------------
(* The Extended Mix against the Original of the same song.                 *)

(* What does not depend on the mix or its length.                          *)
Shared(row, c) ==
    TitleSignal(c) + ArtistSignal(row, c) + ReleaseSignal(c) - MismatchPenalty(row, c)

LEMMA PointsSum ==
    ASSUME NEW row \in Source, NEW c \in Candidate, NEW prefer \in BOOLEAN
    PROVE  /\ Shared(row, c) \in Int
           /\ Points(row, c, prefer) =
                Shared(row, c) + VersionPoints(row, c, prefer)
                  + IsrcSignal(row, c) + DurationSignal(row, c)
<1> DEFINE title   == TitleSignal(c)
           artist  == ArtistSignal(row, c)
           version == AssessVersion(row, c, prefer)
           isrc    == IsrcSignal(row, c)
           length  == DurationSignal(row, c)
           release == ReleaseSignal(c)
           penalty == MismatchPenalty(row, c)
<1>1. title \in Int /\ artist \in Int
  BY TitleBound, ArtistBound
<1>2. isrc \in Int /\ length \in Int /\ release \in Int
  BY SmallSignals
<1>3. version.score \in Int /\ version.extended \in Int /\ version.penalty \in Int
  BY VersionBound
<1>4. penalty \in Int
  BY PenaltyBound
<1>5. Points(row, c, prefer) =
        title + artist + version.score + version.extended + isrc + length + release
          - version.penalty - penalty
  BY DEF Points
<1>6. /\ VersionPoints(row, c, prefer) = version.score + version.extended - version.penalty
      /\ Shared(row, c) = title + artist + release - penalty
  BY DEF VersionPoints, Shared
<1> HIDE DEF title, artist, version, isrc, length, release, penalty
<1> QED BY <1>1, <1>2, <1>3, <1>4, <1>5, <1>6 DEF isrc, length

LEMMA ExtendedScoresAsWell ==
    ASSUME NEW row \in Source, row.version \in {"default", "original", "radio"},
           NEW c \in Candidate, c.version \in {"default", "original"},
           NEW d \in Candidate, d.version = "extended", SameBut(c, d),
           NEW prefer, prefer = TRUE
    PROVE  Score(row, c, prefer) <= Score(row, d, prefer)
<1> DEFINE rest(e) == Shared(row, e)
           mix(e)  == VersionPoints(row, e, prefer)
           code(e) == IsrcSignal(row, e)
           span(e) == DurationSignal(row, e)
<1>1. /\ d.full = c.full /\ d.base = c.base /\ d.artists = c.artists
      /\ d.release = c.release /\ d.isrc = c.isrc
  BY DEF SameBut, Candidate
<1>2. rest(d) = rest(c)
  BY <1>1 DEF Shared, TitleSignal, ArtistSignal, ReleaseSignal, MismatchPenalty
<1>3. code(c) \in Int /\ code(d) \in Int /\ code(c) <= code(d)
  <2>1. c.isrc \in {"unknown", "same", "differs"}
    BY DEF Candidate
  <2>2. code(c) <= code(d)
    BY <1>1, <2>1 DEF IsrcSignal, NamedOrSpecific
  <2> QED BY <2>2, SmallSignals
<1>4. /\ mix(c) \in Int /\ mix(c) <= 5000
      /\ row.version = "default" => mix(c) <= 3000
  <2>1. AssessVersion(row, c, prefer) = Verdict(Counterpart(row.version, c.version), 0, 0)
    BY DEF AssessVersion, NamedOrSpecific
  <2>2. /\ Counterpart(row.version, c.version) \in Int
        /\ Counterpart(row.version, c.version) <= 5000
        /\ row.version = "default" => Counterpart(row.version, c.version) <= 3000
    BY DEF Counterpart
  <2>3. mix(c) = Counterpart(row.version, c.version)
    BY <2>1, <2>2 DEF VersionPoints, Verdict
  <2> QED BY <2>2, <2>3
<1>5. mix(d) = IF row.version = "default" THEN 8000 ELSE 9000
  <2>1. AssessVersion(row, d, prefer) =
          Verdict(1000, IF row.version = "default" THEN 7000 ELSE 8000, 0)
    BY DEF AssessVersion, NamedOrSpecific
  <2> QED BY <2>1 DEF VersionPoints, Verdict
<1>6. /\ span(c) \in Int /\ span(c) <= 4000
      /\ span(d) \in Int /\ span(d) >= 0
  <2>1. span(d) >= 0
    BY DEF DurationSignal, Candidate
  <2> QED BY <2>1, SmallSignals
<1>7. ASSUME NEW e \in Candidate
      PROVE  rest(e) \in Int /\ Points(row, e, prefer) = rest(e) + mix(e) + code(e) + span(e)
  <2>1. prefer \in BOOLEAN
    OBVIOUS
  <2> QED BY <2>1, PointsSum, Zenon
<1> HIDE DEF rest, mix, code, span
<1>8. /\ rest(c) \in Int /\ rest(d) \in Int
      /\ Points(row, c, prefer) = rest(c) + mix(c) + code(c) + span(c)
      /\ Points(row, d, prefer) = rest(d) + mix(d) + code(d) + span(d)
  BY <1>7
<1>9. mix(d) \in Int /\ mix(c) + 4000 <= mix(d)
  BY <1>4, <1>5
<1>10. Points(row, c, prefer) <= Points(row, d, prefer)
  BY <1>2, <1>3, <1>4, <1>6, <1>8, <1>9
<1>11. Points(row, c, prefer) \in Int /\ Points(row, d, prefer) \in Int
  BY PointsType
<1> QED BY <1>10, <1>11, RoundedIsMonotonic DEF Score

-----------------------------------------------------------------------------
(* RankCandidates: the order of the candidates is one.                     *)

BeforePairs(row, settings, found) ==
    {pair \in (1..Len(found)) \X (1..Len(found)) : Before(row, settings, found, pair[1], pair[2])}

LEMMA BeforeIsStrictTotal ==
    ASSUME NEW row \in Source, NEW settings \in Config, NEW found \in Seq(Candidate)
    PROVE  StrictTotal(BeforePairs(row, settings, found), 1..Len(found))
<1> DEFINE S == 1..Len(found)
           At(i) == Score(row, found[i], settings.preferExtended)
           Prefers(i, j) == settings.preferExtended /\ ExtendedOnly(found[i], found[j])
<1>1. \A i \in S : i \in Int /\ At(i) \in Int
  <2>1. settings.preferExtended \in BOOLEAN /\ \A i \in S : found[i] \in Candidate
    BY DEF Config
  <2> QED BY <2>1, ScoreType
<1>2. \A i, j \in S : <<i, j>> \in BeforePairs(row, settings, found) <=>
          \/ At(i) > At(j)
          \/ At(i) = At(j) /\ (Prefers(i, j) \/ (~Prefers(j, i) /\ i < j))
  BY DEF BeforePairs, Before
<1>3. \A i, j, k \in S : /\ ~Prefers(i, i)
                         /\ ~(Prefers(i, j) /\ Prefers(j, i)) /\ ~(Prefers(i, j) /\ Prefers(j, k))
                         /\ Prefers(i, j) => Prefers(i, k) \/ Prefers(k, j)
  BY DEF ExtendedOnly
<1> HIDE DEF S, At, Prefers
<1>4. \A i \in S : <<i, i>> \notin BeforePairs(row, settings, found)
  BY <1>1, <1>2, <1>3
<1>5. ASSUME NEW i \in S, NEW j \in S, NEW k \in S,
             <<i, j>> \in BeforePairs(row, settings, found),
             <<j, k>> \in BeforePairs(row, settings, found)
      PROVE  <<i, k>> \in BeforePairs(row, settings, found)
  BY <1>1, <1>2, <1>3, <1>5
<1>6. ASSUME NEW i \in S, NEW j \in S, i # j
      PROVE  <<i, j>> \in BeforePairs(row, settings, found) \/ <<j, i>> \in BeforePairs(row, settings, found)
  <2>1. At(i) > At(j) \/ At(j) > At(i) \/ (At(i) = At(j) /\ (i < j \/ j < i))
    BY <1>1, <1>6
  <2>2. CASE At(i) > At(j) \/ At(j) > At(i)
    BY <1>2, <2>2
  <2>3. CASE At(i) = At(j) /\ (i < j \/ j < i)
    BY <1>2, <1>3, <2>3
  <2> QED BY <2>1, <2>2, <2>3
<1> QED BY <1>4, <1>5, <1>6 DEF StrictTotal, S

IsRanking(row, settings, found, ranking) ==
    /\ ranking \in [1..Len(found) -> 1..Len(found)]
    /\ \A i, j \in 1..Len(found) : i < j => Before(row, settings, found, ranking[i], ranking[j])

LEMMA RankedRanks ==
    ASSUME NEW row \in Source, NEW settings \in Config, NEW found \in Seq(Candidate)
    PROVE  IsRanking(row, settings, found, Ranked(row, settings, found))
<1> DEFINE n == Len(found)
           S == 1..n
           R == BeforePairs(row, settings, found)
<1>1. n \in Nat
  OBVIOUS
<1>2. IsFiniteSet(S) /\ Cardinality(S) = n
  <2> HIDE DEF n
  <2> QED BY <1>1, FS_Interval
<1>3. StrictTotal(R, S)
  BY BeforeIsStrictTotal
<1>4. ASSUME NEW f \in [S -> S], NEW i \in S, NEW j \in S
      PROVE  <<f[i], f[j]>> \in R <=> Before(row, settings, found, f[i], f[j])
  BY DEF BeforePairs
<1>5. PICK f : f \in Sortings(R, S)
  <2> HIDE DEF R, S, n
  <2> QED BY <1>2, <1>3, SortingExists
<1>6. IsRanking(row, settings, found, f)
  <2> HIDE DEF R
  <2> QED BY <1>2, <1>4, <1>5 DEF Sortings, IsRanking
<1> QED BY <1>6 DEF Ranked, IsRanking

-----------------------------------------------------------------------------
(* The result of Match.                                                    *)

Unmatched == confidence = ""

(* A result stands for the pool it was made from: no candidate is found    *)
(* after it.                                                               *)
MatchedInv ==
    /\ chosen # 0 =>
          /\ confidence = "HIGH" /\ chosen \in 1..Len(pool)
          /\ Band(config, Score(sourceTrack, pool[chosen], config.preferExtended)) = "HIGH"
    /\ Unmatched \/ IsRanking(sourceTrack, config, pool, order)

LEMMA PoolIsOfCandidates == PolicyInv => pool \in Seq(Candidate) /\ config.preferExtended \in BOOLEAN
<1> SUFFICES ASSUME PolicyInv PROVE pool \in Seq(Candidate) /\ config.preferExtended \in BOOLEAN
  OBVIOUS
<1>1. pool \in Seq(Candidates) /\ \A i \in 1..Len(pool) : pool[i] \in Candidate
  BY CandidateAssumption DEF PolicyInv
<1> QED BY <1>1 DEF PolicyInv, Config

LEMMA InitMatchedInv == PolicyInit => MatchedInv
BY Zenon DEF PolicyInit, MatchedInv, Unmatched

LEMMA NextMatchedInv == PolicyInv /\ MatchedInv /\ [PolicyNext]_policyVars => MatchedInv'
<1> SUFFICES ASSUME PolicyInv, MatchedInv, [PolicyNext]_policyVars PROVE MatchedInv'
  OBVIOUS
<1>1. ASSUME NEW c \in Candidates, Find(c) PROVE MatchedInv'
  <2>1. Unmatched /\ UNCHANGED <<confidence, chosen>>
    BY <1>1, Zenon DEF Find, Unmatched
  <2>2. Unmatched => confidence # "HIGH"
    BY Zenon DEF Unmatched
  <2>3. chosen = 0
    BY <2>1, <2>2 DEF MatchedInv
  <2>4. Unmatched'
    BY <2>1, Zenon DEF Unmatched
  <2> QED BY <2>1, <2>3, <2>4 DEF MatchedInv
<1>2. CASE Match
  <2>1. /\ order' = Ranked(sourceTrack, config, pool)
        /\ confidence' = IF pool = <<>> THEN "LOW" ELSE Confidence(sourceTrack, config, pool, order')
        /\ chosen' = IF confidence' = "HIGH" THEN order'[1] ELSE 0
        /\ UNCHANGED <<config, sourceTrack, pool>>
    BY <1>2, Zenon DEF Match
  <2>2. IsRanking(sourceTrack, config, pool, Ranked(sourceTrack, config, pool))
    BY PoolIsOfCandidates, RankedRanks DEF PolicyInv
  <2>3. IsRanking(sourceTrack, config, pool, order')
    BY <2>1, <2>2
  <2>4. ASSUME chosen' # 0
        PROVE  /\ confidence' = "HIGH" /\ chosen' \in 1..Len(pool)
               /\ Band(config, Score(sourceTrack, pool[chosen'], config.preferExtended)) = "HIGH"
    <3>1. confidence' = "HIGH" /\ pool # <<>> /\ Confidence(sourceTrack, config, pool, order') = "HIGH"
          /\ chosen' = order'[1]
      BY <2>1, <2>4
    <3>2. Len(pool) \in Nat /\ Len(pool) >= 1
      BY <3>1 DEF PolicyInv
    <3>3. order'[1] \in 1..Len(pool)
      BY <2>3, <3>2 DEF IsRanking
    <3>4. Band(config, Score(sourceTrack, pool[order'[1]], config.preferExtended)) = "HIGH"
      BY <3>1 DEF Confidence
    <3> QED BY <3>1, <3>3, <3>4
  <2> QED BY <2>1, <2>3, <2>4 DEF MatchedInv
<1>3. CASE UNCHANGED policyVars
  <2>1. Unmatched' <=> Unmatched
    BY <1>3, Zenon DEF policyVars, Unmatched
  <2> QED BY <1>3, <2>1 DEF policyVars, MatchedInv
<1> QED BY <1>1, <1>2, <1>3 DEF PolicyNext

LEMMA MatchedIsEarned == PolicyInv /\ MatchedInv => ChosenIsEarned
<1> SUFFICES ASSUME PolicyInv, MatchedInv, config.high >= 85000, chosen # 0
             PROVE  LET c == pool[chosen]
                    IN  \/ c.isrc = "same"
                        \/ ~WrongSong(c) /\ ~WrongVersion(c) /\ ~TitleAlone(c)
  BY DEF ChosenIsEarned
<1> DEFINE c == pool[chosen]
           prefer == config.preferExtended
           score == Score(sourceTrack, c, prefer)
<1>1. c \in Candidate /\ sourceTrack \in Source /\ prefer \in BOOLEAN
  BY PoolIsOfCandidates DEF MatchedInv, PolicyInv
<1>2. config.high \in Int
  <2>1. config.high \in Scale
    BY DEF PolicyInv, Config
  <2> QED BY <2>1, ScaleBounds
<1>3. score \in Int
  BY <1>1, ScoreType
<1>4. score >= 85000
  <2>1. Band(config, score) = "HIGH"
    BY DEF MatchedInv
  <2>2. score >= config.high
    BY <2>1 DEF Band
  <2> HIDE DEF score
  <2> QED BY <1>2, <1>3, <2>2
<1>5. ASSUME c.isrc # "same" PROVE ~WrongSong(c) /\ ~WrongVersion(c) /\ ~TitleAlone(c)
  <2>1. ~WrongSong(c)
    <3>1. SUFFICES ASSUME WrongSong(c) PROVE FALSE
      OBVIOUS
    <3>2. Mismatch(sourceTrack, c)
      BY <3>1 DEF WrongSong, Mismatch
    <3>3. score < 66000
      BY <1>1, <1>5, <3>2, Guardrail
    <3> HIDE DEF score
    <3> QED BY <1>3, <1>4, <3>3
  <2>2. ~(WrongVersion(c) \/ TitleAlone(c))
    <3>1. SUFFICES ASSUME WrongVersion(c) \/ TitleAlone(c) PROVE FALSE
      OBVIOUS
    <3>2. Unrequested(sourceTrack, c) \/ (~sourceTrack.artistKnown /\ c.duration < 0 /\ c.release < 55)
      BY <3>1 DEF WrongVersion, TitleAlone, Unrequested
    <3>3. score <= 82000
      BY <1>1, <1>5, <3>2, NoHighWithoutMerit
    <3> HIDE DEF score
    <3> QED BY <1>3, <1>4, <3>3
  <2> QED BY <2>1, <2>2
<1> QED BY <1>5

LEMMA MatchedPrefersExtended == PolicyInv /\ MatchedInv => ExtendedWins
<1> SUFFICES ASSUME PolicyInv, MatchedInv, ~Unmatched, config.preferExtended,
                    sourceTrack.version \in {"default", "original", "radio"},
                    NEW i \in 1..Len(order), NEW j \in 1..Len(order),
                    pool[order[i]].version \in {"default", "original"},
                    pool[order[j]].version = "extended",
                    SameBut(pool[order[i]], pool[order[j]])
             PROVE  j < i
  BY Zenon DEF ExtendedWins, Unmatched
<1> DEFINE c == pool[order[i]]
           d == pool[order[j]]
           At(k) == Score(sourceTrack, pool[k], config.preferExtended)
<1>1. IsRanking(sourceTrack, config, pool, order)
  BY DEF MatchedInv
<1>2. Len(pool) \in Nat /\ Len(order) = Len(pool) /\ i \in Nat /\ j \in Nat
  <2>1. Len(pool) \in Nat
    BY DEF PolicyInv
  <2> QED BY <1>1, <2>1 DEF IsRanking
<1>3. order[i] \in 1..Len(pool) /\ order[j] \in 1..Len(pool)
  BY <1>1, <1>2 DEF IsRanking
<1>4. c \in Candidate /\ d \in Candidate /\ sourceTrack \in Source
  BY <1>3, PoolIsOfCandidates DEF PolicyInv
<1>5. config.preferExtended \in BOOLEAN /\ config.preferExtended = TRUE
  BY PoolIsOfCandidates
<1>6. At(order[i]) \in Int /\ At(order[j]) \in Int /\ At(order[i]) <= At(order[j])
  BY <1>4, <1>5, ExtendedScoresAsWell, ScoreType, Zenon
<1>7. ExtendedOnly(d, c) /\ ~ExtendedOnly(c, d) /\ i # j
  BY DEF ExtendedOnly
<1>8. ~Before(sourceTrack, config, pool, order[i], order[j])
  <2>1. Before(sourceTrack, config, pool, order[i], order[j]) =>
          \/ At(order[i]) > At(order[j])
          \/ ExtendedOnly(c, d) \/ ~(config.preferExtended /\ ExtendedOnly(d, c))
    BY Zenon DEF Before
  <2>2. ~(At(order[i]) > At(order[j]))
    <3> HIDE DEF At
    <3> QED BY <1>6
  <2> QED BY <1>5, <1>7, <2>1, <2>2, Zenon
<1>9. ~(i < j)
  BY <1>1, <1>2, <1>8 DEF IsRanking
<1> QED BY <1>2, <1>7, <1>9

(* Whatever the thresholds are, as long as HIGH begins at the 85 points    *)
(* of the default or more, and whatever signals agree: what is chosen      *)
(* without asking is the requested song in the requested version, and more *)
(* than its title speaks for it.  The best that another version can reach  *)
(* is 81 points, a mere title 82.                                          *)
THEOREM NothingChosenUnearned == PolicySpec => []ChosenIsEarned
<1> QED BY InitPolicyInv, NextPolicyInv, InitMatchedInv, NextMatchedInv, MatchedIsEarned, PTL DEF PolicySpec

(* In every ranking an Extended Mix stands before the Original that only   *)
(* differs from it in the mix and its length, even where the bonus for the *)
(* right length makes it a tie (assessVersion, durationSignal and the      *)
(* comparison of RankCandidates together).                                 *)
THEOREM ExtendedMixWins == PolicySpec => []ExtendedWins
<1> QED BY InitPolicyInv, NextPolicyInv, InitMatchedInv, NextMatchedInv, MatchedPrefersExtended, PTL DEF PolicySpec

=============================================================================
