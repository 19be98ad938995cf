------------------------------ MODULE RowSearch ------------------------------
(***************************************************************************)
(* One row of the first loop of Engine.Run in full: the staged search of   *)
(* its queries through the search cache, the match of the accumulated      *)
(* pool, and, for an ambiguous match, the terminal dialogue of             *)
(* internal/ui.Resolver with its custom searches.                          *)
(*                                                                         *)
(* A track is its ID and a score is a small integer; what a query finds is *)
(* Beatport's choice at the time it is asked.                              *)
(***************************************************************************)
EXTENDS Integers, Sequences, FiniteSets, SequencesExt

CONSTANTS
    IDs,            \* IDs that results may carry; those below 1 are invalid
    Extended,       \* those of Extended Mixes, when config.PreferExtended, else {}
    ScoreTables,    \* what ScoreCandidate may make of them: functions from IDs
    Results,        \* the sets of IDs a query may find
    High, Plausible, Margin,     \* matcher.Config
    Passes,         \* GenerateQueryPasses: a sequence of sequences of queries
    Typed,          \* queries the user may type
    Page            \* candidates shown at a time

ASSUME ConfigAssumption ==
    High \in Int /\ Plausible \in Int /\ High >= Plausible /\ Margin \in Int /\ Margin > 0
ASSUME ScoreAssumption ==
    IDs \subseteq Int /\ Extended \subseteq IDs /\ ScoreTables \subseteq [IDs -> Int]
ASSUME ResultAssumption ==
    Results \subseteq SUBSET IDs /\ \A result \in Results : IsFiniteSet(result)
ASSUME PassAssumption ==
    /\ Passes \in Seq(Range(Passes)) /\ Len(Passes) > 0
    /\ \A p \in DOMAIN Passes : Passes[p] \in Seq(Range(Passes[p])) /\ Len(Passes[p]) > 0
ASSUME PageAssumption == Page \in Nat \ {0}

Queries == (UNION {Range(Passes[p]) : p \in DOMAIN Passes}) \cup Typed

VARIABLES
    score,      \* what ScoreCandidate makes of each ID for this row
    mode,       \* "auto", "ask" or "leave": what happens to an ambiguous match
    cached,     \* the search cache: per query, {} or the set of its one entry
    caching,    \* options.Cache # nil: not --no-cache
    cancelled,  \* the run's context is done
    pc,         \* "search", "decide", "show", "ask", "done" or "panic"
    pass, at,   \* the query loop: Passes[pass][at] is next
    pool,       \* the keys of byID
    failed,     \* the queries of the row that were answered by an error
    current, visible,   \* Resolver.Resolve's variables
    status, chosen,     \* the outcome; chosen is 0 when there is none
    error,      \* outcome.Error, by the call that failed: "none", "search" or "terminal"
    answers     \* history: Beatport's last answer, per query

searchVars == <<pass, at, pool, failed>>
dialogVars == <<current, visible>>
cacheVars  == <<cached, answers>>
verdict    == <<status, chosen, error>>
setting    == <<score, mode, caching>>
vars == <<setting, cancelled, pc, searchVars, dialogVars, cacheVars, verdict>>

Init ==
    /\ score \in ScoreTables
    /\ mode \in {"auto", "ask", "leave"}
    /\ caching \in BOOLEAN
    /\ answers \in [Queries -> {{}} \cup {{result} : result \in Results}]
    /\ \A q \in Queries \ Typed : answers[q] = {}
    /\ cached = IF caching THEN answers ELSE [q \in Queries |-> {}]
    /\ cancelled = FALSE
    /\ pc = "search"
    /\ pass = 1 /\ at = 1
    /\ pool = {} /\ failed = {}
    /\ current = <<>> /\ visible = 0
    /\ status = "" /\ chosen = 0 /\ error = "none"

-----------------------------------------------------------------------------
(* internal/matcher: ranking and confidence.                               *)

(* Mutant: an ID of zero passes for a valid one.                           *)
NotNegative(ids) == {id \in ids : id >= 0}

(* Results without a valid ID do not enter the pool.                       *)
Positive(ids) == {id \in ids : id > 0}

(* A candidate's own confidence, before the runner-up is looked at.        *)
Band(id) == CASE score[id] >= High -> "HIGH"
              [] score[id] < High /\ score[id] >= Plausible -> "AMBIGUOUS"
              [] score[id] < Plausible -> "LOW"

(* The order of RankCandidates: a preferred Extended Mix wins a tie.       *)
Better(a, b) ==
    \/ score[a] > score[b]
    \/ score[a] = score[b] /\ a \in Extended /\ b \notin Extended
    \/ score[a] = score[b] /\ (a \in Extended <=> b \in Extended) /\ a < b

Ranked(ids) ==
    CHOOSE ranking \in [1..Cardinality(ids) -> ids] :
        \A i, j \in 1..Cardinality(ids) : i < j => Better(ranking[i], ranking[j])

(* Mutant: the runner-up is compared with <=, not <.                       *)
ConfidenceIgnoresTies(ids) ==
    LET ranked == Ranked(ids)
    IN  IF ids = {} THEN "LOW"
        ELSE IF Len(ranked) > 1 /\ score[ranked[1]] - score[ranked[2]] < Margin - 1
        THEN IF Band(ranked[1]) = "HIGH" THEN "AMBIGUOUS" ELSE Band(ranked[1])
        ELSE Band(ranked[1])

(* Match: a top candidate with a close runner-up is only AMBIGUOUS.        *)
Confidence(ids) ==
    LET ranked == Ranked(ids)
        close  == Len(ranked) > 1 /\ score[ranked[1]] - score[ranked[2]] < Margin
    IN  IF ids = {} THEN "LOW"
        ELSE IF close /\ Band(ranked[1]) = "HIGH" THEN "AMBIGUOUS"
        ELSE Band(ranked[1])

-----------------------------------------------------------------------------
(* searchQuery: the cache first, then Beatport, whose answer is cached.    *)

Hit(q) == cached[q] # {}

Answer(q, result) ==
    /\ ~cancelled
    /\ answers' = [answers EXCEPT ![q] = {result}]
    /\ cached' = IF caching THEN [cached EXCEPT ![q] = {result}] ELSE cached

Query == Passes[pass][at]

Searching == pc = "search" /\ at <= Len(Passes[pass])

Found(result) ==
    /\ pool' = pool \cup Positive(result)
    /\ at' = at + 1
    /\ UNCHANGED <<setting, cancelled, pc, pass, failed, dialogVars, verdict>>

FromCache ==
    /\ Searching /\ Hit(Query)
    /\ \E result \in cached[Query] : Found(result)
    /\ UNCHANGED cacheVars

FromBeatport ==
    /\ Searching /\ ~Hit(Query)
    /\ \E result \in Results : Answer(Query, result) /\ Found(result)

(* Mutants: the error of a query is forgotten; a failed query is cached as *)
(* one without results.                                                    *)
QueryFailsSilently ==
    /\ Searching /\ ~Hit(Query)
    /\ at' = at + 1
    /\ UNCHANGED <<setting, cancelled, pc, pass, pool, failed, dialogVars, cacheVars, verdict>>

QueryFailsAsEmpty ==
    /\ Searching /\ ~Hit(Query)
    /\ failed' = failed \cup {Query}
    /\ at' = at + 1
    /\ cached' = IF caching THEN [cached EXCEPT ![Query] = {{}}] ELSE cached
    /\ UNCHANGED <<setting, cancelled, pc, pass, pool, dialogVars, answers, verdict>>

QueryFails ==
    /\ Searching /\ ~Hit(Query)
    /\ failed' = failed \cup {Query}
    /\ at' = at + 1
    /\ UNCHANGED <<setting, cancelled, pc, pass, pool, dialogVars, cacheVars, verdict>>

(* Mutant: the next pass starts without looking at the pool, for ever.     *)
EndPassRestarts ==
    /\ pc = "search" /\ at > Len(Passes[pass])
    /\ IF Confidence(pool) = "HIGH"
       THEN pc' = "decide" /\ UNCHANGED <<pass, at>>
       ELSE pass' = 1 /\ at' = 1 /\ UNCHANGED pc
    /\ UNCHANGED <<setting, cancelled, pool, failed, dialogVars, cacheVars, verdict>>

(* The preliminary match: HIGH ends the search, else the next pass starts. *)
EndPass ==
    /\ pc = "search" /\ at > Len(Passes[pass])
    /\ IF Confidence(pool) = "HIGH" \/ pass = Len(Passes)
       THEN pc' = "decide" /\ UNCHANGED <<pass, at>>
       ELSE pass' = pass + 1 /\ at' = 1 /\ UNCHANGED pc
    /\ UNCHANGED <<setting, cancelled, pool, failed, dialogVars, cacheVars, verdict>>

-----------------------------------------------------------------------------
(* The verdict on the pool.                                                *)

Conclude(newStatus, id, cause) ==
    /\ pc' = "done" /\ status' = newStatus /\ chosen' = id /\ error' = cause
    /\ UNCHANGED <<setting, cancelled, searchVars, dialogVars, cacheVars>>

Settle(newStatus, id) == Conclude(newStatus, id, "none")

Fail(cause) == Conclude("FAILED", 0, cause)

NothingAnswered == pc = "decide" /\ pool = {} /\ failed # {} /\ Fail("search")

Deciding(confidence) ==
    pc = "decide" /\ ~(pool = {} /\ failed # {}) /\ Confidence(pool) = confidence

TakeHigh == Deciding("HIGH") /\ Settle("MATCHED", Ranked(pool)[1])

TakeLow == Deciding("LOW") /\ Settle("NOT_FOUND", 0)

TakeAmbiguous ==
    /\ Deciding("AMBIGUOUS")
    /\ \/ mode = "auto" /\ Settle("MATCHED", Ranked(pool)[1])
       \/ mode = "leave" /\ Settle("AMBIGUOUS", 0)
       \/ /\ mode = "ask"
          /\ pc' = "show"
          /\ current' = Ranked(pool)
          /\ visible' = IF Cardinality(pool) < Page THEN Cardinality(pool) ELSE Page
          /\ UNCHANGED <<setting, cancelled, searchVars, cacheVars, verdict>>

-----------------------------------------------------------------------------
(* Resolver.Resolve.  An answer may be the last before the input ends.     *)

(* The candidates are printed: reading one beyond the list is a panic.     *)
Show ==
    /\ pc = "show"
    /\ pc' = IF visible > Len(current) THEN "panic" ELSE "ask"
    /\ UNCHANGED <<setting, cancelled, searchVars, dialogVars, cacheVars, verdict>>

(* "0", the end of the input, or any other last answer but a valid number. *)
Skip == pc = "ask" /\ Settle("SKIPPED", 0)

ReadFails == pc = "ask" /\ Fail("terminal")

Select == pc = "ask" /\ \E k \in 1..visible : Settle("MATCHED", current[k])

More ==
    /\ pc = "ask"
    /\ visible' = IF visible + Page < Len(current) THEN visible + Page ELSE Len(current)
    /\ pc' = "show"
    /\ UNCHANGED <<setting, cancelled, searchVars, current, cacheVars, verdict>>

(* An empty query, or an answer that means nothing.                        *)
Misunderstood ==
    /\ pc = "ask"
    /\ pc' = "show"
    /\ UNCHANGED <<setting, cancelled, searchVars, dialogVars, cacheVars, verdict>>

(* A custom search replaces the candidates, unfiltered, or ends the        *)
(* dialogue when the input has ended.                                      *)
Present(result, ended) ==
    /\ current' = Ranked(result)
    /\ visible' = IF Cardinality(result) < Page THEN Cardinality(result) ELSE Page
    /\ pc' = IF ended THEN "done" ELSE "show"
    /\ status' = IF ended THEN "SKIPPED" ELSE status
    /\ UNCHANGED <<setting, cancelled, searchVars, chosen, error>>

SearchAgain ==
    /\ pc = "ask"
    /\ \E q \in Typed, ended \in BOOLEAN :
          \/ (\E result \in cached[q] : Present(result, ended)) /\ UNCHANGED cacheVars
          \/ ~Hit(q) /\ \E result \in Results : Answer(q, result) /\ Present(result, ended)

(* The candidates are lost with the error: visible is left alone.          *)
SearchAgainFails ==
    /\ pc = "ask"
    /\ \E q \in Typed : ~Hit(q)
    /\ current' = <<>>
    /\ pc' = "show"
    /\ UNCHANGED <<setting, cancelled, searchVars, visible, cacheVars, verdict>>

-----------------------------------------------------------------------------
(* Between two calls: SIGINT, and the expiry of a cache entry.             *)

Interrupt ==
    /\ pc \notin {"done", "panic"} /\ ~cancelled
    /\ cancelled' = TRUE
    /\ UNCHANGED <<setting, pc, searchVars, dialogVars, cacheVars, verdict>>

Expire ==
    /\ pc \notin {"done", "panic"}
    /\ \E q \in Queries : Hit(q) /\ cached' = [cached EXCEPT ![q] = {}]
    /\ UNCHANGED <<setting, cancelled, pc, searchVars, dialogVars, answers, verdict>>

SearchStep == FromCache \/ FromBeatport \/ QueryFails \/ EndPass

DecideStep == NothingAnswered \/ TakeHigh \/ TakeLow \/ TakeAmbiguous

DialogStep ==
    Show \/ Skip \/ ReadFails \/ Select \/ More \/ Misunderstood \/ SearchAgain \/ SearchAgainFails

Next == SearchStep \/ DecideStep \/ DialogStep \/ Interrupt \/ Expire

(* The loops are sequential code over calls that return; nothing is        *)
(* assumed of the user's answers.                                          *)
Spec == Init /\ [][Next]_vars /\ WF_vars(SearchStep \/ DecideStep)

-----------------------------------------------------------------------------

(* "no Beatport candidates found" is only said when every query of every   *)
(* pass was answered, and none by an error.                                *)
NotFoundIsHonest ==
    status = "NOT_FOUND" /\ pool = {} =>
        /\ failed = {}
        /\ \A p \in DOMAIN Passes : \A k \in DOMAIN Passes[p] : answers[Passes[p][k]] # {}

(* The cache holds, per query, only something Beatport answered to it:     *)
(* neither an error nor an interrupted request becomes "no results".       *)
CacheHoldsAnswers ==
    \A q \in Queries : cached[q] \subseteq answers[q] /\ (caching \/ cached[q] = {})

(* "A HIGH, unambiguous match stops the search": what is chosen without    *)
(* asking has no rival within the margin in everything found so far,       *)
(* unless the user gave leave by --auto-ambiguous.                         *)
NoRivalWithinMargin ==
    status = "MATCHED" /\ mode = "leave" =>
        /\ score[chosen] >= High
        /\ \A id \in pool \ {chosen} : score[chosen] - score[id] >= Margin

(* The verdicts the plan and the report rely on.  A row fails only when no *)
(* query gave it a candidate and one of them failed, or when the terminal  *)
(* could not be read.  What is chosen in a dialogue stood on the screen,   *)
(* in the visible places of the list shown last.  Nothing chosen from the  *)
(* pool is without a valid ID: such a track is only ever chosen from the   *)
(* unfiltered answer to a search the user typed.  SKIPPED is the dialogue's*)
(* alone.                                                                  *)
VerdictIsAdmissible ==
    pc = "done" =>
        \/ status = "FAILED" /\ error = "search" /\ pool = {} /\ failed # {}
        \/ status = "FAILED" /\ error = "terminal" /\ mode = "ask" /\ pool # {}
        \/ status = "NOT_FOUND" /\ \A id \in pool : score[id] < Plausible
        \/ /\ status = "MATCHED"
           /\ IF visible = 0 THEN chosen \in pool
              ELSE mode = "ask" /\ \E k \in 1..visible : k \in DOMAIN current /\ current[k] = chosen
           /\ IF chosen \in pool THEN chosen > 0
              ELSE \E q \in Typed : \E result \in answers[q] : chosen \in result
        \/ status = "AMBIGUOUS" /\ mode = "leave" /\ pool # {}
        \/ status = "SKIPPED" /\ mode = "ask" /\ pool # {}

(* The staged search of a row comes to a verdict or to the dialogue.       *)
SearchEnds == pc = "search" ~> pc \in {"show", "ask", "done", "panic"}

(* "each source track is independent ... ambiguity ... failures are        *)
(* recorded and later tracks continue": no answer ends the program.        *)
DialogueSurvives == pc # "panic"

=============================================================================
