--------------------------- MODULE RowSearchProofs ---------------------------
(***************************************************************************)
(* Five theorems about the search of a row, for any passes, results,       *)
(* scores and thresholds: nothing enters the cache that Beatport did not   *)
(* say; a row is not found only when every one of its queries was          *)
(* answered; what is chosen without asking has no close rival in the whole *)
(* pool; every verdict has what the plan relies on; and no query is asked  *)
(* twice.                                                                  *)
(***************************************************************************)
EXTENDS RowSearch, OrderLemmas, FiniteSetTheorems, TLAPS

Flows == {"search", "decide", "show", "ask", "done", "panic"}

TypeInv ==
    /\ pc \in Flows /\ caching \in BOOLEAN
    /\ pass \in DOMAIN Passes /\ at \in Nat \ {0}
    /\ DOMAIN answers = Queries /\ DOMAIN cached = Queries
    /\ CacheHoldsAnswers

LEMMA PassesAreSequences ==
    /\ DOMAIN Passes = 1..Len(Passes) /\ Len(Passes) \in Nat \ {0}
    /\ \A p \in DOMAIN Passes : DOMAIN Passes[p] = 1..Len(Passes[p]) /\ Len(Passes[p]) \in Nat \ {0}
BY PassAssumption

LEMMA QueryIsOne == TypeInv /\ Searching => Query \in Queries /\ at \in DOMAIN Passes[pass]
<1> SUFFICES ASSUME TypeInv, Searching PROVE Query \in Queries /\ at \in DOMAIN Passes[pass]
  OBVIOUS
<1>1. pass \in DOMAIN Passes /\ at \in DOMAIN Passes[pass]
  BY PassesAreSequences DEF TypeInv, Searching
<1>2. Query \in Range(Passes[pass])
  BY <1>1 DEF Query, Range
<1>3. Range(Passes[pass]) \subseteq Queries
  BY <1>1 DEF Queries
<1> QED BY <1>1, <1>2, <1>3

LEMMA TypeInit == Init => TypeInv
<1> SUFFICES ASSUME Init PROVE TypeInv
  OBVIOUS
<1>1. pc = "search" /\ pass = 1 /\ at = 1 /\ caching \in BOOLEAN
      /\ DOMAIN answers = Queries /\ cached = IF caching THEN answers ELSE [q \in Queries |-> {}]
  BY DEF Init
<1>2. CacheHoldsAnswers
  BY <1>1 DEF CacheHoldsAnswers
<1>3. 1 \in DOMAIN Passes
  BY PassesAreSequences
<1> QED BY <1>1, <1>2, <1>3 DEF TypeInv, Flows

(* Whoever asks: an answer goes into the history, and what is cached is it.*)
LEMMA AnswerKeepsCache ==
    ASSUME TypeInv, NEW q \in Queries, NEW result, Answer(q, result), UNCHANGED caching
    PROVE  /\ DOMAIN answers' = Queries /\ DOMAIN cached' = Queries
           /\ CacheHoldsAnswers'
           /\ answers'[q] # {} /\ \A r \in Queries : answers[r] # {} => answers'[r] # {}
<1>1. answers' = [answers EXCEPT ![q] = {result}]
      /\ cached' = IF caching THEN [cached EXCEPT ![q] = {result}] ELSE cached
  BY DEF Answer
<1>2. DOMAIN answers' = Queries /\ DOMAIN cached' = Queries
  BY <1>1 DEF TypeInv
<1>3. ASSUME NEW r \in Queries PROVE cached'[r] \subseteq answers'[r] /\ (caching \/ cached'[r] = {})
  BY <1>1 DEF TypeInv, CacheHoldsAnswers
<1>4. CacheHoldsAnswers'
  BY <1>3 DEF CacheHoldsAnswers
<1> QED BY <1>1, <1>2, <1>4 DEF TypeInv

(* The history only grows, and the cache stays within it.                  *)
Remembers ==
    /\ DOMAIN answers' = Queries /\ DOMAIN cached' = Queries
    /\ CacheHoldsAnswers'
    /\ \A r \in Queries : answers[r] # {} => answers'[r] # {}

LEMMA UnchangedRemembers == TypeInv /\ UNCHANGED <<caching, cacheVars>> => Remembers
BY DEF TypeInv, Remembers, CacheHoldsAnswers, cacheVars

LEMMA StepRemembers ==
    ASSUME TypeInv, [Next]_vars
    PROVE  Remembers /\ UNCHANGED caching
<1> USE DEF setting
<1>1. CASE FromCache \/ QueryFails \/ EndPass
  BY <1>1, UnchangedRemembers DEF FromCache, Found, QueryFails, EndPass
<1>2. CASE FromBeatport
  <2>1. PICK result \in Results : Answer(Query, result) /\ Found(result)
    BY <1>2 DEF FromBeatport
  <2>2. UNCHANGED caching /\ Query \in Queries
    BY <1>2, <2>1, QueryIsOne DEF FromBeatport, Found
  <2> QED BY <2>1, <2>2, AnswerKeepsCache DEF Remembers
<1>3. CASE DecideStep
  BY <1>3, UnchangedRemembers DEF DecideStep, NothingAnswered, TakeHigh, TakeLow, TakeAmbiguous, Settle, Fail, Conclude
<1>4. CASE SearchAgain
  <2>1. PICK q \in Typed, ended \in BOOLEAN :
            \/ (\E result \in cached[q] : Present(result, ended)) /\ UNCHANGED cacheVars
            \/ ~Hit(q) /\ \E result \in Results : Answer(q, result) /\ Present(result, ended)
    BY <1>4 DEF SearchAgain
  <2>2. q \in Queries /\ UNCHANGED caching
    <3>1. PICK result : Present(result, ended)
      BY <2>1
    <3>2. UNCHANGED caching
      BY <3>1 DEF Present
    <3>3. q \in Queries
      BY <2>1 DEF Queries
    <3> QED BY <3>2, <3>3
  <2>3. CASE UNCHANGED cacheVars
    BY <2>2, <2>3, UnchangedRemembers
  <2>4. CASE \E result \in Results : Answer(q, result)
    BY <2>2, <2>4, AnswerKeepsCache DEF Remembers
  <2> QED BY <2>1, <2>2, <2>3, <2>4
<1>5. CASE Show \/ Skip \/ ReadFails \/ Select \/ More \/ Misunderstood \/ SearchAgainFails
  BY <1>5, UnchangedRemembers
     DEF Show, Skip, ReadFails, Select, More, Misunderstood, SearchAgainFails, Settle, Fail, Conclude
<1>6. CASE Interrupt \/ UNCHANGED vars
  BY <1>6, UnchangedRemembers DEF Interrupt, vars
<1>7. CASE Expire
  <2>1. PICK q \in Queries : cached' = [cached EXCEPT ![q] = {}]
    BY <1>7 DEF Expire
  <2>2. UNCHANGED <<caching, answers>>
    BY <1>7 DEF Expire
  <2> QED BY <2>1, <2>2 DEF TypeInv, Remembers, CacheHoldsAnswers
<1> QED BY <1>1, <1>2, <1>3, <1>4, <1>5, <1>6, <1>7 DEF Next, SearchStep, DialogStep

LEMMA TypeStep == TypeInv /\ [Next]_vars => TypeInv'
<1> SUFFICES ASSUME TypeInv, [Next]_vars PROVE TypeInv'
  OBVIOUS
<1>0. Remembers /\ UNCHANGED caching
  BY StepRemembers
<1>1. pc' \in Flows /\ pass' \in DOMAIN Passes /\ at' \in Nat \ {0}
  <2> USE DEF TypeInv, Flows
  <2>1. CASE FromCache \/ FromBeatport \/ QueryFails
    BY <2>1 DEF FromCache, FromBeatport, Found, QueryFails
  <2>2. CASE EndPass
    <3>1. pass # Len(Passes) => pass + 1 \in DOMAIN Passes
      BY PassesAreSequences
    <3> QED BY <2>2, <3>1 DEF EndPass
  <2>3. CASE DecideStep
    BY <2>3 DEF DecideStep, NothingAnswered, TakeHigh, TakeLow, TakeAmbiguous, Settle, Fail, Conclude, searchVars
  <2>4. CASE DialogStep
    BY <2>4 DEF DialogStep, Show, Skip, ReadFails, Select, More, Misunderstood, SearchAgain, Present,
                SearchAgainFails, Settle, Fail, Conclude, searchVars
  <2>5. CASE Interrupt \/ Expire \/ UNCHANGED vars
    BY <2>5 DEF Interrupt, Expire, vars, searchVars
  <2> QED BY <2>1, <2>2, <2>3, <2>4, <2>5 DEF Next, SearchStep
<1> QED BY <1>0, <1>1 DEF TypeInv, Remembers

(* Whatever is asked, in the search or the dialogue, and whatever expires. *)
THEOREM NothingInvented == Spec => []CacheHoldsAnswers
<1>1. TypeInv => CacheHoldsAnswers
  BY DEF TypeInv
<1> QED BY <1>1, TypeInit, TypeStep, PTL DEF Spec

-----------------------------------------------------------------------------

Asked(q) == answers[q] # {} \/ q \in failed

(* What the loop has left behind was answered, or failed; and it only ends *)
(* before its last query with something in the pool.                       *)
AskedInv ==
    /\ pc = "search" =>
          \A p \in DOMAIN Passes : \A k \in DOMAIN Passes[p] :
              p < pass \/ (p = pass /\ k < at) => Asked(Passes[p][k])
    /\ pc # "search" =>
          pool # {} \/ \A p \in DOMAIN Passes : \A k \in DOMAIN Passes[p] : Asked(Passes[p][k])
    /\ status = "NOT_FOUND" => pc = "done" /\ (pool = {} => failed = {})

LEMMA AskedInit == Init => AskedInv
<1> SUFFICES ASSUME Init PROVE AskedInv
  OBVIOUS
<1>1. pc = "search" /\ pass = 1 /\ at = 1 /\ status = ""
  BY DEF Init
<1>2. \A p \in DOMAIN Passes : ~(p < 1) /\ \A k \in DOMAIN Passes[p] : ~(k < 1)
  BY PassesAreSequences
<1> QED BY <1>1, <1>2 DEF AskedInv

LEMMA StillAsked ==
    ASSUME TypeInv, Remembers, failed \subseteq failed', NEW q \in Queries, Asked(q)
    PROVE  Asked(q)'
BY DEF Asked, Remembers

LEMMA PassesAreQueries == \A p \in DOMAIN Passes : \A k \in DOMAIN Passes[p] : Passes[p][k] \in Queries
<1> SUFFICES ASSUME NEW p \in DOMAIN Passes, NEW k \in DOMAIN Passes[p] PROVE Passes[p][k] \in Queries
  OBVIOUS
<1>1. Passes[p][k] \in Range(Passes[p])
  BY DEF Range
<1> QED BY <1>1 DEF Queries

(* One query further.                                                      *)
LEMMA AdvanceKeepsAsked ==
    ASSUME TypeInv, AskedInv, Remembers, Searching, failed \subseteq failed',
           NEW query, query = Query, query \in failed' \/ answers'[query] # {},
           at' = at + 1, UNCHANGED <<pc, pass, status>>
    PROVE  AskedInv'
<1>0. pc = "search" /\ status # "NOT_FOUND"
  BY DEF Searching, AskedInv
<1>1. ASSUME NEW p \in DOMAIN Passes, NEW k \in DOMAIN Passes[p], p < pass \/ (p = pass /\ k < at + 1)
      PROVE  Asked(Passes[p][k])'
  <2>1. CASE p < pass \/ (p = pass /\ k < at)
    BY <1>0, <2>1, StillAsked, PassesAreQueries DEF AskedInv
  <2>2. CASE p = pass /\ k = at
    BY <2>2 DEF Query, Asked
  <2>3. k \in Nat /\ at \in Nat
    BY PassesAreSequences DEF TypeInv
  <2> QED BY <1>1, <2>1, <2>2, <2>3
<1> QED BY <1>0, <1>1 DEF AskedInv

LEMMA SearchKeepsAsked ==
    ASSUME TypeInv, AskedInv, Remembers, SearchStep
    PROVE  AskedInv'
<1>1. CASE FromCache
  <2>1. PICK result \in cached[Query] : Found(result)
    BY <1>1 DEF FromCache
  <2>2. Searching /\ Query \in Queries /\ at' = at + 1 /\ UNCHANGED <<pc, pass, failed, status>>
    BY <1>1, <2>1, QueryIsOne DEF FromCache, Found, verdict
  <2>3. answers[Query] # {}
    BY <2>1, <2>2 DEF TypeInv, CacheHoldsAnswers
  <2>4. answers'[Query] # {}
    BY <2>2, <2>3 DEF Remembers
  <2> QED BY <2>2, <2>4, AdvanceKeepsAsked
<1>2. CASE FromBeatport
  <2>1. PICK result \in Results : Answer(Query, result) /\ Found(result)
    BY <1>2 DEF FromBeatport
  <2>2. Searching /\ Query \in Queries /\ at' = at + 1 /\ UNCHANGED <<pc, pass, failed, status, caching>>
    BY <1>2, <2>1, QueryIsOne DEF FromBeatport, Found, verdict, setting
  <2>3. answers'[Query] # {}
    BY <2>1, <2>2, AnswerKeepsCache
  <2> QED BY <2>2, <2>3, AdvanceKeepsAsked
<1>3. CASE QueryFails
  <2>1. Searching /\ at' = at + 1 /\ failed' = failed \cup {Query} /\ UNCHANGED <<pc, pass, status>>
    BY <1>3 DEF QueryFails, verdict
  <2> QED BY <2>1, AdvanceKeepsAsked
<1>4. CASE EndPass
  <2>0. pc = "search" /\ at > Len(Passes[pass]) /\ UNCHANGED <<pool, failed, status, answers>>
    BY <1>4 DEF EndPass, verdict, cacheVars
  <2>1. ASSUME NEW p \in DOMAIN Passes, NEW k \in DOMAIN Passes[p], p <= pass
        PROVE  Asked(Passes[p][k])
    <3>1. pass \in Nat /\ p \in Nat /\ (p = pass => k < at)
      BY <2>0, PassesAreSequences DEF TypeInv
    <3> QED BY <2>0, <2>1, <3>1 DEF AskedInv
  <2>2. CASE pc' = "search"
    <3>1. pass' = pass + 1 /\ at' = 1
      BY <1>4, <2>2 DEF EndPass
    <3>2. ASSUME NEW p \in DOMAIN Passes, NEW k \in DOMAIN Passes[p], p < pass' \/ (p = pass' /\ k < at')
          PROVE  Asked(Passes[p][k])'
      <4>1. p \in Nat /\ k \in Nat \ {0} /\ pass \in Nat
        BY PassesAreSequences DEF TypeInv
      <4>2. p <= pass
        BY <3>1, <3>2, <4>1
      <4> QED BY <2>0, <2>1, <4>2 DEF Asked
    <3> QED BY <2>0, <2>2, <3>2 DEF AskedInv
  <2>3. CASE pc' = "decide"
    <3>1. Confidence(pool) = "HIGH" \/ pass = Len(Passes)
      BY <1>4, <2>0, <2>3 DEF EndPass
    <3>2. Confidence(pool) = "HIGH" => pool # {}
      BY DEF Confidence
    <3>3. pass = Len(Passes) => \A p \in DOMAIN Passes : p <= pass
      BY PassesAreSequences
    <3>4. pool # {} \/ \A p \in DOMAIN Passes : \A k \in DOMAIN Passes[p] : Asked(Passes[p][k])
      BY <2>1, <3>1, <3>2, <3>3
    <3> QED BY <2>0, <2>3, <3>4 DEF AskedInv, Asked
  <2> QED BY <1>4, <2>0, <2>2, <2>3 DEF EndPass
<1> QED BY <1>1, <1>2, <1>3, <1>4 DEF SearchStep

(* The verdict and the dialogue add no track to the pool.                  *)
LEMMA RestKeepsAsked ==
    ASSUME TypeInv, AskedInv, Remembers, pc # "search", pc' # "search", UNCHANGED <<pool, failed>>,
           status' = "NOT_FOUND" => pc' = "done" /\ (pool = {} => failed = {})
    PROVE  AskedInv'
BY StillAsked, PassesAreQueries DEF AskedInv

LEMMA AskedStep == TypeInv /\ AskedInv /\ [Next]_vars => AskedInv'
<1> SUFFICES ASSUME TypeInv, AskedInv, [Next]_vars PROVE AskedInv'
  OBVIOUS
<1>0. Remembers
  BY StepRemembers
<1>1. CASE SearchStep
  BY <1>0, <1>1, SearchKeepsAsked
<1>2. CASE DecideStep
  <2>1. /\ pc = "decide" /\ pc' \in {"done", "show"} /\ UNCHANGED <<pool, failed>>
        /\ status' = "NOT_FOUND" => pc' = "done" /\ (pool = {} => failed = {})
    <3>1. CASE NothingAnswered \/ TakeHigh
      BY <3>1 DEF NothingAnswered, TakeHigh, Deciding, Settle, Fail, Conclude, searchVars
    <3>2. CASE TakeLow
      BY <3>2 DEF TakeLow, Deciding, Settle, Fail, Conclude, searchVars
    <3>3. CASE TakeAmbiguous
      BY <3>3 DEF TakeAmbiguous, Deciding, Settle, Fail, Conclude, searchVars, verdict, AskedInv
    <3> QED BY <1>2, <3>1, <3>2, <3>3 DEF DecideStep
  <2> QED BY <1>0, <2>1, RestKeepsAsked
<1>3. CASE DialogStep
  <2>1. /\ pc \in {"show", "ask"} /\ pc' # "search" /\ UNCHANGED <<pool, failed>>
        /\ status' # "NOT_FOUND"
    <3> USE DEF searchVars, verdict, AskedInv
    <3>1. CASE Show \/ More \/ Misunderstood \/ SearchAgainFails
      BY <3>1 DEF Show, More, Misunderstood, SearchAgainFails
    <3>2. CASE Skip \/ ReadFails \/ Select
      BY <3>2 DEF Skip, ReadFails, Select, Settle, Fail, Conclude
    <3>3. CASE SearchAgain
      <4>1. PICK q \in Typed, ended \in BOOLEAN :
                \/ (\E result \in cached[q] : Present(result, ended)) /\ UNCHANGED cacheVars
                \/ ~Hit(q) /\ \E result \in Results : Answer(q, result) /\ Present(result, ended)
        BY <3>3 DEF SearchAgain
      <4>2. PICK result : Present(result, ended)
        BY <4>1
      <4> QED BY <3>3, <4>2 DEF SearchAgain, Present
    <3> QED BY <1>3, <3>1, <3>2, <3>3 DEF DialogStep
  <2> QED BY <1>0, <2>1, RestKeepsAsked
<1>4. CASE Interrupt \/ Expire \/ UNCHANGED vars
  <2>1. UNCHANGED <<pc, pass, at, pool, failed, status>>
    BY <1>4 DEF Interrupt, Expire, vars, searchVars, verdict
  <2> QED BY <1>0, <2>1, StillAsked, PassesAreQueries DEF AskedInv
<1> QED BY <1>1, <1>2, <1>3, <1>4 DEF Next

(* An error of any query, in any pass, is never taken for "no results".    *)
THEOREM NotFoundMeansAnswered == Spec => []NotFoundIsHonest
<1>1. AskedInv => NotFoundIsHonest
  BY DEF AskedInv, Asked, NotFoundIsHonest
<1> QED BY <1>1, TypeInit, TypeStep, AskedInit, AskedStep, PTL DEF Spec

-----------------------------------------------------------------------------
(* What is ranked: finite sets of IDs.                                     *)

Pool == {ids \in SUBSET IDs : IsFiniteSet(ids)}

ScoresAreNumbers == score \in [IDs -> Int]

(* The order of RankCandidates, as a set of pairs.                         *)
BetterPairs(ids) == {pair \in ids \X ids : Better(pair[1], pair[2])}

LEMMA BetterIsStrictTotal ==
    ASSUME NEW ids \in Pool, ScoresAreNumbers
    PROVE  StrictTotal(BetterPairs(ids), ids)
<1>1. \A a \in ids : a \in Int /\ score[a] \in Int
  BY ScoreAssumption DEF Pool, ScoresAreNumbers
<1>2. \A a, b \in ids : <<a, b>> \in BetterPairs(ids) <=> Better(a, b)
  BY DEF BetterPairs
<1>3. \A a \in ids : ~Better(a, a)
  BY <1>1 DEF Better
<1>4. \A a, b, c \in ids : Better(a, b) /\ Better(b, c) => Better(a, c)
  BY <1>1 DEF Better
<1>5. \A a, b \in ids : a = b \/ Better(a, b) \/ Better(b, a)
  BY <1>1 DEF Better
<1> QED BY <1>2, <1>3, <1>4, <1>5 DEF StrictTotal

(* A ranking is a sequence of the pool's IDs, in order, without a gap.     *)
LEMMA RankedPool ==
    ASSUME NEW ids \in Pool, ScoresAreNumbers
    PROVE  /\ Cardinality(ids) \in Nat
           /\ Ranked(ids) \in [1..Cardinality(ids) -> ids]
           /\ Len(Ranked(ids)) = Cardinality(ids)
           /\ \A i, j \in 1..Cardinality(ids) :
                 i < j => Better(Ranked(ids)[i], Ranked(ids)[j])
           /\ \A id \in ids : \E i \in 1..Cardinality(ids) : Ranked(ids)[i] = id
<1> DEFINE n == Cardinality(ids)
           R == BetterPairs(ids)
<1>1. IsFiniteSet(ids) /\ n \in Nat /\ StrictTotal(R, ids)
  BY FS_CardinalityType, BetterIsStrictTotal DEF Pool
<1>2. ASSUME NEW f \in [1..n -> ids], NEW i \in 1..n, NEW j \in 1..n
      PROVE  <<f[i], f[j]>> \in R <=> Better(f[i], f[j])
  BY DEF BetterPairs
<1> HIDE DEF n, R
<1>3. PICK f : f \in Sortings(R, ids)
  BY <1>1, SortingExists
<1>4. f \in [1..n -> ids] /\ \A i, j \in 1..n : i < j => Better(f[i], f[j])
  BY <1>2, <1>3 DEF Sortings, n
<1>5. /\ Ranked(ids) \in [1..n -> ids]
      /\ \A i, j \in 1..n : i < j => Better(Ranked(ids)[i], Ranked(ids)[j])
  BY <1>4 DEF Ranked, n
<1>6. Ranked(ids) \in Sortings(R, ids)
  BY <1>2, <1>5 DEF Sortings, n
<1>7. \A id \in ids : \E i \in 1..n : Ranked(ids)[i] = id
  BY <1>1, <1>6, SortingCovers DEF n
<1>8. Len(Ranked(ids)) = n
  BY <1>1, <1>5
<1> QED BY <1>1, <1>5, <1>7, <1>8 DEF n

(* The first of a ranking has the best score, and the second the next best.*)
LEMMA TopOfPool ==
    ASSUME NEW ids \in Pool, ScoresAreNumbers, ids # {}
    PROVE  /\ Len(Ranked(ids)) \in Nat \ {0} /\ Len(Ranked(ids)) = Cardinality(ids)
           /\ Ranked(ids)[1] \in ids
           /\ \A id \in ids : score[id] <= score[Ranked(ids)[1]]
           /\ \A id \in ids \ {Ranked(ids)[1]} :
                 Len(Ranked(ids)) > 1 /\ score[id] <= score[Ranked(ids)[2]]
<1> DEFINE n == Cardinality(ids)
           r == Ranked(ids)
<1>1. n \in Nat /\ r \in [1..n -> ids] /\ Len(r) = n
      /\ (\A i, j \in 1..n : i < j => Better(r[i], r[j]))
      /\ (\A id \in ids : \E i \in 1..n : r[i] = id)
  BY RankedPool
<1>2. \A a \in ids : score[a] \in Int
  BY DEF Pool, ScoresAreNumbers
<1> HIDE DEF n, r
<1>3. n # 0 /\ 1 \in 1..n
  BY <1>1
<1>4. ASSUME NEW i \in 1..n, NEW j \in 1..n, i <= j PROVE score[r[j]] <= score[r[i]]
  <2>1. r[i] \in ids /\ r[j] \in ids
    BY <1>1
  <2>2. i = j \/ Better(r[i], r[j])
    BY <1>1, <1>4
  <2> QED BY <1>2, <2>1, <2>2 DEF Better
<1>5. ASSUME NEW id \in ids PROVE score[id] <= score[r[1]]
  <2>1. PICK i \in 1..n : r[i] = id
    BY <1>1
  <2> QED BY <1>3, <1>4, <2>1
<1>6. ASSUME NEW id \in ids \ {r[1]} PROVE n > 1 /\ score[id] <= score[r[2]]
  <2>1. PICK i \in 1..n : r[i] = id
    BY <1>1
  <2>2. i # 1 /\ i >= 2 /\ 2 \in 1..n
    BY <1>1, <2>1
  <2> QED BY <1>1, <1>4, <2>1, <2>2
<1> QED BY <1>1, <1>3, <1>5, <1>6 DEF n, r

(* What Match concludes.                                                   *)
LEMMA HighHasNoRival ==
    ASSUME NEW ids \in Pool, ScoresAreNumbers, Confidence(ids) = "HIGH"
    PROVE  /\ ids # {} /\ Ranked(ids)[1] \in ids /\ score[Ranked(ids)[1]] >= High
           /\ \A id \in ids \ {Ranked(ids)[1]} : score[Ranked(ids)[1]] - score[id] >= Margin
<1> DEFINE r == Ranked(ids)
<1>1. ids # {}
  BY DEF Confidence
<1>2. \A a \in ids : score[a] \in Int
  BY DEF Pool, ScoresAreNumbers
<1>3. /\ Len(r) \in Nat /\ r[1] \in ids
      /\ \A id \in ids \ {r[1]} : Len(r) > 1 /\ score[id] <= score[r[2]]
  BY <1>1, TopOfPool
<1>4. Band(r[1]) = "HIGH" /\ ~(Len(r) > 1 /\ score[r[1]] - score[r[2]] < Margin)
  BY <1>1 DEF Confidence
<1>5. score[r[1]] >= High
  BY <1>2, <1>3, <1>4, ConfigAssumption DEF Band
<1>6. ASSUME NEW id \in ids \ {r[1]} PROVE score[r[1]] - score[id] >= Margin
  <2>1. Len(r) > 1 /\ score[id] <= score[r[2]] /\ r[2] \in ids
    <3>1. Len(r) > 1 /\ Len(r) = Cardinality(ids) /\ r \in [1..Cardinality(ids) -> ids]
      BY <1>1, <1>3, <1>6, TopOfPool, RankedPool
    <3> HIDE DEF r
    <3> QED BY <1>3, <1>6, <3>1
  <2> HIDE DEF r
  <2> QED BY <1>2, <1>3, <1>4, <2>1, ConfigAssumption
<1> QED BY <1>1, <1>3, <1>5, <1>6

LEMMA LowIsImplausible ==
    ASSUME NEW ids \in Pool, ScoresAreNumbers, Confidence(ids) = "LOW"
    PROVE  \A id \in ids : score[id] < Plausible
<1> DEFINE r == Ranked(ids)
<1>1. SUFFICES ASSUME NEW id \in ids PROVE score[id] < Plausible
  OBVIOUS
<1>2. \A a \in ids : score[a] \in Int
  BY DEF Pool, ScoresAreNumbers
<1>3. r[1] \in ids /\ score[id] <= score[r[1]]
  BY TopOfPool
<1>4. Band(r[1]) = "LOW"
  BY DEF Confidence
<1>5. score[r[1]] < Plausible
  BY <1>2, <1>3, <1>4, ConfigAssumption DEF Band
<1> HIDE DEF r
<1> QED BY <1>2, <1>3, <1>5, ConfigAssumption

-----------------------------------------------------------------------------
(* The verdict: what the two loops and the dialogue may rely on.           *)

(* Where a candidate may come from: the pool, or what Beatport last said   *)
(* to a search that the user typed.                                        *)
Sourced(id) == id \in pool \/ \E q \in Typed : \E result \in answers[q] : id \in result

ShapeInv ==
    /\ ScoresAreNumbers
    /\ pool \in Pool /\ \A id \in pool : id > 0
    /\ \A k \in DOMAIN current : Sourced(current[k])
    /\ \A q \in Queries : answers[q] \subseteq Results
    /\ visible \in Nat /\ Len(current) \in Nat /\ DOMAIN current = 1..Len(current)
    /\ pc \in {"search", "decide"} => visible = 0 /\ current = <<>>
    /\ pc \in {"show", "ask"} => mode = "ask" /\ pool # {}
    /\ pc = "ask" => visible <= Len(current)

LEMMA ShapeInit == Init => ShapeInv
<1> SUFFICES ASSUME Init PROVE ShapeInv
  OBVIOUS
<1>1. pool = {} /\ current = <<>> /\ visible = 0 /\ pc = "search" /\ score \in ScoreTables
  BY Zenon DEF Init
<1>2. score \in [IDs -> Int]
  BY <1>1, ScoreAssumption
<1>3. pool \in Pool
  BY <1>1, FS_EmptySet DEF Pool
<1>4. Len(current) \in Nat /\ DOMAIN current = 1..Len(current)
  BY <1>1
<1>5. \A q \in Queries : answers[q] \subseteq Results
  <2>1. answers \in [Queries -> {{}} \cup {{result} : result \in Results}]
    BY Zenon DEF Init
  <2> QED BY <2>1
<1>6. DOMAIN current = {} /\ \A id \in pool : id > 0
  BY <1>1
<1> QED BY <1>1, <1>2, <1>3, <1>4, <1>5, <1>6 DEF ShapeInv, ScoresAreNumbers

LEMMA ResultsArePools ==
    /\ Results \subseteq Pool
    /\ \A ids \in Pool : Positive(ids) \in Pool
    /\ \A ids1, ids2 \in Pool : ids1 \cup ids2 \in Pool
<1>1. Results \subseteq Pool
  BY ResultAssumption DEF Pool
<1>2. ASSUME NEW ids \in Pool PROVE Positive(ids) \in Pool
  BY FS_Subset DEF Positive, Pool
<1>3. ASSUME NEW ids1 \in Pool, NEW ids2 \in Pool PROVE ids1 \cup ids2 \in Pool
  BY FS_Union DEF Pool
<1> QED BY <1>1, <1>2, <1>3

(* Whoever asks, Beatport finds one of the sets it may find.               *)
AnswersAreResults == \A q \in Queries : answers[q] \subseteq Results

LEMMA AnswersStayResults ==
    ASSUME TypeInv, AnswersAreResults, [Next]_vars
    PROVE  AnswersAreResults'
<1>1. ASSUME NEW q \in Queries, NEW result \in Results, Answer(q, result) PROVE AnswersAreResults'
  <2>1. answers' = [answers EXCEPT ![q] = {result}] /\ DOMAIN answers = Queries
    BY <1>1 DEF Answer, TypeInv
  <2> QED BY <2>1 DEF AnswersAreResults
<1>2. CASE FromCache \/ QueryFails \/ EndPass \/ Interrupt \/ Expire \/ UNCHANGED vars
  BY <1>2 DEF FromCache, QueryFails, EndPass, Interrupt, Expire, vars, cacheVars, AnswersAreResults
<1>3. CASE FromBeatport
  BY <1>1, <1>3, QueryIsOne DEF FromBeatport
<1>4. CASE DecideStep
  BY <1>4 DEF DecideStep, NothingAnswered, TakeHigh, TakeLow, TakeAmbiguous, Settle, Fail, Conclude, cacheVars,
              AnswersAreResults
<1>5. CASE SearchAgain
  <2>1. PICK q \in Typed, ended \in BOOLEAN :
            \/ (\E result \in cached[q] : Present(result, ended)) /\ UNCHANGED cacheVars
            \/ ~Hit(q) /\ \E result \in Results : Answer(q, result) /\ Present(result, ended)
    BY <1>5 DEF SearchAgain
  <2>2. q \in Queries
    BY DEF Queries
  <2> QED BY <1>1, <2>1, <2>2 DEF cacheVars, AnswersAreResults
<1>6. CASE Show \/ Skip \/ ReadFails \/ Select \/ More \/ Misunderstood \/ SearchAgainFails
  BY <1>6 DEF Show, Skip, ReadFails, Select, More, Misunderstood, SearchAgainFails, Settle, Fail, Conclude, cacheVars,
              AnswersAreResults
<1> QED BY <1>2, <1>3, <1>4, <1>5, <1>6 DEF Next, SearchStep, DialogStep

(* The list shown, when it is a ranking.                                   *)
LEMMA RankingIsShown ==
    ASSUME NEW ids \in Pool, ScoresAreNumbers, current' = Ranked(ids),
           visible' = IF Cardinality(ids) < Page THEN Cardinality(ids) ELSE Page
    PROVE  /\ visible' \in Nat
           /\ Len(current') \in Nat /\ DOMAIN (current') = 1..Len(current')
           /\ \A k \in DOMAIN (current') : current'[k] \in ids
<1>1. Cardinality(ids) \in Nat /\ Ranked(ids) \in [1..Cardinality(ids) -> ids]
      /\ Len(Ranked(ids)) = Cardinality(ids)
  BY RankedPool
<1> QED BY <1>1, PageAssumption

LEMMA ShapeStep == TypeInv /\ ShapeInv /\ [Next]_vars => ShapeInv'
<1> SUFFICES ASSUME TypeInv, ShapeInv, [Next]_vars PROVE ShapeInv'
  OBVIOUS
<1>0. \A q \in Queries : answers'[q] \subseteq Results
  BY AnswersStayResults DEF AnswersAreResults, ShapeInv
<1>1. CASE FromCache \/ FromBeatport
  <2>1. PICK result \in Results : Found(result)
    <3>1. CASE FromCache
      BY <3>1, QueryIsOne DEF FromCache, TypeInv, CacheHoldsAnswers, ShapeInv
    <3>2. CASE FromBeatport
      BY <3>2 DEF FromBeatport
    <3> QED BY <1>1, <3>1, <3>2
  <2>2. pc = "search" /\ pool' = pool \cup Positive(result)
        /\ UNCHANGED <<score, mode, pc, current, visible>>
    BY <1>1, <2>1 DEF Found, FromCache, FromBeatport, Searching, setting, dialogVars
  <2>3. pool' \in Pool /\ \A id \in pool' : id > 0
    BY <2>2, ResultsArePools DEF ShapeInv, Positive
  <2>4. DOMAIN (current') = {}
    BY <2>2 DEF ShapeInv
  <2> QED BY <1>0, <2>2, <2>3, <2>4 DEF ShapeInv, ScoresAreNumbers
<1>2. CASE QueryFails \/ EndPass
  <2>1. pc = "search" /\ pc' \in {"search", "decide"}
        /\ UNCHANGED <<score, mode, pool, current, visible, answers>>
    BY <1>2 DEF QueryFails, EndPass, Searching, setting, dialogVars, cacheVars
  <2> QED BY <1>0, <2>1 DEF ShapeInv, ScoresAreNumbers, Sourced
<1>3. ASSUME NEW s, NEW id, NEW cause, Conclude(s, id, cause) PROVE ShapeInv'
  <2>1. pc' = "done" /\ UNCHANGED <<score, mode, pool, current, visible, answers>>
    BY <1>3 DEF Conclude, setting, searchVars, dialogVars, cacheVars
  <2> QED BY <1>0, <2>1 DEF ShapeInv, ScoresAreNumbers, Sourced
<1>4. CASE TakeAmbiguous
  <2>1. CASE \E s, id : Settle(s, id)
    BY <1>3, <2>1 DEF Settle
  <2>2. CASE ~\E s, id : Settle(s, id)
    <3>1. /\ mode = "ask" /\ Deciding("AMBIGUOUS") /\ pc' = "show" /\ current' = Ranked(pool)
          /\ visible' = IF Cardinality(pool) < Page THEN Cardinality(pool) ELSE Page
          /\ UNCHANGED <<score, mode, pool, answers>>
      BY <1>4, <2>2 DEF TakeAmbiguous, setting, searchVars, cacheVars
    <3>2. pool # {}
      BY <3>1 DEF Deciding, Confidence
    <3>3. /\ visible' \in Nat
          /\ Len(current') \in Nat /\ DOMAIN (current') = 1..Len(current')
          /\ \A k \in DOMAIN (current') : current'[k] \in pool
      BY <3>1, RankingIsShown DEF ShapeInv
    <3> QED BY <1>0, <3>1, <3>2, <3>3 DEF ShapeInv, ScoresAreNumbers, Sourced
  <2> QED BY <2>1, <2>2
<1>5. CASE NothingAnswered \/ TakeHigh \/ TakeLow \/ Skip \/ ReadFails \/ Select
  BY <1>3, <1>5 DEF NothingAnswered, TakeHigh, TakeLow, Skip, ReadFails, Select, Settle, Fail
<1>6. CASE Show
  <2>1. pc = "show" /\ pc' = (IF visible > Len(current) THEN "panic" ELSE "ask")
        /\ UNCHANGED <<score, mode, pool, current, visible, answers>>
    BY <1>6 DEF Show, setting, searchVars, dialogVars, cacheVars
  <2> QED BY <1>0, <2>1 DEF ShapeInv, ScoresAreNumbers, Sourced
<1>7. CASE More \/ Misunderstood
  <2>1. pc = "ask" /\ pc' = "show" /\ UNCHANGED <<score, mode, pool, current, answers>>
        /\ \/ visible' = visible
           \/ visible' = IF visible + Page < Len(current) THEN visible + Page ELSE Len(current)
    BY <1>7 DEF More, Misunderstood, setting, searchVars, dialogVars, cacheVars
  <2> QED BY <1>0, <2>1, PageAssumption DEF ShapeInv, ScoresAreNumbers, Sourced
<1>8. CASE SearchAgain
  <2>1. PICK q \in Typed, ended \in BOOLEAN :
            \/ (\E result \in cached[q] : Present(result, ended)) /\ UNCHANGED cacheVars
            \/ ~Hit(q) /\ \E result \in Results : Answer(q, result) /\ Present(result, ended)
    BY <1>8 DEF SearchAgain
  <2>2. q \in Queries
    BY DEF Queries
  <2>3. PICK result \in Results : Present(result, ended) /\ result \in answers'[q]
    <3>1. CASE UNCHANGED cacheVars /\ \E result \in cached[q] : Present(result, ended)
      BY <2>2, <3>1 DEF TypeInv, CacheHoldsAnswers, ShapeInv, cacheVars
    <3>2. CASE \E result \in Results : Answer(q, result) /\ Present(result, ended)
      <4>1. PICK result \in Results : Answer(q, result) /\ Present(result, ended)
        BY <3>2
      <4>2. result \in answers'[q]
        BY <2>2, <4>1 DEF Answer, TypeInv
      <4> QED BY <4>1, <4>2
    <3> QED BY <2>1, <3>1, <3>2
  <2>4. /\ pc = "ask" /\ pc' \in {"done", "show"} /\ current' = Ranked(result)
        /\ visible' = IF Cardinality(result) < Page THEN Cardinality(result) ELSE Page
        /\ UNCHANGED <<score, mode, pool>>
    BY <1>8, <2>3 DEF SearchAgain, Present, setting, searchVars
  <2>5. /\ visible' \in Nat
        /\ Len(current') \in Nat /\ DOMAIN (current') = 1..Len(current')
        /\ \A k \in DOMAIN (current') : current'[k] \in result
    BY <2>4, RankingIsShown, ResultsArePools DEF ShapeInv
  <2>6. \A k \in DOMAIN (current') : Sourced(current[k])'
    BY <2>3, <2>5 DEF Sourced
  <2> QED BY <1>0, <2>4, <2>5, <2>6 DEF ShapeInv, ScoresAreNumbers
<1>9. CASE SearchAgainFails
  <2>1. pc = "ask" /\ pc' = "show" /\ current' = <<>> /\ UNCHANGED <<score, mode, pool, visible>>
    BY <1>9 DEF SearchAgainFails, setting, searchVars
  <2>2. Len(current') \in Nat /\ DOMAIN (current') = 1..Len(current') /\ DOMAIN (current') = {}
    BY <2>1
  <2> QED BY <1>0, <2>1, <2>2 DEF ShapeInv, ScoresAreNumbers
<1>10. CASE Interrupt \/ Expire \/ UNCHANGED vars
  <2>1. UNCHANGED <<score, mode, pc, pool, current, visible, answers>>
    BY <1>10 DEF Interrupt, Expire, vars, setting, searchVars, dialogVars, cacheVars
  <2> QED BY <1>0, <2>1 DEF ShapeInv, ScoresAreNumbers, Sourced
<1> QED BY <1>1, <1>2, <1>4, <1>5, <1>6, <1>7, <1>8, <1>9, <1>10 DEF Next, SearchStep, DecideStep, DialogStep

-----------------------------------------------------------------------------

(* A verdict is given once, at the end; until then nothing is chosen.      *)
VerdictInv ==
    /\ VerdictIsAdmissible
    /\ NoRivalWithinMargin
    /\ status = "MATCHED" => pc = "done"

(* What a verdict must have to its credit when it is given.                *)
Earned(newStatus, id, cause) ==
    \/ newStatus = "FAILED" /\ cause = "search" /\ pool = {} /\ failed # {}
    \/ newStatus = "FAILED" /\ cause = "terminal" /\ mode = "ask" /\ pool # {}
    \/ newStatus = "NOT_FOUND" /\ \A other \in pool : score[other] < Plausible
    \/ /\ newStatus = "MATCHED"
       /\ mode = "leave" =>
             /\ score[id] >= High
             /\ \A other \in pool \ {id} : score[id] - score[other] >= Margin
       /\ IF visible = 0 THEN id \in pool
          ELSE mode = "ask" /\ \E k \in 1..visible : k \in DOMAIN current /\ current[k] = id
       /\ Sourced(id)
    \/ newStatus = "AMBIGUOUS" /\ mode = "leave" /\ pool # {}
    \/ newStatus = "SKIPPED" /\ mode = "ask" /\ pool # {}

LEMMA EarnedIsAdmissible ==
    ASSUME NEW newStatus, NEW id, NEW cause, Conclude(newStatus, id, cause),
           Earned(newStatus, id, cause), ShapeInv
    PROVE  VerdictInv'
<1>1. /\ pc' = "done" /\ status' = newStatus /\ chosen' = id /\ error' = cause
      /\ UNCHANGED <<score, mode, pool, failed, current, visible, answers>>
  BY DEF Conclude, setting, searchVars, dialogVars, cacheVars
<1>2. IF id \in pool THEN id > 0
      ELSE newStatus = "MATCHED" => \E q \in Typed : \E result \in answers[q] : id \in result
  BY DEF Earned, Sourced, ShapeInv
<1>3. VerdictIsAdmissible'
  BY <1>1, <1>2 DEF Earned, VerdictIsAdmissible
<1>4. NoRivalWithinMargin'
  BY <1>1 DEF Earned, NoRivalWithinMargin
<1> QED BY <1>1, <1>3, <1>4 DEF VerdictInv

(* A step that gives no verdict.                                           *)
LEMMA NoVerdictYet ==
    ASSUME VerdictInv, pc # "done", pc' # "done", UNCHANGED status
    PROVE  VerdictInv'
BY DEF VerdictInv, VerdictIsAdmissible, NoRivalWithinMargin

LEMMA DecisionIsEarned ==
    ASSUME TypeInv, ShapeInv, VerdictInv, DecideStep
    PROVE  VerdictInv'
<1>0. pc = "decide" /\ visible = 0 /\ ScoresAreNumbers /\ pool \in Pool
  BY DEF DecideStep, NothingAnswered, TakeHigh, TakeLow, TakeAmbiguous, Deciding, ShapeInv
<1>1. CASE NothingAnswered
  BY <1>1, EarnedIsAdmissible DEF NothingAnswered, Fail, Earned
<1>2. CASE TakeHigh
  <2>1. Confidence(pool) = "HIGH" /\ Conclude("MATCHED", Ranked(pool)[1], "none")
    BY <1>2 DEF TakeHigh, Deciding, Settle
  <2>2. Earned("MATCHED", Ranked(pool)[1], "none")
    BY <1>0, <2>1, HighHasNoRival DEF Earned, Sourced
  <2> QED BY <2>1, <2>2, EarnedIsAdmissible
<1>3. CASE TakeLow
  <2>1. Confidence(pool) = "LOW" /\ Conclude("NOT_FOUND", 0, "none")
    BY <1>3 DEF TakeLow, Deciding, Settle
  <2>2. Earned("NOT_FOUND", 0, "none")
    BY <1>0, <2>1, LowIsImplausible DEF Earned
  <2> QED BY <2>1, <2>2, EarnedIsAdmissible
<1>4. CASE TakeAmbiguous
  <2>1. pool # {}
    BY <1>4 DEF TakeAmbiguous, Deciding, Confidence
  <2>2. CASE mode = "auto" /\ Settle("MATCHED", Ranked(pool)[1])
    <3>1. Earned("MATCHED", Ranked(pool)[1], "none")
      BY <1>0, <2>1, <2>2, TopOfPool DEF Earned, Sourced
    <3> QED BY <2>2, <3>1, EarnedIsAdmissible DEF Settle
  <2>3. CASE mode = "leave" /\ Settle("AMBIGUOUS", 0)
    BY <2>1, <2>3, EarnedIsAdmissible DEF Earned, Settle
  <2>4. CASE pc' = "show" /\ UNCHANGED status
    BY <1>0, <2>4, NoVerdictYet
  <2> QED BY <1>4, <2>2, <2>3, <2>4 DEF TakeAmbiguous, verdict
<1> QED BY <1>1, <1>2, <1>3, <1>4 DEF DecideStep

LEMMA DialogueIsEarned ==
    ASSUME TypeInv, ShapeInv, VerdictInv, DialogStep
    PROVE  VerdictInv'
<1>1. CASE Show \/ More \/ Misunderstood \/ SearchAgainFails
  <2>1. pc \in {"show", "ask"} /\ pc' \in {"show", "ask", "panic"} /\ UNCHANGED status
    BY <1>1 DEF Show, More, Misunderstood, SearchAgainFails, verdict
  <2> QED BY <2>1, NoVerdictYet
<1>2. CASE Skip
  BY <1>2, EarnedIsAdmissible DEF Skip, Settle, Earned, ShapeInv
<1>3. CASE ReadFails
  BY <1>3, EarnedIsAdmissible DEF ReadFails, Fail, Earned, ShapeInv
<1>4. CASE Select
  <2>1. PICK k \in 1..visible : pc = "ask" /\ Settle("MATCHED", current[k])
    BY <1>4 DEF Select
  <2>2. mode = "ask" /\ visible \in Nat /\ k \in DOMAIN current
    BY <2>1 DEF ShapeInv
  <2>3. visible # 0
    BY <2>1, <2>2
  <2>4. Earned("MATCHED", current[k], "none")
    BY <2>1, <2>2, <2>3 DEF Earned, ShapeInv
  <2> QED BY <2>1, <2>4, EarnedIsAdmissible DEF Settle
<1>5. CASE SearchAgain
  <2>1. PICK q \in Typed, ended \in BOOLEAN :
            \/ (\E result \in cached[q] : Present(result, ended)) /\ UNCHANGED cacheVars
            \/ ~Hit(q) /\ \E result \in Results : Answer(q, result) /\ Present(result, ended)
    BY <1>5 DEF SearchAgain
  <2>2. PICK result : Present(result, ended)
    BY <2>1
  <2>3. pc = "ask" /\ mode = "ask" /\ pool # {} /\ UNCHANGED <<mode, pool>>
    BY <1>5, <2>2 DEF SearchAgain, Present, ShapeInv, setting, searchVars
  <2>4. CASE ended
    <3>1. pc' = "done" /\ status' = "SKIPPED"
      BY <2>2, <2>4 DEF Present
    <3> QED BY <2>3, <3>1 DEF VerdictInv, VerdictIsAdmissible, NoRivalWithinMargin
  <2>5. CASE ~ended
    BY <2>2, <2>3, <2>5, NoVerdictYet DEF Present
  <2> QED BY <2>4, <2>5
<1> QED BY <1>1, <1>2, <1>3, <1>4, <1>5 DEF DialogStep

LEMMA VerdictStep == TypeInv /\ ShapeInv /\ VerdictInv /\ [Next]_vars => VerdictInv'
<1> SUFFICES ASSUME TypeInv, ShapeInv, VerdictInv, [Next]_vars PROVE VerdictInv'
  OBVIOUS
<1>1. CASE SearchStep
  <2>1. pc = "search" /\ pc' \in {"search", "decide"} /\ UNCHANGED status
    BY <1>1 DEF SearchStep, FromCache, FromBeatport, QueryFails, EndPass, Found, Searching, verdict
  <2> QED BY <2>1, NoVerdictYet
<1>2. CASE DecideStep
  BY <1>2, DecisionIsEarned
<1>3. CASE DialogStep
  BY <1>3, DialogueIsEarned
<1>4. CASE Interrupt \/ Expire \/ UNCHANGED vars
  <2>1. UNCHANGED <<score, mode, pc, pool, failed, current, visible, answers, verdict>>
    BY <1>4 DEF Interrupt, Expire, vars, setting, searchVars, dialogVars, cacheVars, verdict
  <2> QED BY <2>1 DEF VerdictInv, VerdictIsAdmissible, NoRivalWithinMargin, verdict
<1> QED BY <1>1, <1>2, <1>3, <1>4 DEF Next

LEMMA VerdictInit == Init => VerdictInv
<1> SUFFICES ASSUME Init PROVE VerdictInv
  OBVIOUS
<1>1. pc = "search" /\ status # "MATCHED"
  BY Zenon DEF Init
<1> QED BY <1>1 DEF VerdictInv, VerdictIsAdmissible, NoRivalWithinMargin

(* A row is settled without asking only by a track that no other of the    *)
(* whole pool comes near, however many passes it took (the early stop of   *)
(* searchSource, and the second Match after the loop).                     *)
THEOREM CloseRacesAreNotSettled == Spec => []NoRivalWithinMargin
<1>1. VerdictInv => NoRivalWithinMargin
  BY DEF VerdictInv
<1> QED BY <1>1, TypeInit, TypeStep, ShapeInit, ShapeStep, VerdictInit, VerdictStep, PTL DEF Spec

(* Every verdict the plan is made from has what the plan relies on: what   *)
(* was chosen in a dialogue stood on the screen, what came from the pool   *)
(* has a valid ID, and a row failed by its own calls alone, whatever was   *)
(* searched, failed or interrupted before.                                 *)
THEOREM VerdictsAreAdmissible == Spec => []VerdictIsAdmissible
<1>1. VerdictInv => VerdictIsAdmissible
  BY DEF VerdictInv
<1> QED BY <1>1, TypeInit, TypeStep, ShapeInit, ShapeStep, VerdictInit, VerdictStep, PTL DEF Spec

-----------------------------------------------------------------------------
(* How long a search can take.                                             *)

(* The places of the query loop: each query of each pass, and its end.     *)
Stops == [p \in 1..Len(Passes) |-> {p} \X (1..(Len(Passes[p]) + 1))]
Places == UNION {Stops[p] : p \in 1..Len(Passes)}

(* What the query loop has before it.                                      *)
Ahead ==
    {place \in Places :
        pc = "search" /\ (place[1] > pass \/ (place[1] = pass /\ place[2] >= at))}

StepsLeft == Cardinality(Ahead) + IF pc \in {"search", "decide"} THEN 1 ELSE 0

(* The search of a row takes one step for each of its queries, one for     *)
(* each pass and one for the verdict, at most: each step leaves fewer, and *)
(* nothing else leaves more.                                               *)
SearchIsShort ==
    /\ [](StepsLeft \in 0..(Cardinality(Places) + 1))
    /\ [][/\ SearchStep \/ DecideStep => StepsLeft' < StepsLeft
          /\ StepsLeft' <= StepsLeft]_vars

LEMMA PlacesAreFinite == IsFiniteSet(Places) /\ Cardinality(Places) \in Nat
<1> DEFINE n == Len(Passes)
           All == {Stops[p] : p \in 1..n}
<1>0. n \in Nat /\ \A p \in 1..n : Len(Passes[p]) \in Nat
  BY PassesAreSequences
<1>1. \A T \in All : IsFiniteSet(T)
  <2>1. ASSUME NEW p \in 1..n PROVE IsFiniteSet(Stops[p])
    <3>1. Len(Passes[p]) + 1 \in Int /\ 1 \in Int
      BY <1>0
    <3>2. IsFiniteSet(1..(Len(Passes[p]) + 1))
      BY <3>1, FS_Interval
    <3>3. IsFiniteSet({p})
      BY FS_Singleton
    <3>4. IsFiniteSet({p} \X (1..(Len(Passes[p]) + 1)))
      BY <3>2, <3>3, FS_Product
    <3> QED BY <3>4 DEF Stops
  <2> QED BY <2>1
<1>2. IsFiniteSet(All)
  <2>1. IsFiniteSet(1..n)
    <3>1. n \in Int /\ 1 \in Int
      BY <1>0
    <3> QED BY <3>1, FS_Interval
  <2>2. Stops \in Surjection(1..n, All)
    BY DEF Stops, Surjection
  <2> HIDE DEF All, n
  <2> QED BY <2>1, <2>2, FS_Surjection
<1>3. IsFiniteSet(UNION All)
  <2> HIDE DEF All
  <2> QED BY <1>1, <1>2, FS_UNION
<1>4. IsFiniteSet(Places)
  BY <1>3 DEF Places
<1> QED BY <1>4, FS_CardinalityType

(* Fewer places are fewer steps.                                           *)
LEMMA FewerPlaces ==
    ASSUME NEW S \in SUBSET Places, NEW T \in SUBSET S
    PROVE  /\ Cardinality(S) \in 0..Cardinality(Places) /\ Cardinality(T) \in Nat
           /\ Cardinality(T) <= Cardinality(S)
           /\ T # S => Cardinality(T) < Cardinality(S)
<1>1. IsFiniteSet(S) /\ Cardinality(S) <= Cardinality(Places) /\ Cardinality(Places) \in Nat
  BY PlacesAreFinite, FS_Subset
<1>2. IsFiniteSet(T) /\ Cardinality(T) <= Cardinality(S) /\ (Cardinality(S) = Cardinality(T) => S = T)
  BY <1>1, FS_Subset
<1>3. Cardinality(S) \in Nat
  BY <1>1, FS_CardinalityType
<1>4. Cardinality(T) \in Nat
  BY <1>2, FS_CardinalityType
<1> QED BY <1>1, <1>2, <1>3, <1>4

(* The loop never stands beyond the end of its pass.                       *)
PlaceInv == pc = "search" => at <= Len(Passes[pass]) + 1

LEMMA RestLeavesPlace ==
    ASSUME TypeInv, [Next]_vars, ~SearchStep
    PROVE  pass' = pass /\ at' = at /\ (pc' \in {"search", "decide"} => pc' = pc)
           /\ (DecideStep => pc = "decide" /\ pc' \notin {"search", "decide"})
<1>1. CASE DecideStep
  BY <1>1 DEF DecideStep, NothingAnswered, TakeHigh, TakeLow, TakeAmbiguous, Deciding, Settle, Fail, Conclude, searchVars
<1>2. CASE DialogStep /\ ~DecideStep
  BY <1>2 DEF DialogStep, Show, Skip, ReadFails, Select, More, Misunderstood, SearchAgain, Present,
              SearchAgainFails, Settle, Fail, Conclude, searchVars
<1>3. CASE (Interrupt \/ Expire \/ UNCHANGED vars) /\ ~DecideStep
  BY <1>3 DEF Interrupt, Expire, vars, searchVars
<1> QED BY <1>1, <1>2, <1>3 DEF Next

LEMMA SearchMoves ==
    ASSUME TypeInv, SearchStep
    PROVE  /\ pc = "search"
           /\ \/ pc' = pc /\ pass' = pass /\ at' = at + 1 /\ at <= Len(Passes[pass])
              \/ pc' = "decide" /\ pass' = pass /\ at' = at
              \/ pc' = pc /\ pass' = pass + 1 /\ at' = 1 /\ pass' \in 1..Len(Passes)
<1>1. CASE FromCache \/ FromBeatport \/ QueryFails
  BY <1>1 DEF FromCache, FromBeatport, QueryFails, Found, Searching
<1>2. CASE EndPass
  <2>1. pass \in 1..Len(Passes) /\ (pass # Len(Passes) => pass + 1 \in 1..Len(Passes))
    BY PassesAreSequences DEF TypeInv
  <2> QED BY <1>2, <2>1 DEF EndPass
<1> QED BY <1>1, <1>2 DEF SearchStep

LEMMA PlaceStep == TypeInv /\ PlaceInv /\ [Next]_vars => PlaceInv'
<1> SUFFICES ASSUME TypeInv, PlaceInv, [Next]_vars PROVE PlaceInv'
  OBVIOUS
<1>1. /\ pass \in 1..Len(Passes) /\ at \in Nat \ {0} /\ Len(Passes) \in Nat
      /\ \A p \in 1..Len(Passes) : Len(Passes[p]) \in Nat \ {0}
  BY PassesAreSequences DEF TypeInv
<1>2. CASE SearchStep
  BY <1>1, <1>2, SearchMoves DEF PlaceInv
<1>3. CASE ~SearchStep
  BY <1>3, RestLeavesPlace DEF PlaceInv
<1> QED BY <1>2, <1>3

LEMMA AheadShrinks ==
    ASSUME TypeInv, PlaceInv, SearchStep
    PROVE  Ahead' \subseteq Ahead /\ Ahead' # Ahead
<1>1. /\ pass \in 1..Len(Passes) /\ at \in Nat \ {0} /\ Len(Passes) \in Nat
      /\ \A p \in 1..Len(Passes) : Len(Passes[p]) \in Nat \ {0}
  BY PassesAreSequences DEF TypeInv
<1>2. \A p, k : p \in 1..Len(Passes) /\ k \in 1..(Len(Passes[p]) + 1) => <<p, k>> \in Places
  BY DEF Places, Stops
<1>3. \A place \in Places : place[1] \in Nat /\ place[2] \in Nat
  BY <1>1 DEF Places, Stops
<1> HIDE DEF Places
<1>4. pc = "search" /\ at <= Len(Passes[pass]) + 1
  BY SearchMoves DEF PlaceInv
<1> DEFINE here == <<pass, at>>
<1>5. here \in Ahead
  <2>1. at \in 1..(Len(Passes[pass]) + 1)
    BY <1>1, <1>4
  <2> QED BY <1>1, <1>2, <1>4, <2>1 DEF Ahead
<1>6. CASE pc' = pc /\ pass' = pass /\ at' = at + 1
  <2>1. Ahead' \subseteq Ahead
    BY <1>1, <1>3, <1>4, <1>6 DEF Ahead
  <2>2. here \notin Ahead'
    BY <1>1, <1>6 DEF Ahead
  <2> QED BY <1>5, <2>1, <2>2
<1>7. CASE pc' = "decide"
  <2>1. Ahead' = {}
    BY <1>7 DEF Ahead
  <2> QED BY <1>5, <2>1
<1>8. CASE pc' = pc /\ pass' = pass + 1 /\ at' = 1
  <2>1. Ahead' \subseteq Ahead
    BY <1>1, <1>3, <1>4, <1>8 DEF Ahead
  <2>2. here \notin Ahead'
    BY <1>1, <1>8 DEF Ahead
  <2> QED BY <1>5, <2>1, <2>2
<1> QED BY <1>6, <1>7, <1>8, SearchMoves

LEMMA SearchCounts ==
    ASSUME TypeInv, PlaceInv, [Next]_vars
    PROVE  /\ SearchStep \/ DecideStep => StepsLeft' < StepsLeft
           /\ StepsLeft' <= StepsLeft
<1>1. Ahead \in SUBSET Places
  BY DEF Ahead
<1>2. CASE SearchStep
  <2>1. Ahead' \in SUBSET Ahead /\ Ahead' # Ahead
    BY <1>2, AheadShrinks
  <2>2. /\ Cardinality(Ahead) \in Nat /\ Cardinality(Ahead') \in Nat
        /\ Cardinality(Ahead') < Cardinality(Ahead)
    BY <1>1, <2>1, FewerPlaces
  <2>3. pc = "search"
    BY <1>2, SearchMoves
  <2>4. StepsLeft = Cardinality(Ahead) + 1
    BY <2>3 DEF StepsLeft
  <2>5. StepsLeft' \in {Cardinality(Ahead'), Cardinality(Ahead') + 1}
    BY <2>2 DEF StepsLeft
  <2> HIDE DEF StepsLeft, Ahead
  <2> QED BY <2>2, <2>4, <2>5
<1>3. CASE ~SearchStep
  <2>1. /\ pass' = pass /\ at' = at /\ (pc' \in {"search", "decide"} => pc' = pc)
        /\ (DecideStep => pc = "decide" /\ pc' \notin {"search", "decide"})
    BY <1>3, RestLeavesPlace
  <2>2. Ahead' \in SUBSET Ahead
    BY <2>1 DEF Ahead
  <2>3. /\ Cardinality(Ahead) \in Nat /\ Cardinality(Ahead') \in Nat
        /\ Cardinality(Ahead') <= Cardinality(Ahead)
    BY <1>1, <2>2, FewerPlaces
  <2>4. CASE pc' \in {"search", "decide"}
    <3>1. StepsLeft = Cardinality(Ahead) + 1 /\ StepsLeft' = Cardinality(Ahead') + 1
      BY <2>1, <2>4 DEF StepsLeft
    <3> HIDE DEF StepsLeft, Ahead
    <3> QED BY <1>3, <2>1, <2>3, <2>4, <3>1
  <2>5. CASE pc' \notin {"search", "decide"}
    <3>1. StepsLeft' = Cardinality(Ahead')
      BY <2>3, <2>5 DEF StepsLeft
    <3>2. StepsLeft \in {Cardinality(Ahead), Cardinality(Ahead) + 1}
      BY <2>3 DEF StepsLeft
    <3>3. DecideStep => StepsLeft = Cardinality(Ahead) + 1
      BY <2>1 DEF StepsLeft
    <3> HIDE DEF StepsLeft, Ahead
    <3> QED BY <1>3, <2>3, <3>1, <3>2, <3>3
  <2> QED BY <2>4, <2>5
<1> QED BY <1>2, <1>3

LEMMA StepsLeftIsANumber == StepsLeft \in 0..(Cardinality(Places) + 1)
<1>1. Ahead \in SUBSET Places
  BY DEF Ahead
<1>2. Cardinality(Ahead) \in 0..Cardinality(Places)
  BY <1>1, FewerPlaces
<1>3. Cardinality(Places) \in Nat
  BY PlacesAreFinite
<1>4. StepsLeft \in {Cardinality(Ahead), Cardinality(Ahead) + 1}
  BY <1>2 DEF StepsLeft
<1> HIDE DEF StepsLeft, Ahead
<1> QED BY <1>2, <1>3, <1>4

(* The staged search of a row asks each query once at most, whatever they  *)
(* find, whatever fails and whatever expires, and then comes to a verdict  *)
(* or to the dialogue.                                                     *)
THEOREM SearchesAreShort == Spec => SearchIsShort
<1>1. Init => TypeInv /\ PlaceInv
  <2>1. Init => PlaceInv
    <3>1. Len(Passes[1]) \in Nat
      BY PassesAreSequences
    <3>2. Init => pass = 1 /\ at = 1
      BY DEF Init
    <3> QED BY <3>1, <3>2 DEF PlaceInv
  <2> QED BY <2>1, TypeInit
<1>2. TypeInv /\ PlaceInv /\ [Next]_vars => TypeInv' /\ PlaceInv'
  BY TypeStep, PlaceStep
<1> DEFINE Counts == /\ SearchStep \/ DecideStep => StepsLeft' < StepsLeft
                     /\ StepsLeft' <= StepsLeft
<1>3. TypeInv /\ PlaceInv /\ [Next]_vars => [Counts]_vars
  BY SearchCounts
<1>4. StepsLeft \in 0..(Cardinality(Places) + 1)
  BY StepsLeftIsANumber
<1> QED BY <1>1, <1>2, <1>3, <1>4, PTL DEF Spec, SearchIsShort

=============================================================================
