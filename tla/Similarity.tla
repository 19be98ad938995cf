----------------------------- MODULE Similarity -----------------------------
(***************************************************************************)
(* The loops of internal/matcher/similarity.go, one iteration a step: the  *)
(* one-to-one assignment of artists by dynamic programming over bit masks, *)
(* its greedy fallback, the two-row edit distance, and the merge that      *)
(* counts common words.  Each is set against a definition without a loop.  *)
(* Characters, words and degrees of similarity are numbers.                *)
(***************************************************************************)
EXTENDS Integers, Sequences, SequencesExt, FiniteSetsExt, Functions

CONSTANTS
    Grades,         \* degrees of similarity between two artists
    MaxArtists,     \* bound: artists of a credit list
    MaskLimits,     \* longest lists the bit masks are used for; the code's is 15
    Letters,        \* characters, and words
    MaxLetters      \* bound: characters of a text, words of a text

ASSUME SimilarityAssumption ==
    /\ Grades \subseteq Nat /\ MaskLimits \subseteq Nat /\ Letters \subseteq Nat
    /\ MaxArtists \in Nat \ {0} /\ MaxLetters \in Nat

VARIABLES
    task,           \* "assign", "edit" or "dice"
    text,           \* the inputs, never changed: two texts, or two credit lists
    grade,          \* and the similarity of artist k of one to artist m of the other
    maskLimit,
    stage,          \* "start", "masks", "greedy", "edit", "dice" or "done"
    left, right,    \* the function's own copies, the shorter one left
    at,             \* the elements of right, or the pairs, seen so far
    row,            \* dp, the used pairs, previous, or left's place and the count
    answer

textVars == <<task, text, grade, maskLimit, stage, left, right, at, row, answer>>

Unreached == -1     \* the code's -Inf

TextPairs == SeqOf(Letters, MaxLetters) \X SeqOf(Letters, MaxLetters)

TextInit ==
    /\ stage = "start" /\ left = <<>> /\ right = <<>> /\ at = 0 /\ row = <<>> /\ answer = 0
    /\ \/ /\ task = "assign" /\ maskLimit \in MaskLimits
          /\ \E m, n \in 1..MaxArtists :
                /\ text = <<[k \in 1..m |-> k], [k \in 1..n |-> k]>>
                /\ grade \in [(1..m) \X (1..n) -> Grades]
       \/ /\ task \in {"edit", "dice"} /\ maskLimit = 0 /\ grade = <<>>
          /\ text \in TextPairs

-----------------------------------------------------------------------------

Swapped == Len(text[1]) > Len(text[2])

(* Similarity, of an artist of left and one of right.                      *)
Alike(k, m) == IF Swapped THEN grade[<<m, k>>] ELSE grade[<<k, m>>]

Finish(value) == answer' = value /\ stage' = "done"

(* The table of bit masks before the first artist of right.                *)
NoneAssigned(list) == [mask \in SUBSET DOMAIN list |-> IF mask = {} THEN 0 ELSE Unreached]

(* A sorted copy of a text's words.                                        *)
InOrder(s) ==
    LET place == CHOOSE p \in Bijection(DOMAIN s, DOMAIN s) :
                    \A j, k \in DOMAIN s : j < k => s[p[j]] <= s[p[k]]
    IN  [k \in DOMAIN s |-> s[place[k]]]

(* The setup of each function, and its early returns.                      *)
Begin ==
    /\ stage = "start"
    /\ at' = 0
    /\ IF task = "dice"
       THEN left' = InOrder(text[1]) /\ right' = InOrder(text[2])
       ELSE /\ left' = IF Swapped THEN text[2] ELSE text[1]
            /\ right' = IF Swapped THEN text[1] ELSE text[2]
    /\ CASE task = "assign" /\ Len(left') <= maskLimit ->
              row' = NoneAssigned(left') /\ stage' = "masks" /\ UNCHANGED answer
         [] task = "assign" /\ Len(left') > maskLimit ->
              row' = {} /\ stage' = "greedy" /\ UNCHANGED answer
         [] task = "edit" /\ left' # <<>> ->
              row' = [k \in 0..Len(left') |-> k] /\ stage' = "edit" /\ UNCHANGED answer
         [] task = "edit" /\ left' = <<>> -> Finish(Len(right')) /\ UNCHANGED row
         [] task = "dice" /\ left' # <<>> /\ right' # <<>> ->
              row' = <<0, 0>> /\ stage' = "dice" /\ UNCHANGED answer
         [] task = "dice" /\ (left' = <<>> \/ right' = <<>>) -> Finish(0) /\ UNCHANGED row
    /\ UNCHANGED <<task, text, grade, maskLimit>>

Iterate(next) ==
    /\ row' = next
    /\ UNCHANGED <<task, text, grade, maskLimit, stage, left, right, answer>>

Return == UNCHANGED <<task, text, grade, maskLimit, left, right, at, row>>

(* Mutant: the table is updated in place, from the small masks up: one     *)
(* artist of the right credits two of the left.                            *)
MasksInPlace(m) ==
    LET best[mask \in SUBSET DOMAIN left] ==
            Max({row[mask]} \cup {best[mask \ {k}] + Alike(k, m) :
                                     k \in {j \in mask : best[mask \ {j}] # Unreached}})
    IN  best

(* One artist of right joins each set of artists of left, in the place of  *)
(* one of them, or none.                                                   *)
Masks(m) ==
    [mask \in DOMAIN row |->
        Max({row[mask]} \cup {row[mask \ {k}] + Alike(k, m) :
                                 k \in {j \in mask : row[mask \ {j}] # Unreached}})]

AssignRight ==
    /\ stage = "masks"
    /\ \/ at < Len(right) /\ at' = at + 1 /\ Iterate(Masks(at + 1))
       \/ at = Len(right) /\ Finish(row[DOMAIN left]) /\ Return

Pairs == (DOMAIN left) \X (DOMAIN right)

(* The sorted pairs, the most alike first, then by their indices.          *)
Precedes(p, q) ==
    \/ Alike(p[1], p[2]) > Alike(q[1], q[2])
    \/ /\ Alike(p[1], p[2]) = Alike(q[1], q[2])
       /\ p[1] < q[1] \/ (p[1] = q[1] /\ p[2] < q[2])

Sorted(k) == CHOOSE p \in Pairs : Cardinality({q \in Pairs : Precedes(q, p)}) = k - 1

Free(p) == \A q \in row : q[1] # p[1] /\ q[2] # p[2]

Total(pairs) == SumFunction([p \in pairs |-> Alike(p[1], p[2])])

GreedyPair ==
    /\ stage = "greedy"
    /\ \/ /\ at < Cardinality(Pairs) /\ at' = at + 1
          /\ LET p == Sorted(at + 1) IN Iterate(IF Free(p) THEN row \cup {p} ELSE row)
       \/ at = Cardinality(Pairs) /\ Finish(Total(row)) /\ Return

(* Mutant: the new row forgets that it begins one lower.                   *)
DistancesFromZero(m) ==
    LET current[k \in 0..Len(left)] ==
            IF k = 0 THEN 0
            ELSE Min({current[k - 1] + 1, row[k] + 1,
                      row[k - 1] + IF left[k] = right[m] THEN 0 ELSE 1})
    IN  current

(* The next row of the table, from left to right.                          *)
Distances(m) ==
    LET current[k \in 0..Len(left)] ==
            IF k = 0 THEN m
            ELSE Min({current[k - 1] + 1, row[k] + 1,
                      row[k - 1] + IF left[k] = right[m] THEN 0 ELSE 1})
    IN  current

EditRow ==
    /\ stage = "edit"
    /\ \/ at < Len(right) /\ at' = at + 1 /\ Iterate(Distances(at + 1))
       \/ at = Len(right) /\ Finish(row[Len(left)]) /\ Return

(* One comparison of the merge; row is left's place and the count.         *)
MergeWords ==
    /\ stage = "dice"
    /\ \/ /\ row[1] < Len(left) /\ at < Len(right)
          /\ LET l == left[row[1] + 1]
                 r == right[at + 1]
             IN  /\ at' = IF l < r THEN at ELSE at + 1
                 /\ Iterate(<<IF l > r THEN row[1] ELSE row[1] + 1,
                              IF l = r THEN row[2] + 1 ELSE row[2]>>)
       \/ /\ row[1] = Len(left) \/ at = Len(right)
          /\ Finish(row[2]) /\ Return

TextNext == Begin \/ AssignRight \/ GreedyPair \/ EditRow \/ MergeWords

TextSpec == TextInit /\ [][TextNext]_textVars

-----------------------------------------------------------------------------
(* Properties                                                              *)

Best ==
    LET A == DOMAIN left
        B == DOMAIN right
    IN  Max({SumFunction([k \in A |-> Alike(k, f[k])]) : f \in Injection(A, B)})

(* optimalArtistAssignment: the table of bit masks finds the best of all   *)
(* one-to-one assignments of the shorter credit list; the fallback for     *)
(* long lists never claims more than that, and at least half of it.        *)
AssignmentIsBest ==
    stage = "done" /\ task = "assign" =>
        IF Len(left) <= maskLimit THEN answer = Best
        ELSE answer <= Best /\ 2 * answer >= Best

(* The alignments of two texts: pairs of positions that do not cross.      *)
Alignments(s, t) ==
    {p \in SUBSET ((DOMAIN s) \X (DOMAIN t)) :
        \A a, b \in p : a # b => (a[1] < b[1] /\ a[2] < b[2]) \/ (a[1] > b[1] /\ a[2] > b[2])}

(* Characters outside the alignment are deleted or inserted, those that    *)
(* differ in it are replaced.                                              *)
Edits(s, t, p) ==
    Len(s) + Len(t) - 2 * Cardinality(p) + Cardinality({a \in p : s[a[1]] # t[a[2]]})

Count(s, word) == Cardinality({k \in DOMAIN s : s[k] = word})

(* levenshtein with its two rows is the least number of edits over all     *)
(* alignments; tokenDice's merge counts the words both texts have, as      *)
(* often as both have them.                                                *)
TextsAreCompared ==
    stage = "done" /\ task \in {"edit", "dice"} =>
        LET s == text[1]
            t == text[2]
        IN  answer = IF task = "edit" THEN Min({Edits(s, t, p) : p \in Alignments(s, t)})
                     ELSE SumFunction([w \in Range(s) \cap Range(t) |-> Min({Count(s, w), Count(t, w)})])

=============================================================================
