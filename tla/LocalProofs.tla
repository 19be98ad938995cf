----------------------------- MODULE LocalProofs -----------------------------
(***************************************************************************)
(* Theorems about the parts that keep to themselves: the planner's loops,  *)
(* the readers of a playlist, the search cache, the settings of a command, *)
(* the comparison of texts and the assignment of artists to artists.       *)
(* Each part has an invariant of its own; they share this module, not any  *)
(* state.                                                                  *)
(***************************************************************************)
EXTENDS PlanLoop, Paging, SearchCache, Settings, Similarity, OrderLemmas, SequenceTheorems, TLAPS

-----------------------------------------------------------------------------
(* The planner.  Each loop's maps hold what the rows it has walked brought *)
(* into them; so a look into a map answers what the definitions of         *)
(* PlaylistPlan ask of the rows before.                                    *)

(* The outcomes that are ever given to BuildPlan.                          *)
Given == [key : Keys, dup : BOOLEAN,
          status : {"FAILED", "NOT_FOUND", "AMBIGUOUS", "SKIPPED", "MATCHED", "INPUT_DUPLICATE"},
          chosen : Tracks \cup {NoTrack, BadTrack}]

Walked == IF phase = "done" THEN Len(source) ELSE i - 1

LoopTypes ==
    /\ via \in {"text", "songs", "matches"}
    /\ phase \in {"parse", "mark", "fill", "plan", "done", "failed"}
    /\ i \in Nat \ {0}
    /\ lines \in Seq(Keys \cup {Blank}) /\ source \in Seq(Keys)
    /\ marked \in Seq(BOOLEAN) /\ given \in Seq(Given) /\ tracks \in Seq(Tracks)
    /\ existing \in SUBSET Tracks

SourceRead ==
    /\ via = "matches" => phase \in {"fill", "plan", "done"}
    /\ phase = "parse" =>
          /\ i <= Len(lines) + 1
          /\ Lists(source, {l \in Kept : l < i}, lines)
          /\ seen = {source[r] : r \in Rows}
    /\ phase \in {"mark", "fill", "plan", "done"} /\ via # "matches" => Lists(source, Kept, lines)

MarksRight ==
    /\ marked = IF via = "matches" THEN [r \in Rows |-> FALSE] ELSE MarkSourceDuplicates(source)
    /\ phase = "mark" => i <= Len(source) + 1 /\ seen = {source[r] : r \in 1..(i - 1)}

GivenRight ==
    /\ phase \in {"parse", "mark"} => given = <<>>
    /\ phase = "fill" => i <= Len(source) + 1 /\ Len(given) = i - 1
    /\ phase \in {"plan", "done"} => Len(given) = Len(source)
    /\ \A r \in DOMAIN given : given[r].key = source[r] /\ given[r].dup = marked[r]

PlanRight ==
    /\ phase \notin {"plan", "done"} => seenSource = {} /\ seenMatched = {} /\ tracks = <<>>
    /\ phase \in {"plan", "done"} =>
          /\ Walked <= Len(source)
          /\ outcomes = [r \in Rows |-> IF r <= Walked THEN BuildPlan(given, existing)[r] ELSE given[r]]
          /\ seenSource = {given[r].key : r \in 1..Walked}
          /\ seenMatched = {given[r].chosen : r \in {p \in 1..Walked : Eligible(given, existing, p)}}
          /\ Lists(tracks, {r \in PlannedRows(given, existing) : r <= Walked}, Chosen)
          /\ {tracks[k] : k \in DOMAIN tracks} = seenMatched
          /\ IsFiniteSet(seenMatched) /\ Cardinality(seenMatched) = Len(tracks)

LoopInv == LoopTypes /\ SourceRead /\ MarksRight /\ GivenRight /\ PlanRight

-----------------------------------------------------------------------------

(* A list that gets the value of an index beyond those it lists.           *)
LEMMA ListGrows ==
    ASSUME NEW S, NEW rows \in Seq(S), NEW n \in Nat \ {0}, NEW picked \in SUBSET (1..(n - 1)),
           NEW value, value[n] \in S, Lists(rows, picked, value)
    PROVE  Lists(Append(rows, value[n]), picked \cup {n}, value)
<1> DEFINE c == Cardinality(picked)
           longer == Append(rows, value[n])
           more == picked \cup {n}
<1>1. IsFiniteSet(picked) /\ c \in Nat
  <2>1. IsFiniteSet(1..(n - 1))
    BY FS_Interval
  <2> QED BY <2>1, FS_Subset, FS_CardinalityType
<1>2. n \notin picked /\ \A r \in picked : r \in Nat /\ r < n
  OBVIOUS
<1>3. Cardinality(more) = c + 1
  BY <1>1, <1>2, FS_AddElement
<1>4. Len(rows) = c /\ \A r \in picked : rows[Cardinality({p \in picked : p <= r})] = value[r]
  BY DEF Lists
<1>5. Len(longer) = c + 1 /\ (\A k \in 1..c : longer[k] = rows[k]) /\ longer[c + 1] = value[n]
  BY <1>4, AppendProperties
<1> HIDE DEF c, longer
<1>6. ASSUME NEW r \in picked
      PROVE  longer[Cardinality({p \in more : p <= r})] = value[r]
  <2> DEFINE below == {p \in picked : p <= r}
  <2>1. {p \in more : p <= r} = below
    BY <1>2
  <2>2. IsFiniteSet(below) /\ Cardinality(below) <= c /\ Cardinality(below) \in Nat
    <3>1. below \in SUBSET picked
      OBVIOUS
    <3> HIDE DEF below
    <3> QED BY <1>1, <3>1, FS_Subset, FS_CardinalityType DEF c
  <2>3. Cardinality(below) # 0
    <3>1. r \in below
      BY <1>2
    <3> HIDE DEF below
    <3> QED BY <2>2, <3>1, FS_EmptySet
  <2>4. rows[Cardinality(below)] = value[r]
    BY <1>4
  <2> HIDE DEF below
  <2>5. Cardinality(below) \in 1..c
    BY <1>1, <2>2, <2>3
  <2> QED BY <1>5, <2>1, <2>4, <2>5
<1>7. longer[Cardinality({p \in more : p <= n})] = value[n]
  <2>1. {p \in more : p <= n} = more
    <3>1. \A p \in more : p <= n
      BY <1>2
    <3> QED BY <3>1
  <2> QED BY <1>3, <1>5, <2>1
<1> QED BY <1>3, <1>5, <1>6, <1>7 DEF Lists, longer

LEMMA NothingListed == ASSUME NEW value PROVE Lists(<<>>, {}, value)
BY FS_EmptySet DEF Lists

(* A row whose verdict joins the row, whichever field is set first.        *)
LEMMA VerdictJoins ==
    ASSUME NEW entry \in Given, NEW verdict, NEW again
    PROVE  [entry EXCEPT !.status = verdict, !.dup = again] = [entry EXCEPT !.dup = again, !.status = verdict]
BY DEF Given

-----------------------------------------------------------------------------

LEMMA LoopInitHolds == Init => LoopInv
<1> SUFFICES ASSUME Init PROVE LoopInv
  OBVIOUS
<1>1. /\ via \in {"text", "songs", "matches"} /\ existing \in SUBSET Tracks /\ i = 1 /\ i \in Nat \ {0}
      /\ seen = {} /\ given = <<>> /\ tracks = <<>> /\ seenSource = {} /\ seenMatched = {}
      /\ marked = [r \in Rows |-> FALSE]
  BY DEF Init
<1>2. given \in Seq(Given) /\ tracks \in Seq(Tracks) /\ DOMAIN given = {} /\ Len(given) = 0
  BY <1>1
<1>3. CASE via # "matches"
  <2>1. phase = "parse" /\ lines \in SeqOf(Keys \cup {Blank}, N) /\ source = <<>>
    BY <1>3 DEF Init
  <2>2. lines \in Seq(Keys \cup {Blank})
    <3>1. PICK m \in 0..N : lines \in [1..m -> Keys \cup {Blank}]
      BY <2>1 DEF SeqOf
    <3> QED BY <3>1, NAssumption, SeqDef
  <2>3. source \in Seq(Keys) /\ Rows = {} /\ marked = <<>> /\ marked \in Seq(BOOLEAN)
    BY <1>1, <2>1 DEF Rows
  <2>4. i <= Len(lines) + 1
    BY <1>1, <2>2, LenProperties
  <2>5. {l \in Kept : l < i} = {}
    BY <1>1, <2>2, LenProperties DEF Kept
  <2>6. Lists(source, {l \in Kept : l < i}, lines)
    BY <2>1, <2>5, NothingListed
  <2>7. marked = MarkSourceDuplicates(source)
    BY <2>1, <2>3 DEF MarkSourceDuplicates
  <2>8. seen = {source[r] : r \in Rows}
    BY <1>1, <2>3
  <2>9. LoopTypes
    BY <1>1, <1>2, <2>1, <2>2, <2>3 DEF LoopTypes
  <2>10. SourceRead
    BY <1>3, <2>1, <2>4, <2>6, <2>8 DEF SourceRead
  <2>11. MarksRight
    BY <1>3, <2>1, <2>7 DEF MarksRight
  <2>12. GivenRight /\ PlanRight
    BY <1>1, <1>2, <2>1 DEF GivenRight, PlanRight
  <2> QED BY <2>9, <2>10, <2>11, <2>12 DEF LoopInv
<1>4. CASE via = "matches"
  <2>1. phase = "fill" /\ lines = <<>> /\ source \in [1..N -> Keys]
    BY <1>4 DEF Init
  <2>2. lines \in Seq(Keys \cup {Blank}) /\ source \in Seq(Keys) /\ Rows = 1..N
    BY <2>1, NAssumption, SeqDef DEF Rows
  <2>3. marked \in Seq(BOOLEAN)
    <3>1. marked \in [1..N -> BOOLEAN]
      BY <1>1, <2>2
    <3> QED BY <3>1, NAssumption, SeqDef
  <2>4. Len(source) \in Nat
    BY <2>2, LenProperties
  <2>5. LoopTypes
    BY <1>1, <1>2, <2>1, <2>2, <2>3 DEF LoopTypes
  <2>6. SourceRead /\ MarksRight
    BY <1>1, <1>4, <2>1 DEF SourceRead, MarksRight
  <2>7. GivenRight /\ PlanRight
    BY <1>1, <1>2, <2>1, <2>4 DEF GivenRight, PlanRight
  <2> QED BY <2>5, <2>6, <2>7 DEF LoopInv
<1> QED BY <1>3, <1>4

LEMMA ParseLineKeeps == LoopInv /\ ParseLine => LoopInv'
<1> SUFFICES ASSUME LoopInv, ParseLine PROVE LoopInv'
  OBVIOUS
<1>1. /\ phase = "parse" /\ i \in DOMAIN lines
      /\ via' = via /\ lines' = lines /\ given' = given /\ existing' = existing
      /\ outcomes' = outcomes /\ tracks' = tracks /\ seenSource' = seenSource /\ seenMatched' = seenMatched
  BY DEF ParseLine, planned
<1>2. /\ LoopTypes /\ via # "matches" /\ i \in Nat \ {0} /\ i <= Len(lines) + 1
      /\ lines \in Seq(Keys \cup {Blank}) /\ source \in Seq(Keys) /\ marked \in Seq(BOOLEAN)
      /\ Lists(source, {l \in Kept : l < i}, lines)
      /\ seen = {source[r] : r \in Rows}
      /\ marked = MarkSourceDuplicates(source)
      /\ given = <<>> /\ seenSource = {} /\ seenMatched = {} /\ tracks = <<>>
  BY <1>1 DEF LoopInv, LoopTypes, SourceRead, MarksRight, GivenRight, PlanRight
<1>3. /\ Len(lines) \in Nat /\ DOMAIN lines = 1..Len(lines) /\ i <= Len(lines)
      /\ \A l \in DOMAIN lines : l \in Nat /\ l >= 1
  BY <1>1, <1>2, LenProperties
<1>4. Kept' = Kept
  BY <1>1 DEF Kept, Ignored
<1>5. CASE phase' = "failed" /\ UNCHANGED <<i, source, marked, seen>>
  <2>1. LoopTypes'
    BY <1>1, <1>2, <1>5 DEF LoopTypes
  <2>2. SourceRead'
    BY <1>1, <1>2, <1>5 DEF SourceRead
  <2>3. MarksRight'
    BY <1>1, <1>2, <1>5 DEF MarksRight, Rows
  <2>4. GivenRight'
    BY <1>1, <1>2, <1>5 DEF GivenRight
  <2>5. PlanRight'
    BY <1>1, <1>2, <1>5 DEF PlanRight
  <2> QED BY <2>1, <2>2, <2>3, <2>4, <2>5 DEF LoopInv
<1>6. CASE i' = i + 1 /\ phase' = phase
  <2>1. i' \in Nat \ {0} /\ i' <= Len(lines) + 1
    BY <1>2, <1>3, <1>6
  <2>2. CASE Ignored(lines[i]) /\ UNCHANGED <<source, marked, seen>>
    <3>1. {l \in Kept : l < i + 1} = {l \in Kept : l < i}
      <4>1. \A l \in Kept : l # i /\ l \in Nat
        BY <1>3, <2>2 DEF Kept
      <4> QED BY <1>2, <4>1
    <3>2. Lists(source', {l \in Kept' : l < i'}, lines')
      BY <1>1, <1>2, <1>4, <1>6, <2>2, <3>1
    <3>3. Rows' = Rows
      BY <2>2 DEF Rows
    <3>4. LoopTypes'
      BY <1>1, <1>2, <1>6, <2>1, <2>2 DEF LoopTypes
    <3>5. SourceRead'
      BY <1>1, <1>2, <1>6, <2>1, <2>2, <3>2, <3>3 DEF SourceRead
    <3>6. MarksRight'
      BY <1>1, <1>2, <1>6, <2>2, <3>3 DEF MarksRight
    <3>7. GivenRight' /\ PlanRight'
      BY <1>1, <1>2, <1>6 DEF GivenRight, PlanRight
    <3> QED BY <3>4, <3>5, <3>6, <3>7 DEF LoopInv
  <2>3. CASE /\ ~Ignored(lines[i])
             /\ source' = Append(source, lines[i])
             /\ marked' = Append(marked, lines[i] \in seen)
             /\ seen' = seen \cup {lines[i]}
    <3> DEFINE key == lines[i]
               n == Len(source)
    <3>1. key \in Keys
      <4>1. key \in Keys \cup {Blank}
        BY <1>1, <1>2, ElementOfSeq, <1>3
      <4> QED BY <2>3, <4>1 DEF Ignored
    <3>2. /\ n \in Nat /\ Rows = 1..n
          /\ source' \in Seq(Keys) /\ Rows' = 1..(n + 1) /\ Len(source') = n + 1
          /\ (\A r \in 1..n : source'[r] = source[r]) /\ source'[n + 1] = key
      <4>1. source' \in Seq(Keys) /\ Len(source') = n + 1
            /\ (\A r \in 1..n : source'[r] = source[r]) /\ source'[n + 1] = key
        BY <1>2, <2>3, <3>1, AppendProperties
      <4> QED BY <1>2, <4>1, LenProperties DEF Rows
    <3> DEFINE again == lines[i] \in seen
    <3>3. /\ marked' \in Seq(BOOLEAN) /\ Len(marked) = n /\ DOMAIN marked' = 1..(n + 1)
          /\ (\A r \in 1..n : marked'[r] = marked[r]) /\ marked'[n + 1] = again
      <4>1. DOMAIN marked = 1..n
        BY <1>2, <3>2 DEF MarkSourceDuplicates, Rows
      <4>2. Len(marked) = n
        BY <1>2, <3>2, <4>1, LenProperties
      <4>3. again \in BOOLEAN /\ marked' = Append(marked, again)
        BY <2>3
      <4> HIDE DEF again, n
      <4>4. /\ marked' \in Seq(BOOLEAN) /\ Len(marked') = n + 1
            /\ (\A r \in 1..n : marked'[r] = marked[r]) /\ marked'[n + 1] = again
        BY <1>2, <4>2, <4>3, AppendProperties
      <4> QED BY <4>2, <4>4, LenProperties
    <3> HIDE DEF n
    <3>4. \A r \in 1..(n + 1) : r \in 1..n \/ r = n + 1
      BY <3>2
    <3>5. seen' = {source'[r] : r \in Rows'}
      <4>1. \A x : x \in seen <=> \E r \in 1..n : x = source[r]
        BY <1>2, <3>2
      <4>2. \A x : x \in seen' <=> x \in seen \/ x = key
        BY <2>3
      <4>3. n + 1 \in 1..(n + 1) /\ 1..n \subseteq 1..(n + 1)
        BY <3>2
      <4>4. \A x : x \in seen' <=> \E r \in 1..(n + 1) : x = source'[r]
        BY <3>2, <3>4, <4>1, <4>2, <4>3
      <4> QED BY <3>2, <4>4
    <3>6. marked' = MarkSourceDuplicates(source')
      <4>1. ASSUME NEW r \in 1..(n + 1)
            PROVE  marked'[r] = (\E j \in 1..(n + 1) : j < r /\ source'[j] = source'[r])
        <5>1. CASE r \in 1..n
          <6>1. marked[r] = (\E j \in 1..n : j < r /\ source[j] = source[r])
            BY <1>2, <3>2, <5>1 DEF MarkSourceDuplicates, Rows
          <6>2. (\E j \in 1..n : j < r /\ source[j] = source[r])
                  <=> (\E j \in 1..(n + 1) : j < r /\ source'[j] = source'[r])
            BY <3>2, <5>1
          <6> QED BY <3>3, <5>1, <6>1, <6>2
        <5>2. CASE r = n + 1
          <6>1. (lines[i] \in seen) <=> \E j \in 1..n : source[j] = key
            BY <1>2, <3>2
          <6>2. (\E j \in 1..n : source[j] = key)
                  <=> (\E j \in 1..(n + 1) : j < r /\ source'[j] = source'[r])
            BY <3>2, <5>2
          <6>3. marked'[r] = (lines[i] \in seen)
            BY <3>3, <5>2
          <6>4. (lines[i] \in seen) <=> (\E j \in 1..(n + 1) : j < r /\ source'[j] = source'[r])
            BY <6>1, <6>2
          <6>5. CASE lines[i] \in seen
            BY <6>3, <6>4, <6>5
          <6>6. CASE lines[i] \notin seen
            <7>0. (lines[i] \in seen) = FALSE
              BY <6>6
            <7>1. marked'[r] = FALSE
              BY <6>3, <7>0, Zenon
            <7>2. ~ \E j \in 1..(n + 1) : j < r /\ source'[j] = source'[r]
              BY <6>4, <6>6
            <7> QED BY <7>1, <7>2
          <6> QED BY <6>5, <6>6
        <5> QED BY <3>4, <4>1, <5>1, <5>2
      <4>2. marked' = [r \in 1..(n + 1) |-> marked'[r]]
        BY <3>3, SeqDef
      <4>3. DOMAIN source' = 1..(n + 1)
        BY <3>2 DEF Rows
      <4> QED BY <4>1, <4>2, <4>3 DEF MarkSourceDuplicates
    <3>7. Lists(source', {l \in Kept : l < i + 1}, lines)
      <4> DEFINE picked == {l \in Kept : l < i}
      <4>1. {l \in Kept : l < i + 1} = picked \cup {i}
        <5>1. i \in Kept
          BY <1>1, <2>3 DEF Kept
        <5>2. \A l \in Kept : l \in Nat /\ (l < i + 1 <=> l < i \/ l = i)
          BY <1>2, <1>3 DEF Kept
        <5> QED BY <1>2, <5>1, <5>2
      <4>2. picked \in SUBSET (1..(i - 1))
        BY <1>2, <1>3 DEF Kept
      <4>3. Lists(source, picked, lines) /\ source \in Seq(Keys) /\ lines[i] \in Keys /\ i \in Nat \ {0}
        BY <1>2, <3>1
      <4>4. source' = Append(source, lines[i])
        BY <2>3
      <4> HIDE DEF picked, key
      <4>5. Lists(Append(source, lines[i]), picked \cup {i}, lines)
        BY <4>2, <4>3, ListGrows, Zenon
      <4> QED BY <4>1, <4>4, <4>5, Zenon
    <3>8. LoopTypes'
      BY <1>1, <1>2, <1>6, <2>1, <3>2, <3>3 DEF LoopTypes
    <3>9. SourceRead'
      BY <1>1, <1>2, <1>4, <1>6, <2>1, <3>5, <3>7 DEF SourceRead
    <3>10. MarksRight'
      BY <1>1, <1>2, <1>6, <3>6 DEF MarksRight
    <3>11. GivenRight' /\ PlanRight'
      BY <1>1, <1>2, <1>6 DEF GivenRight, PlanRight
    <3> QED BY <3>8, <3>9, <3>10, <3>11 DEF LoopInv
  <2> QED BY <1>6, <2>2, <2>3 DEF ParseLine
<1> QED BY <1>5, <1>6 DEF ParseLine

LEMMA MarkRowKeeps == LoopInv /\ MarkRow => LoopInv'
<1> SUFFICES ASSUME LoopInv, MarkRow PROVE LoopInv'
  OBVIOUS
<1>1. /\ phase = "mark" /\ i \in Rows /\ i' = i + 1 /\ phase' = phase
      /\ via' = via /\ lines' = lines /\ source' = source /\ given' = given /\ existing' = existing
      /\ outcomes' = outcomes /\ tracks' = tracks /\ seenSource' = seenSource /\ seenMatched' = seenMatched
      /\ seen' = seen \cup {source[i]}
      /\ marked' = [marked EXCEPT ![i] = marked[i] \/ source[i] \in seen]
  BY DEF MarkRow, planned
<1>2. /\ LoopTypes /\ via # "matches" /\ i \in Nat \ {0} /\ source \in Seq(Keys)
      /\ Lists(source, Kept, lines)
      /\ seen = {source[r] : r \in 1..(i - 1)}
      /\ marked = MarkSourceDuplicates(source) /\ marked \in Seq(BOOLEAN)
      /\ given = <<>> /\ seenSource = {} /\ seenMatched = {} /\ tracks = <<>>
  BY <1>1 DEF LoopInv, LoopTypes, SourceRead, MarksRight, GivenRight, PlanRight
<1>3. Len(source) \in Nat /\ Rows = 1..Len(source) /\ i <= Len(source) /\ i - 1 \in Nat
  BY <1>1, <1>2, LenProperties DEF Rows
(* The parser has marked the rows: the loop finds nothing to add.          *)
<1>4. marked' = marked
  <2>1. marked[i] = (\E j \in Rows : j < i /\ source[j] = source[i]) /\ DOMAIN marked = Rows
    BY <1>1, <1>2 DEF MarkSourceDuplicates, Rows
  <2>2. source[i] \in seen => \E j \in Rows : j < i /\ source[j] = source[i]
    BY <1>2, <1>3
  <2>3. (marked[i] \/ source[i] \in seen) = marked[i]
    BY <2>1, <2>2, Zenon
  <2>4. marked = [r \in Rows |-> marked[r]]
    BY <1>2 DEF MarkSourceDuplicates, Rows
  <2> QED BY <1>1, <2>1, <2>3, <2>4, Zenon
<1>5. seen' = {source[r] : r \in 1..i}
  <2>1. \A r \in 1..i : r \in 1..(i - 1) \/ r = i
    BY <1>2
  <2>2. i \in 1..i /\ 1..(i - 1) \subseteq 1..i
    BY <1>2
  <2> QED BY <1>1, <1>2, <2>1, <2>2
<1>6. Kept' = Kept
  BY <1>1 DEF Kept, Ignored
<1>7. LoopTypes'
  <2>1. /\ phase' = phase /\ via' = via /\ lines' = lines /\ source' = source /\ given' = given
        /\ existing' = existing /\ tracks' = tracks
    BY <1>1
  <2>2. i' \in Nat \ {0}
    BY <1>1, <1>2
  <2> QED BY <1>2, <1>4, <2>1, <2>2 DEF LoopTypes
<1>8. SourceRead'
  BY <1>1, <1>2, <1>6 DEF SourceRead
<1>9. MarksRight'
  <2>1. i' - 1 = i /\ i' <= Len(source) + 1
    BY <1>1, <1>2, <1>3
  <2>2. seen' = {source'[r] : r \in 1..(i' - 1)}
    BY <1>1, <1>5, <2>1
  <2> QED BY <1>1, <1>2, <1>4, <2>1, <2>2 DEF MarksRight
<1>10. GivenRight' /\ PlanRight'
  BY <1>1, <1>2 DEF GivenRight, PlanRight
<1> QED BY <1>7, <1>8, <1>9, <1>10 DEF LoopInv

LEMMA FillRowKeeps == LoopInv /\ FillRow => LoopInv'
<1> SUFFICES ASSUME LoopInv, FillRow PROVE LoopInv'
  OBVIOUS
<1>1. /\ phase = "fill" /\ i \in Rows /\ i' = i + 1 /\ phase' = phase
      /\ via' = via /\ lines' = lines /\ source' = source /\ marked' = marked /\ existing' = existing
      /\ outcomes' = outcomes /\ tracks' = tracks /\ seenSource' = seenSource /\ seenMatched' = seenMatched
  BY DEF FillRow, planned, parsed
<1>2. /\ LoopTypes /\ i \in Nat \ {0} /\ source \in Seq(Keys) /\ marked \in Seq(BOOLEAN)
      /\ given \in Seq(Given) /\ Len(given) = i - 1
      /\ seenSource = {} /\ seenMatched = {} /\ tracks = <<>>
      /\ \A r \in DOMAIN given : given[r].key = source[r] /\ given[r].dup = marked[r]
  BY <1>1 DEF LoopInv, LoopTypes, GivenRight, PlanRight
<1>3. Len(source) \in Nat /\ Rows = 1..Len(source) /\ i <= Len(source)
  BY <1>1, <1>2, LenProperties DEF Rows
<1>4. marked[i] \in BOOLEAN
  <2>1. i \in DOMAIN marked
    BY <1>1 DEF LoopInv, MarksRight, MarkSourceDuplicates, Rows
  <2> QED BY <1>2, <2>1, ElementOfSeq, LenProperties
<1>5. PICK entry \in Given : entry.key = source[i] /\ entry.dup = marked[i] /\ given' = Append(given, entry)
  <2>1. PICK v \in IF via = "matches" THEN MatchVerdicts
                   ELSE IF marked[i] THEN {<<"INPUT_DUPLICATE", NoTrack>>}
                   ELSE EngineVerdicts :
           given' = Append(given, [key |-> source[i], dup |-> marked[i],
                                   status |-> v[1], chosen |-> v[2]])
    BY DEF FillRow
  <2>2. /\ v[1] \in {"FAILED", "NOT_FOUND", "AMBIGUOUS", "SKIPPED", "MATCHED", "INPUT_DUPLICATE"}
        /\ v[2] \in Tracks \cup {NoTrack, BadTrack}
    BY <2>1 DEF MatchVerdicts, EngineVerdicts
  <2>3. source[i] \in Keys
    BY <1>1, <1>2, <1>3, ElementOfSeq
  <2>4. [key |-> source[i], dup |-> marked[i], status |-> v[1], chosen |-> v[2]] \in Given
    BY <1>4, <2>2, <2>3 DEF Given
  <2> QED BY <2>1, <2>4
<1>6. /\ given' \in Seq(Given) /\ Len(given') = i /\ DOMAIN given' = 1..i /\ DOMAIN given = 1..(i - 1)
      /\ (\A r \in 1..(i - 1) : given'[r] = given[r]) /\ given'[i] = entry
  <2>1. /\ given' \in Seq(Given) /\ Len(given') = Len(given) + 1
        /\ (\A r \in 1..Len(given) : given'[r] = given[r]) /\ given'[Len(given) + 1] = entry
    BY <1>2, <1>5, AppendProperties
  <2>2. Len(given) + 1 = i
    BY <1>2
  <2> QED BY <1>2, <2>1, <2>2, LenProperties
<1>7. \A r \in DOMAIN given' : given'[r].key = source[r] /\ given'[r].dup = marked[r]
  <2>1. \A r \in 1..i : r \in 1..(i - 1) \/ r = i
    BY <1>2
  <2> QED BY <1>2, <1>5, <1>6, <2>1
<1>8. Kept' = Kept
  BY <1>1 DEF Kept, Ignored
<1>9. LoopTypes'
  BY <1>1, <1>2, <1>6 DEF LoopTypes
<1>10. SourceRead' /\ MarksRight'
  BY <1>1, <1>8 DEF LoopInv, SourceRead, MarksRight, Rows
<1>11. GivenRight'
  <2>1. i' <= Len(source) + 1 /\ Len(given') = i' - 1
    BY <1>1, <1>2, <1>3, <1>6
  <2> QED BY <1>1, <1>7, <2>1 DEF GivenRight
<1>12. PlanRight'
  BY <1>1, <1>2 DEF PlanRight
<1> QED BY <1>9, <1>10, <1>11, <1>12 DEF LoopInv

LEMMA PlanRowKeeps == LoopInv /\ PlanRow => LoopInv'
<1> SUFFICES ASSUME LoopInv, PlanRow PROVE LoopInv'
  OBVIOUS
<1> DEFINE entry == outcomes[i]
           repeated == entry.dup \/ entry.key \in seenSource
<1>1. /\ phase = "plan" /\ i \in Rows /\ i' = i + 1 /\ phase' = phase
      /\ via' = via /\ lines' = lines /\ source' = source /\ marked' = marked /\ existing' = existing
      /\ given' = given /\ seen' = seen
      /\ seenSource' = seenSource \cup {entry.key}
      /\ outcomes' = [outcomes EXCEPT ![i].status = RowVerdict(entry, repeated), ![i].dup = repeated]
      /\ IF Appends(entry, repeated)
         THEN seenMatched' = seenMatched \cup {entry.chosen} /\ tracks' = Append(tracks, entry.chosen)
         ELSE seenMatched' = seenMatched /\ tracks' = tracks
  BY DEF PlanRow, parsed
<1>2. /\ LoopTypes /\ i \in Nat \ {0} /\ source \in Seq(Keys) /\ existing \in SUBSET Tracks
      /\ given \in Seq(Given) /\ Len(given) = Len(source) /\ tracks \in Seq(Tracks)
  BY <1>1 DEF LoopInv, LoopTypes, GivenRight
<1> DEFINE w == i - 1
           bp == BuildPlan(given, existing)
           earlier == {p \in 1..w : Eligible(given, existing, p)}
           plannedSoFar == {r \in PlannedRows(given, existing) : r <= w}
<1>3. /\ outcomes = [r \in Rows |-> IF r <= w THEN bp[r] ELSE given[r]]
      /\ seenSource = {given[r].key : r \in 1..w}
      /\ seenMatched = {given[r].chosen : r \in earlier}
      /\ Lists(tracks, plannedSoFar, Chosen)
      /\ {tracks[k] : k \in DOMAIN tracks} = seenMatched
      /\ IsFiniteSet(seenMatched) /\ Cardinality(seenMatched) = Len(tracks)
  BY <1>1 DEF LoopInv, PlanRight, Walked
<1>4. /\ Len(source) \in Nat /\ Rows = 1..Len(source) /\ DOMAIN given = Rows
      /\ i <= Len(source) /\ w \in Nat /\ w < i
      /\ (\A r \in Rows : r \in Nat /\ r >= 1 /\ (r <= w <=> r < i))
      /\ \A r : r \in 1..w <=> r \in Rows /\ r < i
  BY <1>1, <1>2, LenProperties DEF Rows
<1>5. entry = given[i] /\ given[i] \in Given
  <2> HIDE DEF w, bp
  <2>1. ~(i <= w)
    BY <1>2, <1>4
  <2>2. outcomes[i] = given[i]
    <3>1. i \in Rows
      BY <1>1
    <3>2. outcomes = [r \in Rows |-> IF r <= w THEN bp[r] ELSE given[r]]
      BY <1>3
    <3> QED BY <2>1, <3>1, <3>2
  <2>3. i \in 1..Len(given)
    BY <1>1, <1>2, <1>4
  <2> QED BY <1>2, <2>2, <2>3, ElementOfSeq
<1> HIDE DEF entry, w, bp

(* The maps answer what the definitions ask.                               *)
<1>6. repeated <=> Repeated(given, i)
  <2>1. entry.key \in seenSource <=> \E r \in Rows : r < i /\ given[r].key = entry.key
    BY <1>3, <1>4
  <2> QED BY <1>4, <1>5, <2>1 DEF Repeated
<1>7. entry.chosen \in seenMatched <=> ClaimedEarlier(given, existing, i)
  <2>1. entry.chosen \in seenMatched
          <=> \E r \in Rows : r < i /\ Eligible(given, existing, r) /\ given[r].chosen = entry.chosen
    BY <1>3, <1>4
  <2> QED BY <1>4, <1>5, <2>1 DEF ClaimedEarlier
<1> HIDE DEF repeated
<1>8. Eligible(given, existing, i)
        <=> ~repeated /\ entry.status \notin Unresolved /\ entry.chosen \in Tracks \ existing
  BY <1>5, <1>6, TrackAssumption DEF Eligible, InPlay
<1>9. Appends(entry, repeated) <=> Eligible(given, existing, i) /\ ~ClaimedEarlier(given, existing, i)
  BY <1>7, <1>8 DEF Appends
<1>10. Appends(entry, repeated) <=> i \in PlannedRows(given, existing)
  BY <1>1, <1>4, <1>9 DEF PlannedRows
<1>11. RowVerdict(entry, repeated) = PlanStatus(given, existing, i)
  <2>1. existing \cap Tracks = existing
    BY <1>2
  <2>2. CASE repeated
    BY <1>6, <2>2 DEF RowVerdict, PlanStatus, InPlay, Eligible
  <2>3. CASE ~repeated /\ ~InPlay(given, i)
    <3>1. entry.status \in Unresolved \/ entry.chosen = NoTrack
      BY <1>5, <1>6, <2>3 DEF InPlay
    <3>2. RowVerdict(entry, repeated) = entry.status
      BY <2>3, <3>1 DEF RowVerdict
    <3> QED BY <1>5, <1>6, <2>3, <3>2 DEF PlanStatus, Eligible
  <2>4. CASE ~repeated /\ InPlay(given, i)
    <3>1. ~(entry.status \in Unresolved \/ entry.chosen = NoTrack) /\ ~Repeated(given, i)
      BY <1>5, <1>6, <2>4 DEF InPlay
    <3>2. CASE entry.chosen \notin Tracks
      BY <1>5, <2>1, <2>4, <3>1, <3>2, <1>2 DEF RowVerdict, PlanStatus, Eligible
    <3>3. CASE entry.chosen \in existing
      BY <1>5, <2>1, <2>4, <3>1, <3>3, <1>2 DEF RowVerdict, PlanStatus, Eligible
    <3>4. CASE entry.chosen \in Tracks \ existing
      <4>1. Eligible(given, existing, i)
        BY <1>5, <2>4, <3>4 DEF Eligible
      <4>2. PlanStatus(given, existing, i)
              = IF ClaimedEarlier(given, existing, i) THEN "INPUT_DUPLICATE" ELSE PlannedStatus(given[i])
        BY <1>5, <2>1, <2>4, <3>1, <3>4, <4>1 DEF PlanStatus
      <4>3. RowVerdict(entry, repeated)
              = IF entry.chosen \in seenMatched THEN "INPUT_DUPLICATE" ELSE PlannedStatus(entry)
        BY <2>4, <3>1, <3>4 DEF RowVerdict
      <4> QED BY <1>5, <1>7, <4>2, <4>3
    <3> QED BY <1>2, <3>2, <3>3, <3>4
  <2> QED BY <2>2, <2>3, <2>4
<1>12. outcomes' = [r \in Rows |-> IF r <= i THEN bp[r] ELSE given[r]]
  <2> DEFINE verdict == RowVerdict(entry, repeated)
  <2>1. /\ DOMAIN outcomes = Rows /\ outcomes = [r \in Rows |-> outcomes[r]]
        /\ \A r \in Rows : outcomes[r] = IF r <= w THEN bp[r] ELSE given[r]
    BY <1>3
  <2>2. outcomes'[i] = [entry EXCEPT !.status = verdict, !.dup = repeated]
    BY <1>1, <2>1 DEF entry
  <2>3. bp[i] = [given[i] EXCEPT !.dup = Repeated(given, i), !.status = PlanStatus(given, existing, i)]
    BY <1>1, <1>4 DEF BuildPlan, bp
  <2>4. repeated = Repeated(given, i)
    <3>1. repeated \in BOOLEAN /\ Repeated(given, i) \in BOOLEAN
      BY <1>5 DEF repeated, Repeated, Given
    <3>2. CASE repeated
      BY <1>6, <3>1, <3>2
    <3>3. CASE ~repeated
      BY <1>6, <3>1, <3>3
    <3> QED BY <3>2, <3>3
  <2> HIDE DEF verdict
  <2>5. outcomes'[i] = [entry EXCEPT !.dup = repeated, !.status = verdict]
    <3>1. entry \in Given
      BY <1>5
    <3> QED BY <2>2, <3>1, VerdictJoins, Zenon
  <2>6. outcomes'[i] = bp[i]
    BY <1>5, <1>11, <2>3, <2>4, <2>5, Zenon DEF verdict
  <2>7. /\ DOMAIN outcomes' = Rows /\ outcomes' = [r \in Rows |-> outcomes'[r]]
        /\ \A r \in Rows \ {i} : outcomes'[r] = outcomes[r]
    BY <1>1, <2>1
  <2>8. \A r \in Rows : outcomes'[r] = IF r <= i THEN bp[r] ELSE given[r]
    <3>1. SUFFICES ASSUME NEW r \in Rows PROVE outcomes'[r] = IF r <= i THEN bp[r] ELSE given[r]
      OBVIOUS
    <3>2. CASE r = i
      BY <1>2, <2>6, <3>2
    <3>3. CASE r # i
      <4>1. r <= i <=> r <= w
        BY <1>2, <1>4, <3>3
      <4> QED BY <2>1, <2>7, <3>3, <4>1
    <3> QED BY <3>2, <3>3
  <2> QED BY <2>7, <2>8
<1>13. seenSource' = {given[r].key : r \in 1..i}
  <2>1. \A r \in 1..i : r \in 1..w \/ r = i
    BY <1>2 DEF w
  <2>2. i \in 1..i /\ 1..w \subseteq 1..i
    BY <1>2 DEF w
  <2> QED BY <1>1, <1>3, <1>5, <2>1, <2>2
<1>14. seenMatched' = {given[r].chosen : r \in {p \in 1..i : Eligible(given, existing, p)}}
  <2>1. \A r : r \in 1..i <=> r \in 1..w \/ r = i
    BY <1>2 DEF w
  <2>2. \A x : x \in seenMatched <=> \E r \in 1..w : Eligible(given, existing, r) /\ given[r].chosen = x
    BY <1>3
  <2>3. \A x : x \in seenMatched' <=> x \in seenMatched \/ (Eligible(given, existing, i) /\ given[i].chosen = x)
    <3>1. CASE Appends(entry, repeated)
      BY <1>1, <1>5, <1>9, <3>1
    <3>2. CASE ~Appends(entry, repeated)
      BY <1>1, <1>5, <1>7, <1>9, <3>2
    <3> QED BY <3>1, <3>2
  <2>4. \A x : x \in seenMatched' <=> \E r \in 1..i : Eligible(given, existing, r) /\ given[r].chosen = x
    BY <2>1, <2>2, <2>3
  <2> QED BY <2>4
<1>15. /\ tracks' \in Seq(Tracks)
       /\ Lists(tracks', {r \in PlannedRows(given, existing) : r <= i}, Chosen)
       /\ {tracks'[k] : k \in DOMAIN tracks'} = seenMatched'
       /\ IsFiniteSet(seenMatched') /\ Cardinality(seenMatched') = Len(tracks')
  <2>0. \A r \in PlannedRows(given, existing) : r \in Rows /\ r \in Nat /\ (r <= i <=> r <= w \/ r = i)
    BY <1>2, <1>4 DEF PlannedRows, w
  <2>1. CASE Appends(entry, repeated)
    <3>1. entry.chosen \in Tracks /\ entry.chosen \notin seenMatched
      BY <1>7, <1>8, <1>9, <2>1
    <3>2. {r \in PlannedRows(given, existing) : r <= i} = plannedSoFar \cup {i}
      BY <1>2, <1>10, <2>0, <2>1
    <3>3. plannedSoFar \in SUBSET (1..w)
      BY <1>4, <2>0
    <3>4. Chosen[i] = entry.chosen
      BY <1>1, <1>4, <1>5 DEF Chosen
    <3>5. tracks' = Append(tracks, Chosen[i]) /\ seenMatched' = seenMatched \cup {entry.chosen}
      BY <1>1, <2>1, <3>4
    <3>6. Lists(Append(tracks, Chosen[i]), plannedSoFar \cup {i}, Chosen)
      <4>1. /\ tracks \in Seq(Tracks) /\ i \in Nat \ {0} /\ plannedSoFar \in SUBSET (1..(i - 1))
            /\ Chosen[i] \in Tracks /\ Lists(tracks, plannedSoFar, Chosen)
        BY <1>2, <1>3, <3>1, <3>3, <3>4 DEF w
      <4> HIDE DEF plannedSoFar
      <4> QED BY <4>1, ListGrows, Zenon
    <3> DEFINE n == Len(tracks)
    <3>7. /\ tracks' \in Seq(Tracks) /\ n \in Nat /\ Len(tracks') = n + 1
          /\ DOMAIN tracks = 1..n /\ DOMAIN tracks' = 1..(n + 1)
          /\ (\A k \in 1..n : tracks'[k] = tracks[k]) /\ tracks'[n + 1] = entry.chosen
      <4>1. tracks' \in Seq(Tracks) /\ Len(tracks') = n + 1
            /\ (\A k \in 1..n : tracks'[k] = tracks[k]) /\ tracks'[n + 1] = entry.chosen
        BY <1>2, <3>1, <3>4, <3>5, AppendProperties
      <4>2. n \in Nat /\ DOMAIN tracks = 1..n /\ DOMAIN tracks' = 1..Len(tracks')
        BY <1>2, <4>1, LenProperties
      <4> QED BY <4>1, <4>2
    <3>8. IsFiniteSet(seenMatched') /\ Cardinality(seenMatched') = Len(tracks')
      <4>1. IsFiniteSet(seenMatched) /\ Cardinality(seenMatched) = n
        BY <1>3
      <4>2. IsFiniteSet(seenMatched \cup {entry.chosen}) /\ Cardinality(seenMatched \cup {entry.chosen}) = n + 1
        <5> HIDE DEF n
        <5> QED BY <3>1, <4>1, FS_AddElement
      <4> QED BY <3>5, <3>7, <4>2
    <3> HIDE DEF n
    <3>9. {tracks'[k] : k \in DOMAIN tracks'} = seenMatched'
      <4>1. \A k : k \in 1..(n + 1) <=> k \in 1..n \/ k = n + 1
        BY <3>7
      <4>2. \A x : x \in seenMatched <=> \E k \in 1..n : tracks[k] = x
        BY <1>3, <3>7
      <4>3. \A x : x \in seenMatched' <=> \E k \in 1..(n + 1) : tracks'[k] = x
        BY <3>5, <3>7, <4>1, <4>2
      <4> QED BY <3>7, <4>3
    <3> QED BY <3>2, <3>5, <3>6, <3>7, <3>8, <3>9
  <2>2. CASE ~Appends(entry, repeated)
    <3>1. {r \in PlannedRows(given, existing) : r <= i} = plannedSoFar
      BY <1>10, <2>0, <2>2
    <3>2. tracks' = tracks /\ seenMatched' = seenMatched
      BY <1>1, <2>2
    <3> HIDE DEF plannedSoFar
    <3> QED BY <1>2, <1>3, <3>1, <3>2
  <2> QED BY <2>1, <2>2
<1>16. Walked' = i /\ i' \in Nat \ {0}
  <2>1. phase' = "plan" /\ i' = i + 1
    BY <1>1
  <2> QED BY <1>2, <2>1 DEF Walked
<1>17. Kept' = Kept /\ Chosen' = Chosen /\ Rows' = Rows
  BY <1>1 DEF Kept, Ignored, Chosen, Rows
<1>18. LoopTypes'
  BY <1>1, <1>2, <1>15, <1>16 DEF LoopTypes
<1>19. SourceRead' /\ MarksRight'
  BY <1>1, <1>17 DEF LoopInv, SourceRead, MarksRight
<1>20. GivenRight'
  BY <1>1 DEF LoopInv, GivenRight
<1>21. PlanRight'
  <2>1. given' = given /\ existing' = existing /\ phase' = "plan" /\ Walked' <= Len(source')
    BY <1>1, <1>4, <1>16
  <2>2. outcomes' = [r \in Rows' |-> IF r <= Walked' THEN BuildPlan(given', existing')[r] ELSE given'[r]]
    BY <1>12, <1>16, <1>17, <2>1 DEF bp
  <2>3. /\ seenSource' = {given'[r].key : r \in 1..Walked'}
        /\ seenMatched' = {given'[r].chosen : r \in {p \in 1..Walked' : Eligible(given', existing', p)}}
    BY <1>13, <1>14, <1>16, <2>1
  <2>4. Lists(tracks', {r \in PlannedRows(given', existing') : r <= Walked'}, Chosen')
    BY <1>15, <1>16, <1>17, <2>1
  <2> QED BY <1>15, <2>1, <2>2, <2>3, <2>4 DEF PlanRight
<1> QED BY <1>18, <1>19, <1>20, <1>21 DEF LoopInv

LEMMA NextLoopKeeps == LoopInv /\ NextLoop => LoopInv'
<1> SUFFICES ASSUME LoopInv, NextLoop PROVE LoopInv'
  OBVIOUS
<1>1. /\ via' = via /\ lines' = lines /\ source' = source /\ marked' = marked /\ existing' = existing
      /\ given' = given /\ tracks' = tracks /\ seenSource' = seenSource /\ seenMatched' = seenMatched
      /\ i' = 1 /\ seen' = {}
      /\ outcomes' = IF phase = "fill" THEN given ELSE outcomes
  BY DEF NextLoop
<1>2. /\ i \in Nat \ {0} /\ lines \in Seq(Keys \cup {Blank}) /\ source \in Seq(Keys)
      /\ given \in Seq(Given)
  BY DEF LoopInv, LoopTypes
<1>3. /\ Len(lines) \in Nat /\ DOMAIN lines = 1..Len(lines)
      /\ Len(source) \in Nat /\ Rows = 1..Len(source) /\ DOMAIN given = 1..Len(given)
  BY <1>2, LenProperties DEF Rows
<1>4. Kept' = Kept /\ Chosen' = Chosen /\ Rows' = Rows
  BY <1>1 DEF Kept, Ignored, Chosen, Rows
<1>5. phase' \in {"parse", "mark", "fill", "plan", "done", "failed"} => LoopTypes'
  BY <1>1 DEF LoopInv, LoopTypes
<1>6. CASE phase = "parse" /\ i = Len(lines) + 1
  <2>1. phase' \in {"failed", "mark"}
    BY <1>6 DEF NextLoop
  <2>2. via # "matches" /\ Lists(source, Kept, lines)
    <3>1. via # "matches" /\ Lists(source, {l \in Kept : l < i}, lines)
      BY <1>6 DEF LoopInv, SourceRead
    <3>2. {l \in Kept : l < i} = Kept
      BY <1>3, <1>6 DEF Kept
    <3> QED BY <3>1, <3>2
  <2>3. SourceRead'
    BY <1>1, <1>4, <2>1, <2>2 DEF SourceRead
  <2>4. MarksRight'
    <3>1. seen' = {source'[r] : r \in 1..(i' - 1)} /\ i' <= Len(source') + 1
      BY <1>1, <1>3
    <3> QED BY <1>1, <1>4, <2>1, <3>1 DEF LoopInv, MarksRight
  <2>5. GivenRight' /\ PlanRight'
    BY <1>1, <1>6, <2>1 DEF LoopInv, GivenRight, PlanRight
  <2> QED BY <1>5, <2>1, <2>3, <2>4, <2>5 DEF LoopInv
<1>7. CASE phase = "mark" /\ i = Len(source) + 1
  <2>1. phase' = "fill"
    BY <1>7 DEF NextLoop
  <2>2. SourceRead' /\ MarksRight'
    BY <1>1, <1>4, <1>7, <2>1 DEF LoopInv, SourceRead, MarksRight
  <2>3. GivenRight'
    <3>1. given = <<>> /\ Len(given') = i' - 1 /\ i' <= Len(source') + 1
      BY <1>1, <1>3, <1>7 DEF LoopInv, GivenRight
    <3> QED BY <1>1, <2>1, <3>1 DEF GivenRight
  <2>4. PlanRight'
    BY <1>1, <1>7, <2>1 DEF LoopInv, PlanRight
  <2> QED BY <1>5, <2>1, <2>2, <2>3, <2>4 DEF LoopInv
<1>8. CASE phase = "fill" /\ i = Len(source) + 1
  <2>1. phase' = "plan" /\ outcomes' = given
    BY <1>1, <1>8 DEF NextLoop
  <2>2. SourceRead' /\ MarksRight'
    BY <1>1, <1>4, <1>8, <2>1 DEF LoopInv, SourceRead, MarksRight
  <2>3. Len(given) = Len(source)
    BY <1>2, <1>3, <1>8 DEF LoopInv, GivenRight
  <2>4. GivenRight'
    BY <1>1, <1>8, <2>1, <2>3 DEF LoopInv, GivenRight
  <2>5. seenSource = {} /\ seenMatched = {} /\ tracks = <<>>
    BY <1>8 DEF LoopInv, PlanRight
  <2>6. Walked' = 0
    BY <1>1, <2>1 DEF Walked
  <2>7. {r \in PlannedRows(given, existing) : r <= 0} = {}
    BY <1>3, <2>3 DEF PlannedRows
  <2>8. given = [r \in Rows |-> IF r <= 0 THEN BuildPlan(given, existing)[r] ELSE given[r]]
    BY <1>2, <1>3, <2>3, SeqDef
  <2>9. Lists(tracks, {r \in PlannedRows(given, existing) : r <= 0}, Chosen)
    BY <2>5, <2>7, NothingListed
  <2>10. /\ seenSource = {given[r].key : r \in 1..0}
         /\ seenMatched = {given[r].chosen : r \in {p \in 1..0 : Eligible(given, existing, p)}}
         /\ {tracks[k] : k \in DOMAIN tracks} = seenMatched
         /\ IsFiniteSet(seenMatched) /\ Cardinality(seenMatched) = Len(tracks)
    BY <2>5, FS_EmptySet
  <2>11. PlanRight'
    <3>1. /\ given' = given /\ existing' = existing /\ Walked' <= Len(source') /\ tracks' = tracks
          /\ seenSource' = seenSource /\ seenMatched' = seenMatched
      BY <1>1, <1>3, <2>6
    <3>2. outcomes' = [r \in Rows' |-> IF r <= Walked' THEN BuildPlan(given', existing')[r] ELSE given'[r]]
      BY <1>4, <2>1, <2>6, <2>8, <3>1
    <3>3. /\ seenSource' = {given'[r].key : r \in 1..Walked'}
          /\ seenMatched' = {given'[r].chosen : r \in {p \in 1..Walked' : Eligible(given', existing', p)}}
      BY <2>6, <2>10, <3>1
    <3>4. Lists(tracks', {r \in PlannedRows(given', existing') : r <= Walked'}, Chosen')
      BY <1>4, <2>6, <2>9, <3>1
    <3>5. /\ {tracks'[k] : k \in DOMAIN tracks'} = seenMatched'
          /\ IsFiniteSet(seenMatched') /\ Cardinality(seenMatched') = Len(tracks')
      BY <2>10, <3>1
    <3> QED BY <2>1, <3>1, <3>2, <3>3, <3>4, <3>5 DEF PlanRight
  <2> QED BY <1>5, <2>1, <2>2, <2>4, <2>11 DEF LoopInv
<1>9. CASE phase = "plan" /\ i = Len(source) + 1
  <2>1. phase' = "done" /\ outcomes' = outcomes
    BY <1>1, <1>9 DEF NextLoop
  <2>2. SourceRead' /\ MarksRight' /\ GivenRight'
    BY <1>1, <1>4, <1>9, <2>1 DEF LoopInv, SourceRead, MarksRight, GivenRight
  <2>3. Walked' = Walked
    BY <1>1, <1>3, <1>9, <2>1 DEF Walked
  <2>4. PlanRight'
    BY <1>1, <1>4, <1>9, <2>1, <2>3 DEF LoopInv, PlanRight
  <2> QED BY <1>5, <2>1, <2>2, <2>4 DEF LoopInv
<1> QED BY <1>6, <1>7, <1>8, <1>9 DEF NextLoop

LEMMA LoopStepKeeps == LoopInv /\ [Next]_vars => LoopInv'
<1> SUFFICES ASSUME LoopInv, [Next]_vars PROVE LoopInv'
  OBVIOUS
<1>1. CASE UNCHANGED vars
  <2>1. /\ via' = via /\ phase' = phase /\ i' = i /\ lines' = lines /\ source' = source
        /\ marked' = marked /\ existing' = existing /\ given' = given /\ tracks' = tracks /\ seen' = seen
        /\ seenSource' = seenSource /\ seenMatched' = seenMatched /\ outcomes' = outcomes
    BY <1>1 DEF vars, parsed, planned
  <2>2. Kept' = Kept /\ Chosen' = Chosen /\ Rows' = Rows /\ Walked' = Walked
    BY <2>1 DEF Kept, Ignored, Chosen, Rows, Walked
  <2>3. LoopTypes'
    BY <2>1 DEF LoopInv, LoopTypes
  <2>4. SourceRead' /\ MarksRight'
    BY <2>1, <2>2 DEF LoopInv, SourceRead, MarksRight
  <2>5. GivenRight'
    BY <2>1, <2>2 DEF LoopInv, GivenRight
  <2>6. PlanRight'
    BY <2>1, <2>2 DEF LoopInv, PlanRight
  <2> QED BY <2>3, <2>4, <2>5, <2>6 DEF LoopInv
<1> QED BY <1>1, ParseLineKeeps, MarkRowKeeps, FillRowKeeps, PlanRowKeeps, NextLoopKeeps DEF Next

(* LoopIsBuildPlan: for any list of lines or matches, the loops with their *)
(* maps compute what PlaylistPlan says of the rows without any.            *)
THEOREM LoopsComputePlan == Spec => []LoopIsBuildPlan
<1>1. LoopInv => LoopIsBuildPlan
  <2> SUFFICES ASSUME LoopInv PROVE LoopIsBuildPlan
    OBVIOUS
  <2>1. phase \in {"mark", "fill", "plan", "done"} /\ via # "matches" =>
           Lists(source, Kept, lines) /\ marked = MarkSourceDuplicates(source)
    BY DEF LoopInv, SourceRead, MarksRight
  <2>2. ASSUME phase = "done"
        PROVE  outcomes = BuildPlan(given, existing) /\ Lists(tracks, PlannedRows(given, existing), Chosen)
    <3>1. /\ source \in Seq(Keys) /\ given \in Seq(Given) /\ Len(given) = Len(source) /\ Walked = Len(source)
          /\ outcomes = [r \in Rows |-> IF r <= Walked THEN BuildPlan(given, existing)[r] ELSE given[r]]
          /\ Lists(tracks, {r \in PlannedRows(given, existing) : r <= Walked}, Chosen)
      BY <2>2 DEF LoopInv, LoopTypes, GivenRight, PlanRight, Walked
    <3>2. Rows = 1..Len(source) /\ DOMAIN given = Rows /\ Len(source) \in Nat
      BY <3>1, LenProperties DEF Rows
    <3>3. {r \in PlannedRows(given, existing) : r <= Walked} = PlannedRows(given, existing)
      BY <3>1, <3>2 DEF PlannedRows
    <3>4. outcomes = [r \in Rows |-> BuildPlan(given, existing)[r]]
      BY <3>1, <3>2
    <3>5. BuildPlan(given, existing) = [r \in Rows |-> BuildPlan(given, existing)[r]]
      BY <3>2 DEF BuildPlan
    <3> QED BY <3>1, <3>3, <3>4, <3>5
  <2> QED BY <2>1, <2>2 DEF LoopIsBuildPlan
<1> QED BY <1>1, LoopInitHolds, LoopStepKeeps, PTL DEF Spec

(* PlanIsSound: of any rows, the plan lists no track twice and none that   *)
(* the target holds, and it drops no song.                                 *)
THEOREM PlansAreSound == Spec => []PlanIsSound
<1>1. LoopInv => PlanIsSound
  <2> SUFFICES ASSUME LoopInv, phase = "done"
               PROVE  LET listed == {tracks[k] : k \in DOMAIN tracks}
                      IN  /\ Cardinality(listed) = Len(tracks)
                          /\ listed \subseteq Tracks \ existing
                          /\ \A r \in Rows :
                                /\ given[r].status = "MATCHED" /\ given[r].chosen \in Tracks
                                /\ \A p \in 1..(r - 1) : source[p] # source[r]
                                => given[r].chosen \in listed \cup existing
    BY DEF PlanIsSound
  <2>1. /\ source \in Seq(Keys) /\ given \in Seq(Given) /\ Len(given) = Len(source) /\ Walked = Len(source)
        /\ seenMatched = {given[r].chosen : r \in {p \in 1..Walked : Eligible(given, existing, p)}}
        /\ {tracks[k] : k \in DOMAIN tracks} = seenMatched
        /\ Cardinality(seenMatched) = Len(tracks)
        /\ \A r \in DOMAIN given : given[r].key = source[r] /\ given[r].dup = marked[r]
        /\ marked = IF via = "matches" THEN [r \in Rows |-> FALSE] ELSE MarkSourceDuplicates(source)
    BY DEF LoopInv, LoopTypes, MarksRight, GivenRight, PlanRight, Walked
  <2>2. Rows = 1..Len(source) /\ DOMAIN given = Rows /\ Walked = Len(source) /\ Len(source) \in Nat
        /\ DOMAIN source = Rows
    BY <2>1, LenProperties DEF Rows
  <2>3. seenMatched \subseteq Tracks \ existing
    BY <2>1 DEF Eligible
  <2>4. ASSUME NEW r \in Rows, given[r].status = "MATCHED", given[r].chosen \in Tracks,
               \A p \in 1..(r - 1) : source[p] # source[r]
        PROVE  given[r].chosen \in seenMatched \cup existing
    <3>1. \A p \in Rows : p < r => source[p] # source[r]
      BY <2>2, <2>4
    <3>2. ~given[r].dup
      <4>1. CASE via = "matches"
        BY <2>1, <2>2, <4>1
      <4>2. CASE via # "matches"
        <5>1. marked[r] = (\E p \in Rows : p < r /\ source[p] = source[r])
          BY <2>1, <2>2, <4>2 DEF MarkSourceDuplicates
        <5> QED BY <2>1, <2>2, <3>1, <5>1
      <4> QED BY <4>1, <4>2
    <3>3. ~Repeated(given, r)
      BY <2>1, <2>2, <3>1, <3>2 DEF Repeated
    <3>4. InPlay(given, r)
      BY <2>4, <3>3, TrackAssumption DEF InPlay, Unresolved
    <3>5. given[r].chosen \notin existing => Eligible(given, existing, r)
      BY <2>4, <3>4 DEF Eligible
    <3> QED BY <2>1, <2>2, <3>5
  <2> QED BY <2>1, <2>3, <2>4
<1> QED BY <1>1, LoopInitHolds, LoopStepKeeps, PTL DEF Spec

-----------------------------------------------------------------------------
(* Paging.  Entries of the Beatport list only move forward, so what is     *)
(* read before stands before all that the pages still to come can hold.    *)

Increasing(s) == \A k, m \in DOMAIN s : k < m => s[k] < s[m]

(* No element is slack or more below one before it.                        *)
Rising(s, slack) == \A k, m \in DOMAIN s : k < m => s[k] < s[m] + slack

(* How much of the list the pages before the next one covered.             *)
Covered == (pageNumber - 1) * PerPage

Reading == pc \in {"metadata", "read"}

(* The positions given so far, and the offset of the page to come.         *)
Placed(slack) ==
    /\ Rising(positions, slack)
    /\ Reading => \A k \in DOMAIN positions : positions[k] <= offset + slack

PagesInv ==
    /\ reader \in {"beatport", "spotify"}
    /\ pageNumber \in Nat \ {0} /\ offset \in Nat /\ added \in Nat
    /\ list \in Seq(Int) /\ positions \in Seq(Int)
    /\ reader = "beatport" =>
          /\ positions = <<>> /\ all \in Seq(Int)
          /\ Increasing(list) /\ Increasing(all)
          /\ \A k \in DOMAIN list : list[k] <= added
          /\ \A k \in DOMAIN all : all[k] <= added
          /\ Reading => \A k \in DOMAIN all, m \in DOMAIN list : m > Covered => all[k] < list[m]
    /\ reader = "spotify" => Placed(PerPage) /\ ((astray /\ disturbed) \/ Placed(0))

LEMMA CoveredGrows ==
    ASSUME NEW n \in Nat \ {0}
    PROVE  /\ (n - 1) * PerPage \in Nat /\ n * PerPage \in Nat
           /\ (n - 1) * PerPage + PerPage = n * PerPage
BY PageAssumption

LEMMA JoinedRises ==
    ASSUME NEW slack \in Nat, NEW s \in Seq(Int), NEW t \in Seq(Int), Rising(s, slack), Increasing(t),
           \A k \in DOMAIN s, m \in DOMAIN t : s[k] < t[m] + slack
    PROVE  /\ s \o t \in Seq(Int) /\ Rising(s \o t, slack)
           /\ \A n \in DOMAIN (s \o t) :
                 (\E k \in DOMAIN s : (s \o t)[n] = s[k]) \/ (\E m \in DOMAIN t : (s \o t)[n] = t[m])
<1> DEFINE u == s \o t
<1>1. /\ u \in Seq(Int) /\ Len(u) = Len(s) + Len(t)
      /\ \A n \in 1..(Len(s) + Len(t)) : u[n] = IF n <= Len(s) THEN s[n] ELSE t[n - Len(s)]
  BY ConcatProperties
<1>2. /\ Len(s) \in Nat /\ DOMAIN s = 1..Len(s) /\ Len(t) \in Nat /\ DOMAIN t = 1..Len(t)
      /\ DOMAIN u = 1..(Len(s) + Len(t))
  BY <1>1, LenProperties
<1> HIDE DEF u
<1> DEFINE a == Len(s)
           b == Len(t)
<1>a. a \in Nat /\ b \in Nat /\ DOMAIN s = 1..a /\ DOMAIN t = 1..b /\ DOMAIN u = 1..(a + b)
      /\ \A n \in 1..(a + b) : u[n] = IF n <= a THEN s[n] ELSE t[n - a]
  BY <1>1, <1>2
<1> HIDE DEF a, b
<1>b. ASSUME NEW n \in 1..(a + b), n > a PROVE n - a \in 1..b /\ u[n] = t[n - a]
  BY <1>a, <1>b
<1>c. ASSUME NEW n \in 1..(a + b), n <= a PROVE n \in 1..a /\ u[n] = s[n]
  BY <1>a, <1>c
<1>3. ASSUME NEW k \in DOMAIN u, NEW m \in DOMAIN u, k < m PROVE u[k] < u[m] + slack
  <2>0. k \in 1..(a + b) /\ m \in 1..(a + b) /\ k \in Nat /\ m \in Nat
    BY <1>a
  <2>1. CASE m <= a
    <3>1. k <= a
      BY <1>a, <2>0, <1>3, <2>1
    <3> QED BY <1>a, <1>c, <1>3, <2>0, <2>1, <3>1 DEF Rising
  <2>2. CASE k > a
    <3>1. m > a /\ k - a < m - a
      BY <1>a, <2>0, <1>3, <2>2
    <3>2. k - a \in 1..b /\ m - a \in 1..b /\ u[k] = t[k - a] /\ u[m] = t[m - a]
      BY <1>b, <2>0, <2>2, <3>1
    <3>3. t[k - a] < t[m - a] /\ t[k - a] \in Int /\ t[m - a] \in Int
      BY <1>a, <3>1, <3>2, ElementOfSeq DEF Increasing
    <3> QED BY <3>2, <3>3
  <2>3. CASE k <= a /\ m > a
    <3>1. k \in 1..a /\ m - a \in 1..b /\ u[k] = s[k] /\ u[m] = t[m - a]
      BY <1>b, <1>c, <2>0, <2>3
    <3> QED BY <1>a, <3>1
  <2> QED BY <1>a, <2>0, <2>1, <2>2, <2>3
<1>4. ASSUME NEW n \in DOMAIN u
      PROVE  (\E k \in DOMAIN s : u[n] = s[k]) \/ (\E m \in DOMAIN t : u[n] = t[m])
  <2>0. n \in 1..(a + b) /\ n \in Nat
    BY <1>a
  <2>1. CASE n > a
    BY <1>a, <1>b, <2>0, <2>1
  <2>2. CASE n <= a
    BY <1>a, <1>c, <2>0, <2>2
  <2> QED BY <1>a, <2>0, <2>1, <2>2
<1> QED BY <1>1, <1>3, <1>4 DEF Rising, u

LEMMA JoinedIncreases ==
    ASSUME NEW s \in Seq(Int), NEW t \in Seq(Int), Increasing(s), Increasing(t),
           \A k \in DOMAIN s, m \in DOMAIN t : s[k] < t[m]
    PROVE  /\ s \o t \in Seq(Int) /\ Increasing(s \o t)
           /\ \A n \in DOMAIN (s \o t) :
                 (\E k \in DOMAIN s : (s \o t)[n] = s[k]) \/ (\E m \in DOMAIN t : (s \o t)[n] = t[m])
<1>1. \A z \in Seq(Int) : \A k \in DOMAIN z : z[k] \in Int /\ z[k] + 0 = z[k]
  BY ElementOfSeq, LenProperties
<1>2. \A z \in Seq(Int) : Rising(z, 0) <=> Increasing(z)
  BY <1>1 DEF Rising, Increasing
<1>3. \A k \in DOMAIN s, m \in DOMAIN t : s[k] < t[m] + 0
  BY <1>1
<1>4. 0 \in Nat /\ Rising(s, 0)
  BY <1>2
<1>5. /\ s \o t \in Seq(Int) /\ Rising(s \o t, 0)
      /\ \A n \in DOMAIN (s \o t) :
            (\E k \in DOMAIN s : (s \o t)[n] = s[k]) \/ (\E m \in DOMAIN t : (s \o t)[n] = t[m])
  BY <1>3, <1>4, JoinedRises, Zenon
<1> QED BY <1>2, <1>5

(* A page of a list.                                                       *)
LEMMA PageOf ==
    ASSUME NEW s \in Seq(Int), NEW from \in Nat, NEW to \in Nat, to <= Len(s)
    PROVE  LET page == SubSeq(s, from + 1, to)
           IN  /\ page \in Seq(Int) /\ Len(page) = IF from < to THEN to - from ELSE 0
               /\ \A k \in DOMAIN page : from + k \in DOMAIN s /\ from + k <= to /\ page[k] = s[from + k]
               /\ Increasing(s) => Increasing(page)
<1> DEFINE page == SubSeq(s, from + 1, to)
<1>0. Len(s) \in Nat /\ DOMAIN s = 1..Len(s)
  BY LenProperties
<1>1. \A k \in (from + 1)..to : s[k] \in Int
  BY <1>0, ElementOfSeq
<1>2. /\ page \in Seq(Int)
      /\ Len(page) = IF from + 1 <= to THEN to - (from + 1) + 1 ELSE 0
      /\ \A k \in 1..(to - (from + 1) + 1) : page[k] = s[from + 1 + k - 1]
  <2>1. from + 1 \in Int /\ to \in Int
    OBVIOUS
  <2> QED BY <1>1, <2>1, SubSeqProperties
<1>3. DOMAIN page = 1..Len(page)
  BY <1>2, LenProperties
<1> HIDE DEF page
<1>4. ASSUME NEW k \in DOMAIN page
      PROVE  k \in Nat /\ from + k \in DOMAIN s /\ from + k <= to /\ page[k] = s[from + k]
  <2>1. Len(page) \in Nat /\ (from < to => Len(page) = to - from) /\ (~(from < to) => Len(page) = 0)
    <3>1. /\ from + 1 <= to <=> from < to
          /\ to - (from + 1) + 1 = to - from
          /\ from < to => to - from \in Nat
      OBVIOUS
    <3> QED BY <1>2, <3>1
  <2>2. k \in 1..(to - from) /\ k \in Nat
    BY <1>3, <2>1
  <2>3. to - (from + 1) + 1 = to - from /\ from + 1 + k - 1 = from + k
    BY <2>2
  <2>4. page[k] = s[from + k]
    BY <1>2, <2>2, <2>3
  <2>5. from + k <= to /\ from + k \in 1..Len(s)
    <3>1. k \in Nat /\ 1 <= k /\ k <= to - from
      BY <2>2
    <3>2. from + k <= to /\ 1 <= from + k /\ from + k \in Int
      BY <3>1
    <3> DEFINE l == Len(s)
    <3>3. l \in Nat
      BY <1>0
    <3>5. to <= l
      OBVIOUS
    <3> HIDE DEF l
    <3>4. from + k \in 1..l
      BY <3>2, <3>3, <3>5
    <3> QED BY <3>2, <3>4 DEF l
  <2> QED BY <1>0, <2>2, <2>4, <2>5
<1>5. ASSUME Increasing(s), NEW k \in DOMAIN page, NEW m \in DOMAIN page, k < m PROVE page[k] < page[m]
  BY <1>4, <1>5 DEF Increasing
<1>6. Len(page) = IF from < to THEN to - from ELSE 0
  BY <1>2
<1> QED BY <1>2, <1>4, <1>5, <1>6 DEF Increasing, page

(* A list without one of its entries: every entry stays or moves forward.  *)
LEMMA RemovedEntry ==
    ASSUME NEW s \in Seq(Int), NEW k \in DOMAIN s
    PROVE  /\ RemoveAt(s, k) \in Seq(Int) /\ Len(RemoveAt(s, k)) = Len(s) - 1
           /\ \A m \in DOMAIN RemoveAt(s, k) :
                 LET was == IF m < k THEN m ELSE m + 1
                 IN  m \in Nat /\ was \in DOMAIN s /\ RemoveAt(s, k)[m] = s[was]
<1> DEFINE front == SubSeq(s, 1, k - 1)
           back  == SubSeq(s, k + 1, Len(s))
<1>0. Len(s) \in Nat /\ DOMAIN s = 1..Len(s) /\ k \in 1..Len(s)
  BY LenProperties
<1>1. /\ front \in Seq(Int) /\ Len(front) = k - 1 /\ \A m \in 1..(k - 1) : front[m] = s[m]
  <2>1. \A m \in 1..(k - 1) : s[m] \in Int
    BY <1>0, ElementOfSeq
  <2>2. 1 \in Int /\ k - 1 \in Int
    BY <1>0
  <2>3. /\ front \in Seq(Int) /\ Len(front) = IF 1 <= k - 1 THEN k - 1 - 1 + 1 ELSE 0
        /\ \A m \in 1..(k - 1 - 1 + 1) : front[m] = s[1 + m - 1]
    BY <2>1, <2>2, SubSeqProperties
  <2> HIDE DEF front
  <2>4. k - 1 - 1 + 1 = k - 1 /\ k - 1 \in Nat /\ \A m \in 1..(k - 1) : 1 + m - 1 = m
    BY <1>0
  <2>5. Len(front) = k - 1
    BY <1>0, <2>3, <2>4
  <2>6. \A m \in 1..(k - 1) : front[m] = s[m]
    BY <2>3, <2>4
  <2> QED BY <2>3, <2>5, <2>6
<1>2. /\ back \in Seq(Int) /\ Len(back) = Len(s) - k /\ \A m \in 1..(Len(s) - k) : back[m] = s[k + m]
  <2>1. \A m \in (k + 1)..Len(s) : s[m] \in Int
    BY <1>0, ElementOfSeq
  <2>2. k + 1 \in Int /\ Len(s) \in Int
    BY <1>0
  <2>3. /\ back \in Seq(Int) /\ Len(back) = IF k + 1 <= Len(s) THEN Len(s) - (k + 1) + 1 ELSE 0
        /\ \A m \in 1..(Len(s) - (k + 1) + 1) : back[m] = s[k + 1 + m - 1]
    BY <2>1, <2>2, SubSeqProperties, SMTT(60)
  <2> HIDE DEF back
  <2>4. Len(s) - (k + 1) + 1 = Len(s) - k /\ \A m \in 1..(Len(s) - k) : k + 1 + m - 1 = k + m
    BY <1>0
  <2>5. Len(back) = Len(s) - k
    BY <1>0, <2>3, <2>4
  <2>6. \A m \in 1..(Len(s) - k) : back[m] = s[k + m]
    BY <2>3, <2>4
  <2> QED BY <2>3, <2>5, <2>6
<1> HIDE DEF front, back
<1>3. /\ front \o back \in Seq(Int) /\ Len(front \o back) = Len(front) + Len(back)
      /\ \A m \in 1..(Len(front) + Len(back)) :
            (front \o back)[m] = IF m <= Len(front) THEN front[m] ELSE back[m - Len(front)]
  <2>1. front \in Seq(Int) /\ back \in Seq(Int)
    BY <1>1, <1>2
  <2> QED BY <2>1, ConcatProperties
<1> DEFINE rest == front \o back
           n == Len(s)
<1>a. n \in Nat /\ k \in 1..n /\ DOMAIN s = 1..n
  BY <1>0
<1>b. /\ rest \in Seq(Int) /\ Len(rest) = n - 1
      /\ \A m \in 1..(n - 1) : rest[m] = IF m <= k - 1 THEN front[m] ELSE back[m - (k - 1)]
  <2>1. Len(front) + Len(back) = n - 1 /\ Len(front) = k - 1
    BY <1>a, <1>1, <1>2
  <2> QED BY <1>3, <2>1
<1>c. \A m \in 1..(n - k) : back[m] = s[k + m]
  BY <1>2
<1> HIDE DEF rest, n
<1>4. DOMAIN rest = 1..(n - 1)
  BY <1>b, LenProperties
<1>5. ASSUME NEW m \in 1..(n - 1)
      PROVE  m \in Nat /\ rest[m] = s[IF m < k THEN m ELSE m + 1]
                 /\ (IF m < k THEN m ELSE m + 1) \in DOMAIN s
  <2>1. CASE m < k
    <3>1. m \in 1..(k - 1) /\ m <= k - 1 /\ m \in 1..n /\ m \in Nat
      BY <1>a, <2>1
    <3> QED BY <1>1, <1>a, <1>b, <2>1, <3>1
  <2>2. CASE ~(m < k)
    <3>1. /\ m - (k - 1) \in 1..(n - k) /\ ~(m <= k - 1) /\ m + 1 \in 1..n /\ m \in Nat
          /\ k + (m - (k - 1)) = m + 1
      <4>1. k \in Int /\ 1 <= k /\ k <= n /\ m \in Int /\ 1 <= m /\ m <= n - 1 /\ n \in Int
        BY <1>a
      <4>2. k <= m
        BY <2>2, <4>1
      <4>3. m - (k - 1) \in Int /\ 1 <= m - (k - 1) /\ m - (k - 1) <= n - k
        BY <4>1, <4>2
      <4>4. ~(m <= k - 1) /\ m + 1 \in 1..n /\ m \in Nat
        BY <4>1, <4>2
      <4>5. k + (m - (k - 1)) = m + 1
        BY <4>1
      <4>6. m - (k - 1) \in 1..(n - k)
        BY <4>1, <4>3
      <4> QED BY <4>4, <4>5, <4>6
    <3>2. rest[m] = back[m - (k - 1)]
      BY <1>b, <3>1
    <3>3. back[m - (k - 1)] = s[m + 1]
      BY <1>c, <3>1
    <3> QED BY <1>a, <2>2, <3>1, <3>2, <3>3
  <2> QED BY <2>1, <2>2
<1>6. RemoveAt(s, k) = rest
  BY DEF RemoveAt, front, back, rest
<1> QED BY <1>b, <1>4, <1>5, <1>6 DEF n

LEMMA PagingInitHolds == PagingInit => PagesInv
<1> SUFFICES ASSUME PagingInit PROVE PagesInv
  OBVIOUS
<1>1. added \in Nat /\ pageNumber = 1 /\ offset = 0 /\ all = <<>> /\ positions = <<>>
      /\ reader \in {"beatport", "spotify"} /\ list = [k \in 1..added |-> k]
  BY PageAssumption DEF PagingInit
<1>2. <<>> \in Seq(Int) /\ DOMAIN <<>> = {}
  OBVIOUS
<1>3. list \in Seq(Int) /\ DOMAIN list = 1..added /\ \A k \in 1..added : list[k] = k
  <2>1. list \in [1..added -> Int]
    BY <1>1
  <2> QED BY <1>1, <2>1, SeqDef
<1>4. Increasing(list) /\ Increasing(all) /\ Placed(PerPage) /\ Placed(0)
  BY <1>1, <1>2, <1>3 DEF Increasing, Placed, Rising
<1>5. \A k \in DOMAIN list : list[k] <= added
  BY <1>1, <1>3
<1>6. pageNumber \in Nat \ {0} /\ offset \in Nat
  BY <1>1
<1> QED BY <1>1, <1>2, <1>3, <1>4, <1>5, <1>6 DEF PagesInv

LEMMA ReadPageKeeps == PagesInv /\ ReadPage => PagesInv'
<1> SUFFICES ASSUME PagesInv, ReadPage PROVE PagesInv'
  OBVIOUS
<1>1. /\ reader = "beatport" /\ reader' = reader /\ list' = list /\ added' = added
      /\ offset' = offset /\ positions' = positions /\ pc = "read"
      /\ all' = all \o Results
      /\ \/ pageNumber' = pageNumber + 1
         \/ pageNumber' = pageNumber /\ pc' = "done"
  BY DEF ReadPage, Read, server
<1>2. /\ pageNumber \in Nat \ {0} /\ offset \in Nat /\ added \in Nat
      /\ list \in Seq(Int) /\ positions \in Seq(Int) /\ positions = <<>> /\ all \in Seq(Int)
      /\ Increasing(list) /\ Increasing(all)
      /\ \A k \in DOMAIN list : list[k] <= added
      /\ \A k \in DOMAIN all : all[k] <= added
      /\ \A k \in DOMAIN all, m \in DOMAIN list : m > Covered => all[k] < list[m]
  BY <1>1 DEF PagesInv, Reading
<1> DEFINE c == Covered
           d == pageNumber * PerPage
<1>3. c \in Nat /\ d \in Nat /\ c <= d
  BY <1>2, CoveredGrows, PageAssumption DEF Covered
<1>4. pageNumber' = pageNumber + 1 => Covered' = d
  BY <1>2 DEF Covered
<1>5. PageEnd \in Nat /\ PageEnd <= Len(list) /\ PageEnd <= d
  <2>1. Len(list) \in Nat
    BY <1>2, LenProperties
  <2> QED BY <1>3, <2>1 DEF PageEnd
<1>6. Results = SubSeq(list, c + 1, PageEnd)
  BY DEF Results, Covered
<1> HIDE DEF c, d
<1>7. /\ Results \in Seq(Int) /\ Increasing(Results)
      /\ \A k \in DOMAIN Results : c + k \in DOMAIN list /\ c + k <= PageEnd /\ Results[k] = list[c + k]
  <2>1. list \in Seq(Int) /\ c \in Nat /\ PageEnd \in Nat /\ PageEnd <= Len(list) /\ Increasing(list)
    BY <1>2, <1>3, <1>5
  <2> QED BY <1>6, <2>1, PageOf, Zenon
<1>8. DOMAIN Results \subseteq Nat \ {0} /\ DOMAIN list \subseteq Int
  BY <1>2, <1>7, LenProperties
<1>9. \A k \in DOMAIN all, m \in DOMAIN Results : all[k] < Results[m]
  <2>1. TAKE k \in DOMAIN all, m \in DOMAIN Results
  <2>2. c + m \in DOMAIN list /\ Results[m] = list[c + m] /\ c + m > c
    BY <1>3, <1>7, <1>8
  <2> QED BY <1>2, <2>2 DEF c
<1>10. /\ all' \in Seq(Int) /\ Increasing(all')
       /\ \A n \in DOMAIN all' :
             (\E k \in DOMAIN all : all'[n] = all[k]) \/ (\E m \in DOMAIN Results : all'[n] = Results[m])
  <2>1. all \in Seq(Int) /\ Results \in Seq(Int) /\ Increasing(all) /\ Increasing(Results)
    BY <1>2, <1>7
  <2> QED BY <1>1, <1>9, <2>1, JoinedIncreases, ZenonT(60)
<1>11. \A n \in DOMAIN all' : all'[n] <= added
  BY <1>2, <1>7, <1>10
<1>12. ASSUME pageNumber' = pageNumber + 1, NEW n \in DOMAIN all', NEW m \in DOMAIN list, m > d
       PROVE  all'[n] < list[m]
  <2>1. CASE \E k \in DOMAIN all : all'[n] = all[k]
    <3>1. m > c
      BY <1>3, <1>8, <1>12
    <3> QED BY <1>2, <1>12, <2>1, <3>1 DEF c
  <2>2. CASE \E k \in DOMAIN Results : all'[n] = Results[k]
    <3>1. PICK k \in DOMAIN Results : all'[n] = Results[k]
      BY <2>2
    <3>2. c + k \in DOMAIN list /\ c + k < m /\ all'[n] = list[c + k]
      <4>1. c + k \in DOMAIN list /\ c + k <= PageEnd /\ all'[n] = list[c + k]
        BY <1>7, <3>1
      <4>2. c + k \in Int /\ m \in Int
        BY <1>8, <4>1
      <4> QED BY <1>3, <1>5, <1>12, <4>1, <4>2
    <3> QED BY <1>2, <1>12, <3>2 DEF Increasing
  <2> QED BY <1>10, <1>12, <2>1, <2>2
<1>13. pageNumber' \in Nat \ {0}
  BY <1>1, <1>2
<1>14. (Reading => \A k \in DOMAIN all, m \in DOMAIN list : m > Covered => all[k] < list[m])'
  <2>1. CASE pageNumber' = pageNumber + 1
    BY <1>1, <1>4, <1>12, <2>1
  <2>2. CASE pc' = "done"
    BY <2>2 DEF Reading
  <2> QED BY <1>1, <2>1, <2>2
<1> QED BY <1>1, <1>2, <1>10, <1>11, <1>13, <1>14 DEF PagesInv, Increasing

(* The tracks of a page that can be looked for, in the page's order.       *)
LEMMA UsableSorted ==
    ASSUME list \in Seq(Int), offset \in Nat
    PROVE  /\ Usable \in Seq(Int) /\ Increasing(Usable)
           /\ \A n \in DOMAIN Usable : Usable[n] \in 1..PerPage
           /\ \A n \in DOMAIN Usable : Usable[n] \in DOMAIN Items /\ Items[Usable[n]] \notin hidden
           /\ \A k \in DOMAIN Items : Items[k] \notin hidden => \E n \in DOMAIN Usable : Usable[n] = k
<1> DEFINE end == IF offset + PerPage < Len(list) THEN offset + PerPage ELSE Len(list)
           places == {index \in DOMAIN Items : Items[index] \notin hidden}
           count  == Cardinality(places)
           before == {p \in places \X places : p[1] < p[2]}
<1>1. end \in Nat /\ end <= Len(list) /\ end <= offset + PerPage
  BY PageAssumption, LenProperties
<1>2. Items = SubSeq(list, offset + 1, end)
  BY DEF Items
<1> HIDE DEF end
<1>3. /\ Items \in Seq(Int)
      /\ \A k \in DOMAIN Items : offset + k \in DOMAIN list /\ offset + k <= end
  BY <1>1, <1>2, PageOf
<1>4. places \subseteq 1..PerPage
  <2>1. DOMAIN Items \subseteq Nat \ {0}
    BY <1>3, LenProperties
  <2>2. \A k \in DOMAIN Items : k <= PerPage
    BY <1>1, <1>3, <2>1, PageAssumption
  <2> QED BY <2>1, <2>2, PageAssumption
<1>5. IsFiniteSet(places)
  <2>1. IsFiniteSet(1..PerPage)
    BY PageAssumption, FS_Interval
  <2> QED BY <1>4, <2>1, FS_Subset
<1>6. StrictTotal(before, places)
  <2>1. \A x, y \in places : x \in Int /\ y \in Int
    BY <1>4
  <2>2. \A x, y \in places : <<x, y>> \in before <=> x < y
    OBVIOUS
  <2> HIDE DEF before, places
  <2>3. \A x \in places : <<x, x>> \notin before
    BY <2>1, <2>2
  <2>4. \A x, y, z \in places : <<x, y>> \in before /\ <<y, z>> \in before => <<x, z>> \in before
    <3>1. TAKE x, y, z \in places
    <3>2. x < y /\ y < z => x < z
      BY <2>1
    <3> QED BY <2>2, <3>2, Zenon
  <2>5. \A x, y \in places : x = y \/ <<x, y>> \in before \/ <<y, x>> \in before
    <3>1. SUFFICES ASSUME NEW x \in places, NEW y \in places PROVE x = y \/ <<x, y>> \in before \/ <<y, x>> \in before
      OBVIOUS
    <3>2. x = y \/ x < y \/ y < x
      BY <2>1
    <3> QED BY <2>2, <3>2, Zenon
  <2> QED BY <2>3, <2>4, <2>5 DEF StrictTotal
<1>7. count \in Nat
  BY <1>5, FS_CardinalityType
<1>8. \E f \in [1..count -> places] : \A m, n \in 1..count : m < n => f[m] < f[n]
  <2>1. PICK f \in Sortings(before, places) : TRUE
    <3> HIDE DEF before, places
    <3> QED BY <1>5, <1>6, SortingExists
  <2>2. f \in [1..count -> places] /\ \A m, n \in 1..count : m < n => <<f[m], f[n]>> \in before
    BY <2>1 DEF Sortings
  <2>3. \A m, n \in 1..count : m < n => f[m] < f[n]
    BY <2>2
  <2> QED BY <2>2, <2>3
<1>9. Usable \in [1..count -> places] /\ \A m, n \in 1..count : m < n => Usable[m] < Usable[n]
  BY <1>8 DEF Usable
<1>11. \A k \in places : \E n \in 1..count : Usable[n] = k
  <2>1. \A m, n \in 1..count : m < n => <<Usable[m], Usable[n]>> \in before
    <3>1. \A m \in 1..count : Usable[m] \in places
      BY <1>9
    <3> HIDE DEF count, places
    <3> QED BY <1>9, <3>1
  <2> HIDE DEF before, places
  <2>2. Usable \in Sortings(before, places)
    BY <1>9, <2>1, Zenon DEF Sortings
  <2>3. ASSUME NEW k \in places PROVE \E n \in 1..count : Usable[n] = k
    BY <1>5, <1>6, <2>2, SortingCovers
  <2> QED BY <2>3
<1> HIDE DEF count
<1>10. Usable \in Seq(Int) /\ DOMAIN Usable = 1..count
  <2>1. Usable \in [1..count -> Int]
    BY <1>4, <1>9
  <2> QED BY <1>7, <2>1, SeqDef
<1> QED BY <1>4, <1>9, <1>10, <1>11 DEF Increasing

LEMMA FetchItemsKeeps == PagesInv /\ FetchItems => PagesInv'
<1> SUFFICES ASSUME PagesInv, FetchItems PROVE PagesInv'
  OBVIOUS
<1> DEFINE found == [n \in DOMAIN Usable |-> offset + Usable[n]]
<1>1. /\ reader = "spotify" /\ reader' = reader /\ list' = list /\ added' = added /\ pc = "read"
      /\ positions' = positions \o found
      /\ astray' = astray
      /\ \/ \E next \in Links :
               /\ next > offset /\ offset' = next /\ pageNumber' = pageNumber + 1
               /\ disturbed' = IF next = offset + PerPage THEN disturbed ELSE TRUE
         \/ disturbed' = disturbed /\ offset' = offset /\ pageNumber' = pageNumber /\ pc' \in {"done", "failed"}
  BY DEF FetchItems, server
<1>2. /\ pageNumber \in Nat \ {0} /\ offset \in Nat /\ added \in Nat
      /\ list \in Seq(Int) /\ positions \in Seq(Int)
      /\ Placed(PerPage) /\ ((astray /\ disturbed) \/ Placed(0))
  BY <1>1 DEF PagesInv
<1>3. /\ Usable \in Seq(Int) /\ Increasing(Usable)
      /\ \A n \in DOMAIN Usable : Usable[n] \in 1..PerPage
  BY <1>2, UsableSorted
<1>4. /\ found \in Seq(Int) /\ Increasing(found)
      /\ \A n \in DOMAIN found : offset < found[n] /\ found[n] <= offset + PerPage
  <2>1. Len(Usable) \in Nat /\ DOMAIN Usable = 1..Len(Usable)
    BY <1>3, LenProperties
  <2>2. DOMAIN found = DOMAIN Usable /\ \A n \in DOMAIN Usable : found[n] = offset + Usable[n]
    OBVIOUS
  <2>3. \A n \in DOMAIN Usable : Usable[n] \in Int /\ 1 <= Usable[n] /\ Usable[n] <= PerPage
    BY <1>3, PageAssumption
  <2>4. found \in [1..Len(Usable) -> Int]
    BY <1>2, <2>1, <2>3
  <2>5. found \in Seq(Int)
    BY <2>1, <2>4, SeqDef
  <2> HIDE DEF found
  <2>6. \A n \in DOMAIN found : offset < found[n] /\ found[n] <= offset + PerPage
    BY <1>2, <2>2, <2>3, PageAssumption
  <2>7. Increasing(found)
    BY <1>2, <1>3, <2>2, <2>3 DEF Increasing
  <2> QED BY <2>5, <2>6, <2>7
<1> HIDE DEF found
<1>5. ASSUME NEW slack \in Nat, Placed(slack)
      PROVE  /\ positions' \in Seq(Int) /\ Rising(positions', slack)
             /\ \A n \in DOMAIN positions' :
                   positions'[n] <= offset + slack \/ positions'[n] <= offset + PerPage
  <2>1. \A k \in DOMAIN positions : positions[k] \in Int /\ positions[k] <= offset + slack
    BY <1>1, <1>2, <1>5, ElementOfSeq, LenProperties DEF Placed, Reading
  <2>2. \A m \in DOMAIN found : found[m] \in Int /\ offset < found[m] /\ found[m] <= offset + PerPage
    BY <1>4, ElementOfSeq, LenProperties
  <2>3. \A k \in DOMAIN positions, m \in DOMAIN found : positions[k] < found[m] + slack
    BY <1>2, <2>1, <2>2
  <2>4. /\ positions' \in Seq(Int) /\ Rising(positions', slack)
        /\ \A n \in DOMAIN positions' :
              (\E k \in DOMAIN positions : positions'[n] = positions[k])
              \/ (\E m \in DOMAIN found : positions'[n] = found[m])
    <3>1. positions \in Seq(Int) /\ found \in Seq(Int) /\ Rising(positions, slack) /\ Increasing(found)
      BY <1>2, <1>4, <1>5 DEF Placed
    <3>2. positions' = positions \o found
      BY <1>1
    <3> QED BY <2>3, <3>1, <3>2, JoinedRises, ZenonT(60)
  <2>5. ASSUME NEW n \in DOMAIN positions' 
        PROVE  positions'[n] <= offset + slack \/ positions'[n] <= offset + PerPage
    <3>1. CASE \E k \in DOMAIN positions : positions'[n] = positions[k]
      BY <1>2, <2>1, <3>1, PageAssumption
    <3>2. CASE \E m \in DOMAIN found : positions'[n] = found[m]
      BY <1>2, <2>2, <3>2, PageAssumption
    <3> QED BY <2>4, <2>5, <3>1, <3>2
  <2> QED BY <2>4, <2>5
<1>6. PerPage \in Nat /\ 0 \in Nat
  BY PageAssumption
<1>7. CASE \E next \in Links :
             /\ next > offset /\ offset' = next /\ pageNumber' = pageNumber + 1
             /\ disturbed' = IF next = offset + PerPage THEN disturbed ELSE TRUE
  <2>1. PICK next \in Links :
           /\ next > offset /\ offset' = next /\ pageNumber' = pageNumber + 1
           /\ disturbed' = IF next = offset + PerPage THEN disturbed ELSE TRUE
    BY <1>7
  <2>2. Len(list) \in Nat
    BY <1>2, LenProperties
  <2>3. next \in Nat /\ (next = offset + PerPage \/ astray)
    BY <1>2, <1>6, <2>1, <2>2 DEF Links
  <2>4. offset' \in Nat /\ pageNumber' \in Nat \ {0} /\ positions' \in Seq(Int)
    BY <1>2, <1>5, <1>6, <2>1, <2>3
  <2>5. Placed(PerPage)'
    <3>1. /\ Rising(positions', PerPage)
          /\ \A n \in DOMAIN positions' : positions'[n] <= offset + PerPage
      BY <1>2, <1>5, <1>6
    <3>2. \A n \in DOMAIN positions' : positions'[n] \in Int
      BY <2>4, ElementOfSeq, LenProperties
    <3>3. \A n \in DOMAIN positions' : positions'[n] <= offset' + PerPage
      BY <1>2, <1>6, <2>1, <2>3, <3>1, <3>2
    <3> QED BY <3>1, <3>3 DEF Placed
  <2>6. (astray /\ disturbed)' \/ Placed(0)'
    <3>1. CASE disturbed' /\ astray
      BY <1>1, <3>1
    <3>2. CASE ~(disturbed' /\ astray)
      <4>1. ~(astray /\ disturbed) /\ next = offset + PerPage
        BY <2>1, <2>3, <3>2
      <4>2. /\ Rising(positions', 0)
            /\ \A n \in DOMAIN positions' : positions'[n] <= offset + 0 \/ positions'[n] <= offset + PerPage
        BY <1>2, <1>5, <1>6, <4>1
      <4>3. \A n \in DOMAIN positions' : positions'[n] \in Int
        BY <2>4, ElementOfSeq, LenProperties
      <4>4. offset' = offset + PerPage
        BY <2>1, <4>1
      <4>5. \A n \in DOMAIN positions' : positions'[n] <= offset' + 0
        BY <1>2, <1>6, <4>2, <4>3, <4>4
      <4> QED BY <4>2, <4>5 DEF Placed
    <3> QED BY <3>1, <3>2
  <2> QED BY <1>1, <1>2, <2>4, <2>5, <2>6 DEF PagesInv
<1>8. CASE disturbed' = disturbed /\ offset' = offset /\ pageNumber' = pageNumber /\ pc' \in {"done", "failed"}
  <2>1. positions' \in Seq(Int) /\ Rising(positions', PerPage) /\ ((astray /\ disturbed) \/ Rising(positions', 0))
    BY <1>2, <1>5, <1>6
  <2>2. Placed(PerPage)' /\ ((astray /\ disturbed)' \/ Placed(0)')
    BY <1>1, <1>8, <2>1 DEF Placed, Reading
  <2> QED BY <1>1, <1>2, <1>8, <2>1, <2>2 DEF PagesInv
<1> QED BY <1>1, <1>7, <1>8

LEMMA AppendEntryKeeps == PagesInv /\ AppendEntry => PagesInv'
<1> SUFFICES ASSUME PagesInv, AppendEntry PROVE PagesInv'
  OBVIOUS
<1>1. /\ reader' = reader /\ pageNumber' = pageNumber /\ all' = all /\ offset' = offset
      /\ positions' = positions /\ pc' = pc /\ added' = added + 1 /\ astray' = astray
      /\ disturbed' = disturbed /\ list' = Append(list, added + 1)
  BY DEF AppendEntry, server
<1>2. added \in Nat /\ list \in Seq(Int) /\ added + 1 \in Int
  BY DEF PagesInv
<1> DEFINE n == Len(list)
<1>3. /\ n \in Nat /\ DOMAIN list = 1..n
      /\ list' \in Seq(Int) /\ DOMAIN list' = 1..(n + 1)
      /\ \A k \in 1..n : list'[k] = list[k]
      /\ list'[n + 1] = added + 1
  <2>1. list' \in Seq(Int) /\ Len(list') = n + 1 /\ (\A k \in 1..n : list'[k] = list[k]) /\ list'[n + 1] = added + 1
    BY <1>1, <1>2, AppendProperties
  <2> QED BY <1>2, <2>1, LenProperties
<1> HIDE DEF n
<1>4. ASSUME reader = "beatport"
      PROVE  /\ Increasing(list')
             /\ \A k \in DOMAIN list' : list'[k] <= added'
             /\ \A k \in DOMAIN all : all[k] <= added'
             /\ Reading => \A k \in DOMAIN all, m \in DOMAIN list' : m > Covered => all[k] < list'[m]
  <2>1. /\ Increasing(list) /\ all \in Seq(Int)
        /\ \A k \in DOMAIN list : list[k] <= added
        /\ \A k \in DOMAIN all : all[k] <= added
        /\ Reading => \A k \in DOMAIN all, m \in DOMAIN list : m > Covered => all[k] < list[m]
    BY <1>4 DEF PagesInv
  <2>2. (\A k \in DOMAIN list : list[k] \in Int) /\ \A k \in DOMAIN all : all[k] \in Int
    BY <1>2, <2>1, ElementOfSeq, LenProperties
  <2>3. \A k \in DOMAIN list' : k \in 1..n \/ k = n + 1
    BY <1>3
  <2>4. \A k \in DOMAIN list' : list'[k] <= added'
    BY <1>1, <1>2, <1>3, <2>1, <2>2, <2>3
  <2>5. \A k \in DOMAIN all : all[k] <= added'
    BY <1>1, <1>2, <2>1, <2>2
  <2>6. Increasing(list')
    <3>1. SUFFICES ASSUME NEW k \in DOMAIN list', NEW m \in DOMAIN list', k < m PROVE list'[k] < list'[m]
      BY DEF Increasing
    <3>2. k \in 1..n
      BY <1>3, <3>1
    <3>3. CASE m = n + 1
      BY <1>2, <1>3, <2>1, <2>2, <3>2, <3>3
    <3>4. CASE m \in 1..n
      BY <1>3, <2>1, <3>1, <3>2, <3>4 DEF Increasing
    <3> QED BY <2>3, <3>3, <3>4
  <2>7. ASSUME Reading, NEW k \in DOMAIN all, NEW m \in DOMAIN list', m > Covered PROVE all[k] < list'[m]
    <3>1. CASE m = n + 1
      BY <1>2, <1>3, <2>1, <2>2, <3>1
    <3>2. CASE m \in 1..n
      BY <1>3, <2>1, <2>7, <3>2
    <3> QED BY <2>3, <3>1, <3>2
  <2> QED BY <2>4, <2>5, <2>6, <2>7
<1>5. added' \in Nat
  BY <1>1, <1>2
<1> QED BY <1>1, <1>3, <1>4, <1>5 DEF PagesInv, Placed, Rising, Reading, Covered, Increasing

LEMMA RemoveEntryKeeps == PagesInv /\ RemoveEntry => PagesInv'
<1> SUFFICES ASSUME PagesInv, RemoveEntry PROVE PagesInv'
  OBVIOUS
<1>1. /\ reader' = reader /\ pageNumber' = pageNumber /\ all' = all /\ offset' = offset
      /\ positions' = positions /\ pc' = pc /\ added' = added /\ astray' = astray
      /\ (disturbed => disturbed')
  BY DEF RemoveEntry, Disturb, server
<1>2. PICK e \in DOMAIN list : list' = RemoveAt(list, e)
  BY DEF RemoveEntry
<1>3. list \in Seq(Int) /\ pageNumber \in Nat \ {0}
  BY DEF PagesInv
<1> DEFINE was(m) == IF m < e THEN m ELSE m + 1
<1>4. list' \in Seq(Int) /\ \A m \in DOMAIN list' : m \in Nat /\ was(m) \in DOMAIN list /\ list'[m] = list[was(m)]
  <2>1. /\ RemoveAt(list, e) \in Seq(Int)
        /\ \A m \in DOMAIN RemoveAt(list, e) :
              /\ m \in Nat /\ (IF m < e THEN m ELSE m + 1) \in DOMAIN list
              /\ RemoveAt(list, e)[m] = list[IF m < e THEN m ELSE m + 1]
    BY <1>3, RemovedEntry, Zenon
  <2> QED BY <1>2, <2>1, Zenon
<1>5. e \in Nat /\ Covered \in Nat
  <2>1. e \in Nat
    BY <1>3, LenProperties
  <2>2. (pageNumber - 1) * PerPage \in Nat
    BY <1>3, CoveredGrows, Zenon
  <2> QED BY <2>1, <2>2 DEF Covered
<1>6. \A m \in DOMAIN list' : was(m) \in Nat /\ was(m) >= m
  BY <1>4, <1>5
<1>7. \A k, m \in DOMAIN list' : k < m => was(k) < was(m)
  BY <1>4, <1>5
<1> HIDE DEF was
<1>8. ASSUME reader = "beatport"
      PROVE  /\ Increasing(list')
             /\ \A k \in DOMAIN list' : list'[k] <= added
             /\ Reading => \A k \in DOMAIN all, m \in DOMAIN list' : m > Covered => all[k] < list'[m]
  <2>1. /\ Increasing(list)
        /\ \A k \in DOMAIN list : list[k] <= added
        /\ Reading => \A k \in DOMAIN all, m \in DOMAIN list : m > Covered => all[k] < list[m]
    BY <1>8 DEF PagesInv
  <2>2. Increasing(list')
    BY <1>4, <1>7, <2>1 DEF Increasing
  <2>3. \A k \in DOMAIN list' : list'[k] <= added
    BY <1>4, <2>1
  <2>4. ASSUME Reading, NEW k \in DOMAIN all, NEW m \in DOMAIN list', m > Covered PROVE all[k] < list'[m]
    <3>1. was(m) > Covered
      BY <1>4, <1>5, <1>6, <2>4
    <3> QED BY <1>4, <2>1, <2>4, <3>1
  <2> QED BY <2>2, <2>3, <2>4
<1> QED BY <1>1, <1>4, <1>8 DEF PagesInv, Placed, Rising, Reading, Covered, Increasing

LEMMA PagingStepKeeps == PagesInv /\ [PagingNext]_pagingVars => PagesInv'
<1> SUFFICES ASSUME PagesInv, [PagingNext]_pagingVars PROVE PagesInv'
  OBVIOUS
<1>1. CASE ReadPage
  BY <1>1, ReadPageKeeps
<1>2. CASE FetchMetadata
  <2>1. /\ reader' = reader /\ pageNumber' = pageNumber /\ all' = all /\ offset' = offset
        /\ positions' = positions /\ added' = added /\ list' = list
        /\ astray' = astray /\ disturbed' = disturbed /\ pc = "metadata" /\ pc' = "read"
    BY <1>2 DEF FetchMetadata, server
  <2> QED BY <2>1 DEF PagesInv, Placed, Rising, Reading, Covered, Increasing
<1>3. CASE FetchItems
  BY <1>3, FetchItemsKeeps
<1>4. CASE ReadFails
  <2>1. /\ reader' = reader /\ pageNumber' = pageNumber /\ all' = all /\ offset' = offset
        /\ positions' = positions /\ added' = added /\ list' = list
        /\ astray' = astray /\ disturbed' = disturbed /\ pc' = "failed"
    BY <1>4 DEF ReadFails, server
  <2> QED BY <2>1 DEF PagesInv, Placed, Rising, Reading, Covered, Increasing
<1>5. CASE AppendEntry
  BY <1>5, AppendEntryKeeps
<1>6. CASE RemoveEntry
  BY <1>6, RemoveEntryKeeps
<1>7. CASE InsertEntry
  <2>1. /\ reader = "spotify" /\ reader' = reader /\ pageNumber' = pageNumber /\ all' = all
        /\ offset' = offset /\ positions' = positions /\ pc' = pc /\ added' = added + 1
        /\ astray' = astray /\ (disturbed => disturbed')
        /\ list' = <<added + 1>> \o list
    BY <1>7 DEF InsertEntry, Disturb, server
  <2>2. list' \in Seq(Int) /\ added' \in Nat
    <3>1. added + 1 \in Nat /\ <<added + 1>> \in Seq(Int) /\ list \in Seq(Int)
      BY DEF PagesInv
    <3> QED BY <2>1, <3>1, ConcatProperties
  <2> QED BY <2>1, <2>2 DEF PagesInv, Placed, Rising, Reading, Covered, Increasing
<1>8. CASE UNCHANGED pagingVars
  BY <1>8 DEF pagingVars, server, PagesInv, Placed, Rising, Reading, Covered, Increasing
<1> QED BY <1>1, <1>2, <1>3, <1>4, <1>5, <1>6, <1>7, <1>8 DEF PagingNext

(* InOrderOnce: whatever other clients append or remove between two pages, *)
(* the Beatport playlist is read in its order and no entry twice; and each *)
(* track of the source gets a position of its own, later than the last, or *)
(* less than a page before it where a link leads astray.                   *)
THEOREM PagesAreInOrder == PagingSpec => []InOrderOnce
<1>1. ASSUME PagesInv PROVE InOrderOnce
  <2>1. \A k, m \in DOMAIN positions : k < m => positions[k] < positions[m] + IF astray THEN PerPage ELSE 0
    <3>1. CASE reader = "beatport"
      <4>1. positions = <<>>
        BY <1>1, <3>1 DEF PagesInv
      <4> QED BY <4>1
    <3>2. CASE reader = "spotify"
      BY <1>1, <3>2 DEF PagesInv, Placed, Rising
    <3> QED BY <1>1, <3>1, <3>2 DEF PagesInv
  <2> QED BY <1>1, <2>1 DEF PagesInv, InOrderOnce, Increasing
<1> QED BY <1>1, PagingInitHolds, PagingStepKeeps, PTL DEF PagingSpec

-----------------------------------------------------------------------------
(* The promise of one look at the list.  What is read so far is what the   *)
(* list holds up to the next page, as long as entries are only appended to *)
(* the list; of the source, positions enumerates the places read from.     *)
(* Every page of the target but the last is full, whatever is removed.     *)

Asked == {k \in DOMAIN list : list[k] \notin hidden /\ (reader = "beatport" /\ hints = {} => k <= PerPage)}

ReadInv ==
    /\ PagesInv
    /\ list \in Seq(1..added) /\ all \in Seq(1..added) /\ Len(list) <= added
    /\ added <= MaxEntries
    /\ reader = "beatport" => hidden = {} /\ hints \in HintSets
    /\ pc \in {"metadata", "read", "done", "failed"}
    /\ reader = "beatport" /\ Reading => Len(all) = Covered /\ (hints = {} => pageNumber = 1)
    /\ reader = "beatport" /\ Reading /\ ~disturbed =>
          /\ Covered <= Len(list)
          /\ \A k \in 1..Covered : all[k] = list[k]
    /\ reader = "spotify" /\ Reading /\ ~disturbed =>
          /\ Len(all) = Len(positions) /\ offset <= Len(list)
          /\ \A n \in DOMAIN positions : positions[n] \in Asked /\ all[n] = list[positions[n]]
          /\ \A k \in Asked : k <= offset => \E n \in DOMAIN positions : positions[n] = k

(* A whole division: the page of the last of l entries.                    *)
LEMMA LastPageCovers ==
    ASSUME NEW l \in Nat, list # <<>> => l = Len(list) /\ l > 0, list = <<>> => l = 0,
           NEW p \in Nat \ {0}
    PROVE  LastPage \in Nat /\ (p < LastPage => p * PerPage < l) /\ (~(p < LastPage) => l <= p * PerPage)
<1>1. CASE list = <<>>
  <2>1. LastPage = 1 /\ p * PerPage \in Nat
    BY <1>1, PageAssumption DEF LastPage
  <2> QED BY <1>1, <2>1
<1>2. CASE list # <<>>
  <2> DEFINE q == (l - 1) \div PerPage
  <2>1. q \in Nat /\ q * PerPage <= l - 1 /\ l - 1 < (q + 1) * PerPage
    BY <1>2, PageAssumption
  <2>2. LastPage = q + 1
    BY <1>2 DEF LastPage
  <2> HIDE DEF q
  <2>3. p < q + 1 => p * PerPage <= q * PerPage
    BY <2>1, PageAssumption
  <2>4. ~(p < q + 1) => (q + 1) * PerPage <= p * PerPage
    BY <2>1, PageAssumption
  <2>5. p * PerPage \in Nat /\ q * PerPage \in Nat /\ (q + 1) * PerPage \in Nat
    BY <2>1, PageAssumption
  <2> QED BY <2>1, <2>2, <2>3, <2>4, <2>5
<1> QED BY <1>1, <1>2

-----------------------------------------------------------------------------

LEMMA ReadInitHolds == PagingInit => ReadInv
<1> SUFFICES ASSUME PagingInit PROVE ReadInv
  OBVIOUS
<1>1. PagesInv
  BY PagingInitHolds
<1>2. /\ added \in Nat /\ added <= MaxEntries /\ pageNumber = 1 /\ offset = 0
      /\ all = <<>> /\ positions = <<>>
      /\ list = [k \in 1..added |-> k] /\ pc \in {"metadata", "read"}
      /\ reader = "beatport" => hidden = {} /\ hints \in HintSets
  BY PageAssumption DEF PagingInit
<1>3. list \in Seq(1..added) /\ DOMAIN list = 1..added /\ Len(list) = added
  <2>1. list \in [1..added -> 1..added]
    BY <1>2
  <2>2. list \in Seq(1..added)
    BY <1>2, <2>1, SeqDef
  <2>3. DOMAIN list = 1..Len(list) /\ Len(list) \in Nat
    BY <2>2, LenProperties
  <2> QED BY <1>2, <2>1, <2>2, <2>3
<1>4. all \in Seq(1..added) /\ Len(all) = 0 /\ Len(positions) = 0 /\ DOMAIN positions = {}
  BY <1>2
<1>5. Covered = 0
  BY <1>2, PageAssumption DEF Covered
<1>6. \A k \in Asked : ~(k <= offset)
  BY <1>2, <1>3 DEF Asked
<1>7. Covered <= Len(list) /\ Len(all) = Covered /\ pageNumber = 1 /\ \A k \in 1..Covered : all[k] = list[k]
  BY <1>2, <1>3, <1>4, <1>5
<1> QED BY <1>1, <1>2, <1>3, <1>4, <1>6, <1>7 DEF ReadInv

(* A page of the Beatport list joins what is read.                         *)
LEMMA BeatportPage ==
    ASSUME ReadInv, ReadPage
    PROVE  /\ reader' = "beatport" /\ hidden' = hidden /\ hidden = {} /\ list' = list /\ added' = added
           /\ disturbed' = disturbed /\ pc = "read"
           /\ all' \in Seq(1..added) /\ Len(all') = Covered + Len(Results)
           /\ Len(Results) = IF Covered < PageEnd THEN PageEnd - Covered ELSE 0
           /\ ~disturbed =>
                 /\ Len(all') = PageEnd /\ PageEnd <= Len(list) /\ PageEnd \in Nat
                 /\ \A k \in 1..PageEnd : all'[k] = list[k]
                 /\ Len(Results) = PageEnd - Covered
<1>1. /\ reader = "beatport" /\ reader' = "beatport" /\ hidden' = hidden /\ list' = list /\ added' = added
      /\ disturbed' = disturbed /\ pc = "read" /\ all' = all \o Results
  BY DEF ReadPage, Read, server
<1>2. /\ pageNumber \in Nat \ {0} /\ list \in Seq(Int) /\ list \in Seq(1..added) /\ all \in Seq(1..added)
      /\ hidden = {} /\ Len(all) = Covered
      /\ ~disturbed => /\ Covered <= Len(list)
                       /\ \A k \in 1..Covered : all[k] = list[k]
  BY <1>1 DEF ReadInv, PagesInv, Reading
<1> DEFINE c == Covered
           d == pageNumber * PerPage
           n == Len(list)
<1>3. c \in Nat /\ d \in Nat /\ c <= d /\ n \in Nat /\ DOMAIN list = 1..n
  BY <1>2, CoveredGrows, PageAssumption, LenProperties DEF Covered
<1>4. PageEnd = IF d < n THEN d ELSE n
  BY DEF PageEnd
<1>5. Results = SubSeq(list, c + 1, PageEnd)
  BY DEF Results, Covered
<1>6. Len(all) = c /\ (~disturbed => c <= n /\ \A k \in 1..c : all[k] = list[k])
  BY <1>2
<1> HIDE DEF c, d, n
<1>7. PageEnd \in Nat /\ PageEnd <= n /\ (c <= n => c <= PageEnd)
  BY <1>3, <1>4
<1>8. /\ Results \in Seq(Int) /\ Len(Results) = IF c < PageEnd THEN PageEnd - c ELSE 0
      /\ \A k \in DOMAIN Results : c + k \in DOMAIN list /\ Results[k] = list[c + k]
  <2>1. list \in Seq(Int) /\ c \in Nat /\ PageEnd \in Nat /\ PageEnd <= Len(list)
    BY <1>2, <1>3, <1>7 DEF n
  <2> QED BY <1>5, <2>1, PageOf, Zenon
<1>9. Len(Results) \in Nat /\ DOMAIN Results = 1..Len(Results)
  BY <1>8, LenProperties
<1>10. Results \in Seq(1..added)
  <2>1. \A k \in DOMAIN Results : Results[k] \in 1..added
    BY <1>2, <1>3, <1>8, ElementOfSeq DEF n
  <2>2. Results \in [1..Len(Results) -> 1..added]
    <3>1. Results \in [1..Len(Results) -> Int]
      BY <1>8, LenProperties
    <3> QED BY <1>9, <2>1, <3>1
  <2> QED BY <1>9, <2>2, SeqDef
<1>11. /\ all' \in Seq(1..added) /\ Len(all') = Len(all) + Len(Results)
       /\ \A k \in 1..(Len(all) + Len(Results)) :
             all'[k] = IF k <= Len(all) THEN all[k] ELSE Results[k - Len(all)]
  <2>1. all \o Results \in Seq(1..added) /\ Len(all \o Results) = Len(all) + Len(Results)
        /\ \A k \in 1..(Len(all) + Len(Results)) :
              (all \o Results)[k] = IF k <= Len(all) THEN all[k] ELSE Results[k - Len(all)]
    BY <1>2, <1>10, ConcatProperties
  <2> QED BY <1>1, <2>1
<1>12. ASSUME ~disturbed
       PROVE  /\ Len(all') = PageEnd /\ Len(Results) = PageEnd - c
              /\ \A k \in 1..PageEnd : all'[k] = list[k]
  <2>1. Len(all) = c /\ c <= PageEnd /\ \A k \in 1..c : all[k] = list[k]
    BY <1>6, <1>7, <1>12
  <2>2. Len(Results) = PageEnd - c
    BY <1>3, <1>7, <1>8, <2>1
  <2>3. Len(all) + Len(Results) = PageEnd
    BY <1>3, <1>7, <2>1, <2>2
  <2>4. ASSUME NEW k \in 1..PageEnd PROVE all'[k] = list[k]
    <3>1. all'[k] = IF k <= c THEN all[k] ELSE Results[k - c]
      BY <1>11, <2>1, <2>3
    <3>2. CASE k <= c
      BY <1>3, <2>1, <3>1, <3>2
    <3>3. CASE ~(k <= c)
      <4>1. k - c \in 1..(PageEnd - c) /\ c + (k - c) = k
        BY <1>3, <1>7, <2>1, <3>3
      <4> QED BY <1>8, <1>9, <2>2, <3>1, <3>3, <4>1
    <3> QED BY <3>2, <3>3
  <2> QED BY <1>11, <2>2, <2>3, <2>4
<1> QED BY <1>1, <1>2, <1>6, <1>7, <1>8, <1>11, <1>12 DEF c, n

(* What a false hint of a next page means: there is none; a true one means *)
(* that this page was full.  Without hints the first page is the last.     *)
LEMMA HintsAreTrue ==
    ASSUME ReadInv, ReadPage, MaxEntries <= MaxPages * PerPage
    PROVE  /\ HasNext(all') => PageEnd = pageNumber * PerPage
           /\ ~HasNext(all') /\ hints # {} => PageEnd = Len(list)
           /\ hints = {} => ~HasNext(all') /\ pageNumber = 1
<1> DEFINE n == Len(list)
           d == pageNumber * PerPage
<1>1. /\ pageNumber \in Nat \ {0} /\ list \in Seq(Int) /\ added \in Nat /\ n <= added /\ added <= MaxEntries
      /\ hints \in HintSets /\ (hints = {} => pageNumber = 1)
  BY DEF ReadInv, PagesInv, ReadPage, Reading
<1>2. n \in Nat /\ d \in Nat /\ PageEnd = IF d < n THEN d ELSE n
  BY <1>1, LenProperties, CoveredGrows, PageAssumption DEF PageEnd
<1>3. /\ Len(all') = Covered + Len(Results) /\ Covered \in Nat /\ d = Covered + PerPage
      /\ Len(Results) = IF Covered < PageEnd THEN PageEnd - Covered ELSE 0
  <2>1. Len(all') = Covered + Len(Results) /\ Len(Results) = IF Covered < PageEnd THEN PageEnd - Covered ELSE 0
    BY BeatportPage
  <2> QED BY <1>1, <2>1, CoveredGrows DEF Covered
<1>4. (pageNumber < LastPage => d < n) /\ (~(pageNumber < LastPage) => n <= d)
  <2>1. list # <<>> => n > 0
    BY <1>1, EmptySeq, LenProperties
  <2>2. list = <<>> => n = 0
    OBVIOUS
  <2> HIDE DEF n
  <2>3. list # <<>> => n = Len(list)
    BY DEF n
  <2> QED BY <1>1, <1>2, <2>1, <2>2, <2>3, LastPageCovers
<1> HIDE DEF n, d
<1>a. hints = {} => ~HasNext(all')
  BY DEF HasNext
<1>5. CASE "next" \in hints /\ pageNumber < LastPage
  BY <1>2, <1>4, <1>5, <1>a DEF HasNext, d, n
<1>6. CASE ~("next" \in hints /\ pageNumber < LastPage) /\ "page" \in hints
  <2>1. HasNext(all') <=> pageNumber < LastPage
    BY <1>6 DEF HasNext
  <2> QED BY <1>1, <1>2, <1>4, <1>a, <2>1 DEF d, n
<1>7. CASE ~("next" \in hints /\ pageNumber < LastPage) /\ "page" \notin hints
  <2>1. HasNext(all') <=> /\ pageNumber < MaxPages
                          /\ \/ "count" \in hints /\ n > Covered + Len(Results)
                             \/ "per_page" \in hints /\ Len(Results) >= PerPage
    BY <1>3, <1>7 DEF HasNext, n
  <2> DEFINE l == Len(Results)
  <2>a. l = IF Covered < PageEnd THEN PageEnd - Covered ELSE 0
    BY <1>3
  <2>b. (n > Covered + l => PageEnd = d) /\ (~(n > Covered + l) => PageEnd = n) /\ (l >= PerPage <=> PageEnd = d)
    <3> HIDE DEF l
    <3>1. d > Covered
      BY <1>3, PageAssumption
    <3> QED BY <1>2, <1>3, <2>a, <3>1, PageAssumption
  <2>2. HasNext(all') => PageEnd = d
    BY <2>1, <2>b
  <2>3. ASSUME ~HasNext(all'), hints # {} PROVE PageEnd = n
    <3>1. CASE ~(pageNumber < MaxPages)
      <4>1. MaxPages * PerPage <= d /\ MaxPages * PerPage \in Nat
        BY <1>1, <3>1, PageAssumption DEF d
      <4> QED BY <1>1, <1>2, <4>1, PageAssumption
    <3>2. CASE pageNumber < MaxPages
      <4>1. "next" \in hints \/ "count" \in hints \/ "per_page" \in hints
        BY <1>1, <1>7, <2>3 DEF HintSets
      <4>2. CASE "next" \in hints
        BY <1>2, <1>4, <1>7, <4>2
      <4>3. CASE "count" \in hints
        BY <2>1, <2>3, <2>b, <3>2, <4>3
      <4>4. CASE "per_page" \in hints
        BY <1>2, <2>1, <2>3, <2>b, <3>2, <4>4
      <4> QED BY <4>1, <4>2, <4>3, <4>4
    <3> QED BY <3>1, <3>2
  <2> QED BY <1>1, <1>a, <2>2, <2>3 DEF d, n
<1> QED BY <1>5, <1>6, <1>7 DEF d, n

LEMMA ReadPageReads ==
    ASSUME ReadInv, ReadPage, MaxEntries <= MaxPages * PerPage
    PROVE  ReadInv'
<1>1. PagesInv'
  BY ReadPageKeeps DEF ReadInv
<1>2. /\ reader' = "beatport" /\ hidden' = hidden /\ hidden = {} /\ list' = list /\ added' = added
      /\ disturbed' = disturbed /\ all' \in Seq(1..added) /\ hints' = hints
      /\ reader = "beatport" /\ pc' \in {"read", "done"}
      /\ pc' = "read" => HasNext(all') /\ pageNumber' = pageNumber + 1
  <2>1. all' = all \o Results
    BY DEF ReadPage, Read
  <2> QED BY <2>1, BeatportPage DEF ReadPage, Read, server
<1>3. ASSUME pc' = "read"
      PROVE  /\ Len(all') = Covered' /\ hints # {}
             /\ ~disturbed => Covered' <= Len(list) /\ \A k \in 1..Covered' : all'[k] = list[k]
  <2>1. Covered' = pageNumber * PerPage /\ pageNumber \in Nat \ {0}
    BY <1>2, <1>3 DEF ReadInv, PagesInv, Covered
  <2>2. PageEnd = pageNumber * PerPage /\ hints # {}
    BY <1>2, <1>3, HintsAreTrue
  <2>3. Covered \in Nat /\ PageEnd = Covered + PerPage
    BY <2>1, <2>2, CoveredGrows DEF Covered
  <2>4. Len(all') = Covered + Len(Results) /\ Len(Results) = IF Covered < PageEnd THEN PageEnd - Covered ELSE 0
    BY BeatportPage
  <2>5. Len(all') = PageEnd
    BY <2>3, <2>4, PageAssumption
  <2>6. ~disturbed => PageEnd <= Len(list) /\ \A k \in 1..PageEnd : all'[k] = list[k]
    BY BeatportPage
  <2> QED BY <2>1, <2>2, <2>5, <2>6
<1>4. list \in Seq(1..added) /\ Len(list) <= added /\ added <= MaxEntries /\ hints \in HintSets
  BY <1>2 DEF ReadInv
<1> QED BY <1>1, <1>2, <1>3, <1>4 DEF ReadInv, Reading

(* A page of the source joins what is read.                                *)
LEMMA SpotifyPage ==
    ASSUME ReadInv, FetchItems
    PROVE  /\ all' \in Seq(1..added)
           /\ ~disturbed =>
                 /\ Len(all') = Len(positions')
                 /\ \A n \in DOMAIN positions' : positions'[n] \in Asked /\ all'[n] = list[positions'[n]]
                 /\ \A k \in Asked : k <= offset + PerPage => \E n \in DOMAIN positions' : positions'[n] = k
<1> DEFINE found == [n \in DOMAIN Usable |-> offset + Usable[n]]
           fetched == [n \in DOMAIN Usable |-> Items[Usable[n]]]
           end == IF offset + PerPage < Len(list) THEN offset + PerPage ELSE Len(list)
<1>1. /\ reader = "spotify" /\ pc = "read"
      /\ all' = all \o fetched /\ positions' = positions \o found
  BY DEF FetchItems
<1>2. /\ list \in Seq(Int) /\ list \in Seq(1..added) /\ all \in Seq(1..added) /\ positions \in Seq(Int)
      /\ offset \in Nat /\ added \in Nat
      /\ ~disturbed =>
            /\ Len(all) = Len(positions)
            /\ \A n \in DOMAIN positions : positions[n] \in Asked /\ all[n] = list[positions[n]]
            /\ \A k \in Asked : k <= offset => \E n \in DOMAIN positions : positions[n] = k
  BY <1>1 DEF ReadInv, PagesInv, Reading
<1>3. /\ Len(list) \in Nat /\ DOMAIN list = 1..Len(list)
      /\ end \in Nat /\ end <= Len(list) /\ end <= offset + PerPage /\ (end < offset + PerPage => end = Len(list))
  BY <1>2, PageAssumption, LenProperties
<1>4. Items = SubSeq(list, offset + 1, end)
  BY DEF Items
<1> HIDE DEF end
<1>5. /\ Items \in Seq(Int) /\ Len(Items) = IF offset < end THEN end - offset ELSE 0
      /\ \A k \in DOMAIN Items : offset + k \in DOMAIN list /\ Items[k] = list[offset + k]
  <2>1. list \in Seq(Int) /\ offset \in Nat /\ end \in Nat /\ end <= Len(list)
    BY <1>2, <1>3
  <2> QED BY <1>4, <2>1, PageOf, Zenon
<1>6. Len(Items) \in Nat /\ DOMAIN Items = 1..Len(Items)
  BY <1>5, LenProperties
<1>7. /\ Usable \in Seq(Int) /\ DOMAIN Usable = 1..Len(Usable) /\ Len(Usable) \in Nat
      /\ \A n \in DOMAIN Usable : Usable[n] \in DOMAIN Items /\ Items[Usable[n]] \notin hidden
      /\ \A k \in DOMAIN Items : Items[k] \notin hidden => \E n \in DOMAIN Usable : Usable[n] = k
  <2>1. /\ Usable \in Seq(Int)
        /\ \A n \in DOMAIN Usable : Usable[n] \in DOMAIN Items /\ Items[Usable[n]] \notin hidden
        /\ \A k \in DOMAIN Items : Items[k] \notin hidden => \E n \in DOMAIN Usable : Usable[n] = k
    BY <1>2, UsableSorted
  <2> QED BY <2>1, LenProperties
<1> DEFINE u == Len(Usable)
<1>8. \A n \in 1..u : /\ Usable[n] \in Nat \ {0} /\ offset + Usable[n] \in Asked
                      /\ Items[Usable[n]] = list[offset + Usable[n]]
  <2>1. TAKE n \in 1..u
  <2>2. Usable[n] \in DOMAIN Items /\ Items[Usable[n]] \notin hidden
    BY <1>7
  <2>3. offset + Usable[n] \in DOMAIN list /\ Items[Usable[n]] = list[offset + Usable[n]]
    BY <1>5, <2>2
  <2>4. Usable[n] \in Nat \ {0}
    BY <1>6, <2>2
  <2> QED BY <1>1, <2>2, <2>3, <2>4 DEF Asked
<1>9. /\ found \in Seq(Int) /\ Len(found) = u /\ \A n \in 1..u : found[n] = offset + Usable[n]
      /\ fetched \in Seq(1..added) /\ Len(fetched) = u /\ \A n \in 1..u : fetched[n] = list[offset + Usable[n]]
  <2>1. DOMAIN Usable = 1..u /\ u \in Nat
    BY <1>7
  <2> HIDE DEF u
  <2>2. found \in [1..u -> Int] /\ \A n \in 1..u : found[n] = offset + Usable[n]
    BY <1>2, <1>8, <2>1
  <2>3. \A n \in 1..u : fetched[n] = list[offset + Usable[n]] /\ fetched[n] \in 1..added
    <3>1. TAKE n \in 1..u
    <3>2. fetched[n] = Items[Usable[n]]
      BY <2>1
    <3>3. offset + Usable[n] \in DOMAIN list
      BY <1>8 DEF Asked
    <3>4. list[offset + Usable[n]] \in 1..added
      BY <1>2, <1>3, <3>3, ElementOfSeq
    <3> QED BY <1>8, <3>2, <3>4
  <2>4. fetched \in [1..u -> 1..added]
    BY <2>1, <2>3
  <2> HIDE DEF found, fetched
  <2>5. found \in Seq(Int) /\ fetched \in Seq(1..added)
    BY <2>1, <2>2, <2>4, SeqDef, ZenonT(60)
  <2>6. DOMAIN found = 1..u /\ DOMAIN fetched = 1..u
    BY <2>2, <2>4
  <2>7. Len(found) = u /\ Len(fetched) = u
    BY <2>1, <2>5, <2>6, LenProperties
  <2> QED BY <2>2, <2>3, <2>5, <2>7
<1> HIDE DEF found, fetched, u
<1> DEFINE a == Len(all)
           p == Len(positions)
<1>10. /\ all' \in Seq(1..added) /\ Len(all') = a + u
       /\ \A n \in 1..(a + u) : all'[n] = IF n <= a THEN all[n] ELSE fetched[n - a]
  <2>1. /\ all \o fetched \in Seq(1..added) /\ Len(all \o fetched) = Len(all) + Len(fetched)
        /\ \A n \in 1..(Len(all) + Len(fetched)) :
              (all \o fetched)[n] = IF n <= Len(all) THEN all[n] ELSE fetched[n - Len(all)]
    BY <1>2, <1>9, ConcatProperties
  <2> QED BY <1>1, <1>9, <2>1
<1>11. /\ positions' \in Seq(Int) /\ Len(positions') = p + u
       /\ \A n \in 1..(p + u) : positions'[n] = IF n <= p THEN positions[n] ELSE found[n - p]
  <2>1. /\ positions \o found \in Seq(Int) /\ Len(positions \o found) = Len(positions) + Len(found)
        /\ \A n \in 1..(Len(positions) + Len(found)) :
              (positions \o found)[n] = IF n <= Len(positions) THEN positions[n] ELSE found[n - Len(positions)]
    BY <1>2, <1>9, ConcatProperties
  <2> QED BY <1>1, <1>9, <2>1
<1>12. u \in Nat /\ a \in Nat /\ p \in Nat /\ DOMAIN positions = 1..p /\ DOMAIN positions' = 1..(p + u)
  BY <1>2, <1>7, <1>11, LenProperties DEF u
<1>13. ~disturbed =>
          /\ a = p
          /\ \A n \in 1..p : positions[n] \in Asked /\ all[n] = list[positions[n]]
          /\ \A k \in Asked : k <= offset => \E n \in 1..p : positions[n] = k
  BY <1>2, <1>12
<1> HIDE DEF a, p
<1>14. ASSUME ~disturbed, NEW n \in 1..(p + u)
       PROVE  positions'[n] \in Asked /\ all'[n] = list[positions'[n]]
  <2>1. CASE n <= p
    <3>1. n \in 1..p
      BY <1>12, <2>1
    <3> QED BY <1>10, <1>11, <1>13, <1>14, <2>1, <3>1
  <2>2. CASE ~(n <= p)
    <3>1. n - p \in 1..u
      BY <1>12, <2>2
    <3>2. positions'[n] = offset + Usable[n - p] /\ all'[n] = list[offset + Usable[n - p]]
      BY <1>9, <1>10, <1>11, <1>13, <1>14, <2>2, <3>1
    <3> QED BY <1>8, <3>1, <3>2
  <2> QED BY <2>1, <2>2
<1>15. ASSUME ~disturbed, NEW k \in Asked, k <= offset + PerPage
       PROVE  \E n \in 1..(p + u) : positions'[n] = k
  <2>1. k \in 1..Len(list)
    BY <1>3 DEF Asked
  <2>2. CASE k <= offset
    <3>1. PICK n \in 1..p : positions[n] = k
      BY <1>13, <1>15, <2>2
    <3>2. n \in 1..(p + u) /\ n <= p
      BY <1>12
    <3> QED BY <1>11, <3>1, <3>2
  <2>3. CASE ~(k <= offset)
    <3>1. offset < end /\ k <= end /\ k - offset \in 1..(end - offset) /\ offset + (k - offset) = k
      <4>1. /\ offset \in Nat /\ Len(list) \in Nat /\ end \in Nat
            /\ end <= offset + PerPage /\ (end < offset + PerPage => end = Len(list))
        BY <1>2, <1>3
      <4>2. k \in Nat /\ k <= Len(list) /\ offset < k /\ k <= offset + PerPage
        BY <1>15, <2>1, <2>3, <4>1
      <4>3. k <= end
        BY <4>1, <4>2, PageAssumption
      <4> QED BY <4>1, <4>2, <4>3
    <3>2. k - offset \in DOMAIN Items
      BY <1>5, <1>6, <3>1
    <3>3. Items[k - offset] = list[k] /\ list[k] \notin hidden
      BY <1>5, <3>1, <3>2 DEF Asked
    <3>4. PICK m \in 1..u : Usable[m] = k - offset
      BY <1>7, <3>2, <3>3 DEF u
    <3>5. p + m \in 1..(p + u) /\ ~(p + m <= p) /\ (p + m) - p = m
      BY <1>12
    <3>6. positions'[p + m] = found[m]
      BY <1>11, <3>5
    <3>7. found[m] = k
      BY <1>2, <1>9, <3>1, <3>4
    <3> QED BY <3>5, <3>6, <3>7
  <2> QED BY <2>2, <2>3
<1>16. ~disturbed => Len(all') = Len(positions')
  BY <1>10, <1>11, <1>13
<1> QED BY <1>10, <1>12, <1>14, <1>15, <1>16

LEMMA FetchItemsReads ==
    ASSUME ReadInv, FetchItems
    PROVE  ReadInv'
<1>1. PagesInv'
  BY FetchItemsKeeps DEF ReadInv
<1>2. /\ reader = "spotify" /\ reader' = reader /\ hidden' = hidden /\ list' = list /\ added' = added
      /\ pc = "read" /\ pc' \in {"read", "done", "failed"}
      /\ pc' = "read" => /\ offset + PerPage < Len(list)
                         /\ disturbed' = IF offset' = offset + PerPage THEN disturbed ELSE TRUE
  BY DEF FetchItems, server
<1>3. /\ offset \in Nat /\ list \in Seq(1..added) /\ Len(list) \in Nat /\ Len(list) <= added /\ added <= MaxEntries
  <2>1. offset \in Nat /\ list \in Seq(1..added) /\ Len(list) <= added /\ added <= MaxEntries
    BY DEF ReadInv, PagesInv
  <2> QED BY <2>1, LenProperties
<1>4. pc' = "read" /\ ~disturbed' => ~disturbed /\ offset' = offset + PerPage /\ offset' <= Len(list)
  <2>1. SUFFICES ASSUME pc' = "read", ~disturbed'
                 PROVE  ~disturbed /\ offset' = offset + PerPage /\ offset' <= Len(list)
    OBVIOUS
  <2>2. ~disturbed /\ offset' = offset + PerPage
    BY <1>2, <2>1
  <2> QED BY <1>2, <1>3, <2>1, <2>2, PageAssumption
<1>5. all' \in Seq(1..added)
  BY SpotifyPage
<1>6. ASSUME ~disturbed', pc' = "read"
      PROVE  /\ Len(all') = Len(positions')
             /\ \A n \in DOMAIN positions' : positions'[n] \in Asked' /\ all'[n] = list'[positions'[n]]
             /\ \A k \in Asked' : k <= offset' => \E n \in DOMAIN positions' : positions'[n] = k
  <2>1. Asked' = Asked
    BY <1>2 DEF Asked, FetchItems, server
  <2>2. /\ Len(all') = Len(positions')
        /\ \A n \in DOMAIN positions' : positions'[n] \in Asked /\ all'[n] = list[positions'[n]]
        /\ \A k \in Asked : k <= offset + PerPage => \E n \in DOMAIN positions' : positions'[n] = k
    BY <1>4, <1>6, SpotifyPage
  <2> QED BY <1>2, <1>4, <1>6, <2>1, <2>2
<1> QED BY <1>1, <1>2, <1>3, <1>4, <1>5, <1>6 DEF ReadInv, Reading

LEMMA SeqWidens ==
    ASSUME NEW A, NEW B, A \subseteq B, NEW s \in Seq(A)
    PROVE  s \in Seq(B)
<1> DEFINE n == Len(s)
<1>1. n \in Nat /\ s \in [1..n -> A]
  BY LenProperties
<1> HIDE DEF n
<1>2. s \in [1..n -> B]
  BY <1>1
<1> QED BY <1>1, <1>2, SeqDef

(* An entry added to the end is beyond everything that was read.           *)
LEMMA AppendEntryReads ==
    ASSUME ReadInv, AppendEntry
    PROVE  ReadInv'
<1>1. PagesInv'
  BY AppendEntryKeeps DEF ReadInv
<1>2. /\ list' = Append(list, added + 1) /\ added' = added + 1 /\ added < MaxEntries
      /\ reader' = reader /\ hints' = hints /\ hidden' = hidden /\ pageNumber' = pageNumber /\ all' = all
      /\ offset' = offset /\ positions' = positions /\ pc' = pc /\ disturbed' = disturbed
  BY DEF AppendEntry, server
<1>3. /\ added \in Nat /\ pageNumber \in Nat \ {0} /\ offset \in Nat /\ positions \in Seq(Int)
      /\ list \in Seq(1..added) /\ all \in Seq(1..added)
      /\ Len(list) <= added /\ added <= MaxEntries
  BY DEF ReadInv, PagesInv
<1> DEFINE n == Len(list)
<1>4. n \in Nat /\ DOMAIN list = 1..n
  BY <1>3, LenProperties
<1>5. /\ list' \in Seq(1..added') /\ Len(list') = n + 1 /\ DOMAIN list' = 1..(n + 1)
      /\ \A k \in 1..n : list'[k] = list[k]
  <2>1. list \in Seq(1..(added + 1)) /\ added + 1 \in 1..(added + 1)
    <3>1. 1..added \subseteq 1..(added + 1) /\ added + 1 \in 1..(added + 1)
      BY <1>3
    <3> QED BY <1>3, <3>1, SeqWidens
  <2>2. /\ list' \in Seq(1..(added + 1)) /\ Len(list') = Len(list) + 1
        /\ \A k \in 1..Len(list) : list'[k] = list[k]
    BY <1>2, <2>1, AppendProperties
  <2> QED BY <1>2, <2>2, LenProperties
<1>6. all' \in Seq(1..added')
  <2>1. 1..added \subseteq 1..(added + 1)
    BY <1>3
  <2> QED BY <1>2, <1>3, <2>1, SeqWidens
<1>7. Len(list') <= added' /\ added' <= MaxEntries
  BY <1>2, <1>3, <1>4, <1>5, PageAssumption
<1>8. reader = "beatport" /\ Reading /\ ~disturbed =>
         /\ Covered <= Len(list')
         /\ \A k \in 1..Covered : all[k] = list'[k]
  <2>1. SUFFICES ASSUME reader = "beatport", Reading, ~disturbed
                 PROVE  /\ Covered <= Len(list')
                        /\ \A k \in 1..Covered : all[k] = list'[k]
    OBVIOUS
  <2>2. Covered <= n /\ \A k \in 1..Covered : all[k] = list[k]
    BY <2>1 DEF ReadInv
  <2>3. Covered \in Nat
    BY <1>3, PageAssumption DEF Covered
  <2> HIDE DEF n
  <2>4. \A k \in 1..Covered : k \in 1..n
    BY <1>4, <2>2, <2>3
  <2> QED BY <1>4, <1>5, <2>2, <2>3, <2>4
<1>9. reader = "spotify" /\ Reading /\ ~disturbed =>
         /\ Len(all) = Len(positions) /\ offset <= Len(list')
         /\ \A m \in DOMAIN positions : positions[m] \in Asked' /\ all[m] = list'[positions[m]]
         /\ \A k \in Asked' : k <= offset => \E m \in DOMAIN positions : positions[m] = k
  <2>1. SUFFICES ASSUME reader = "spotify", Reading, ~disturbed
                 PROVE  /\ Len(all) = Len(positions) /\ offset <= Len(list')
                        /\ \A m \in DOMAIN positions : positions[m] \in Asked' /\ all[m] = list'[positions[m]]
                        /\ \A k \in Asked' : k <= offset => \E m \in DOMAIN positions : positions[m] = k
    OBVIOUS
  <2>2. /\ Len(all) = Len(positions) /\ offset <= n
        /\ \A m \in DOMAIN positions : positions[m] \in Asked /\ all[m] = list[positions[m]]
        /\ \A k \in Asked : k <= offset => \E m \in DOMAIN positions : positions[m] = k
    BY <2>1 DEF ReadInv
  <2> HIDE DEF n
  <2>a. Asked = {k \in 1..n : list[k] \notin hidden}
    BY <1>4, <2>1 DEF Asked
  <2>b. Asked' = {k \in 1..(n + 1) : list'[k] \notin hidden}
    BY <1>2, <1>5, <2>1 DEF Asked
  <2>c. \A k \in 1..n : k \in 1..(n + 1)
    BY <1>4
  <2>d. \A k \in 1..(n + 1) : k <= offset => k \in 1..n
    BY <1>3, <1>4, <2>2
  <2>3. \A k \in Asked : k \in Asked' /\ list'[k] = list[k]
    BY <1>5, <2>a, <2>b, <2>c
  <2>4. \A k \in Asked' : k <= offset => k \in Asked
    BY <1>5, <2>a, <2>b, <2>d
  <2>5. offset <= Len(list')
    BY <1>3, <1>4, <1>5, <2>2
  <2> QED BY <2>2, <2>3, <2>4, <2>5
<1>10. (Reading <=> Reading') /\ Covered' = Covered
  BY <1>2 DEF Reading, Covered
<1>11. /\ reader' = "beatport" => hidden' = {} /\ hints' \in HintSets
       /\ reader = "beatport" /\ Reading => Len(all) = Covered /\ (hints = {} => pageNumber = 1)
       /\ pc' \in {"metadata", "read", "done", "failed"}
  BY <1>2 DEF ReadInv, HintSets
<1> HIDE DEF n
<1> QED BY <1>1, <1>2, <1>5, <1>6, <1>7, <1>8, <1>9, <1>10, <1>11 DEF ReadInv

LEMMA RemovedIsShorter ==
    ASSUME ReadInv, NEW k \in DOMAIN list
    PROVE  /\ RemoveAt(list, k) \in Seq(1..added) /\ Len(RemoveAt(list, k)) <= added
           /\ RemoveAt(list, k) = [m \in 1..(Len(list) - 1) |-> IF m < k THEN list[m] ELSE list[m + 1]]
<1> DEFINE rest == RemoveAt(list, k)
<1>1. /\ list \in Seq(1..added) /\ list \in Seq(Int) /\ Len(list) <= added /\ added \in Nat
      /\ Len(list) \in Nat /\ DOMAIN list = 1..Len(list)
  <2>1. list \in Seq(1..added) /\ list \in Seq(Int) /\ Len(list) <= added /\ added \in Nat
    BY DEF ReadInv, PagesInv
  <2> QED BY <2>1, LenProperties
<1>2. /\ rest \in Seq(Int) /\ Len(rest) = Len(list) - 1
      /\ \A m \in DOMAIN rest : LET was == IF m < k THEN m ELSE m + 1
                                IN  m \in Nat /\ was \in DOMAIN list /\ rest[m] = list[was]
  BY <1>1, RemovedEntry
<1> HIDE DEF rest
<1>3. /\ rest \in [1..(Len(list) - 1) -> Int]
      /\ \A m \in 1..(Len(list) - 1) :
            rest[m] = (IF m < k THEN list[m] ELSE list[m + 1]) /\ rest[m] \in 1..added
  <2>1. rest \in [1..(Len(list) - 1) -> Int] /\ DOMAIN rest = 1..(Len(list) - 1)
    BY <1>2, LenProperties
  <2>2. ASSUME NEW m \in 1..(Len(list) - 1)
        PROVE  rest[m] = (IF m < k THEN list[m] ELSE list[m + 1]) /\ rest[m] \in 1..added
    <3>1. PICK was \in DOMAIN list : rest[m] = list[was] /\ was = IF m < k THEN m ELSE m + 1
      BY <1>2, <2>1
    <3>2. list[was] \in 1..added
      BY <1>1, ElementOfSeq
    <3> QED BY <3>1, <3>2
  <2> QED BY <2>1, <2>2
<1>4. rest \in [1..(Len(list) - 1) -> 1..added]
  BY <1>3
<1>5. Len(list) - 1 \in Nat /\ Len(list) - 1 <= added
  BY <1>1
<1>6. rest \in Seq(1..added)
  BY <1>4, <1>5, SeqDef
<1>7. rest = [m \in 1..(Len(list) - 1) |-> IF m < k THEN list[m] ELSE list[m + 1]]
  BY <1>3
<1> QED BY <1>2, <1>5, <1>6, <1>7 DEF rest

LEMMA ReadStepReads ==
    ASSUME ReadInv, [PagingNext]_pagingVars, MaxEntries <= MaxPages * PerPage
    PROVE  ReadInv'
<1>0. PagesInv' /\ added \in Nat /\ list \in Seq(1..added) /\ all \in Seq(1..added)
  BY PagingStepKeeps DEF ReadInv, PagesInv
<1>1. CASE ReadPage
  BY <1>1, ReadPageReads
<1>2. CASE FetchMetadata
  <2>1. /\ reader' = reader /\ hints' = hints /\ hidden' = hidden /\ pageNumber' = pageNumber /\ all' = all
        /\ offset' = offset /\ positions' = positions /\ added' = added /\ list' = list
        /\ disturbed' = disturbed /\ pc = "metadata" /\ pc' = "read"
    BY <1>2 DEF FetchMetadata, server
  <2> QED BY <1>0, <2>1 DEF ReadInv, Reading, Covered, Asked, HintSets
<1>3. CASE FetchItems
  BY <1>3, FetchItemsReads
<1>4. CASE ReadFails
  <2>1. /\ reader' = reader /\ hints' = hints /\ hidden' = hidden /\ pageNumber' = pageNumber /\ all' = all
        /\ offset' = offset /\ positions' = positions /\ added' = added /\ list' = list
        /\ disturbed' = disturbed /\ pc' = "failed"
    BY <1>4 DEF ReadFails, server
  <2> QED BY <1>0, <2>1 DEF ReadInv, Reading, HintSets
<1>5. CASE AppendEntry
  BY <1>5, AppendEntryReads
<1>6. CASE RemoveEntry
  <2>1. /\ \E k \in DOMAIN list : list' = RemoveAt(list, k)
        /\ reader' = reader /\ hints' = hints /\ hidden' = hidden /\ all' = all /\ pageNumber' = pageNumber
        /\ added' = added /\ pc' = pc /\ (pc \in {"metadata", "read"} => disturbed')
    BY <1>6 DEF RemoveEntry, Disturb, server
  <2>2. list' \in Seq(1..added) /\ Len(list') <= added
    BY <2>1, RemovedIsShorter
  <2> QED BY <1>0, <2>1, <2>2 DEF ReadInv, Reading, Covered, HintSets
<1>7. CASE InsertEntry
  <2>1. /\ reader = "spotify" /\ reader' = reader /\ hidden' = hidden /\ all' = all /\ added < MaxEntries
        /\ list' = <<added + 1>> \o list
        /\ added' = added + 1 /\ pc' = pc /\ (pc \in {"metadata", "read"} => disturbed')
    BY <1>7 DEF InsertEntry, Disturb, server
  <2>2. 1..added \subseteq 1..(added + 1) /\ added + 1 \in 1..(added + 1)
    BY <1>0
  <2>a. list \in Seq(1..(added + 1)) /\ all \in Seq(1..(added + 1))
    BY <1>0, <2>2, SeqWidens
  <2>4. list' \in Seq(1..(added + 1)) /\ Len(list') = 1 + Len(list)
    <3>1. <<added + 1>> \in Seq(1..(added + 1)) /\ Len(<<added + 1>>) = 1
      BY <2>2
    <3> QED BY <2>1, <2>a, <3>1, ConcatProperties
  <2>5. Len(list') <= added' /\ added' <= MaxEntries
    <3>1. Len(list) \in Nat /\ Len(list) <= added
      BY <1>0, LenProperties DEF ReadInv
    <3> QED BY <1>0, <2>1, <2>4, <3>1, PageAssumption
  <2> QED BY <1>0, <2>1, <2>a, <2>4, <2>5 DEF ReadInv, Reading
<1>8. CASE UNCHANGED pagingVars
  BY <1>0, <1>8 DEF pagingVars, server, ReadInv, Reading, Covered, Asked, HintSets
<1> QED BY <1>1, <1>2, <1>3, <1>4, <1>5, <1>6, <1>7, <1>8 DEF PagingNext

-----------------------------------------------------------------------------
(* The last page: what was read is one look at the list.                   *)
Looked(read) ==
    /\ read \in Seq(1..added)
    /\ \E place \in [1..Len(read) -> Asked] :
          /\ \A k \in Asked : \E n \in DOMAIN place : place[n] = k
          /\ \A m, n \in DOMAIN place : m < n => place[m] < place[n]
          /\ \A n \in DOMAIN place : read[n] = list[place[n]]

LEMMA BeatportLook ==
    ASSUME ReadInv, ReadPage, pc' = "done", ~disturbed, MaxEntries <= MaxPages * PerPage
    PROVE  Looked(all')
<1>1. ~HasNext(all')
  <2>1. all' = all \o Results /\ pc = "read"
    BY DEF ReadPage, Read
  <2> QED BY <2>1 DEF ReadPage, Read
<1>2. /\ all' \in Seq(1..added) /\ Len(all') = PageEnd /\ PageEnd \in Nat /\ PageEnd <= Len(list)
      /\ hidden = {} /\ \A k \in 1..PageEnd : all'[k] = list[k]
  BY BeatportPage
<1>3. Asked = 1..PageEnd
  <2>1. list \in Seq(1..added) /\ reader = "beatport"
    BY DEF ReadInv, ReadPage
  <2>2. Len(list) \in Nat /\ DOMAIN list = 1..Len(list)
    BY <2>1, LenProperties
  <2>3. CASE hints # {}
    <3>1. PageEnd = Len(list)
      BY <1>1, <2>3, HintsAreTrue
    <3> QED BY <1>2, <2>2, <2>3, <3>1 DEF Asked
  <2>4. CASE hints = {}
    <3>1. pageNumber = 1
      BY <2>4, HintsAreTrue
    <3>2. PageEnd = IF PerPage < Len(list) THEN PerPage ELSE Len(list)
      <4>1. pageNumber * PerPage = PerPage
        BY <3>1, PageAssumption
      <4> QED BY <4>1 DEF PageEnd
    <3>3. Asked = {k \in 1..Len(list) : k <= PerPage}
      BY <1>2, <2>1, <2>2, <2>4 DEF Asked
    <3> DEFINE l == Len(list)
               e == PageEnd
    <3>4. l \in Nat /\ e = (IF PerPage < l THEN PerPage ELSE l) /\ Asked = {k \in 1..l : k <= PerPage}
      BY <2>2, <3>2, <3>3
    <3> HIDE DEF l, e
    <3>5. {k \in 1..l : k <= PerPage} = 1..e
      BY <3>4, PageAssumption
    <3> QED BY <3>4, <3>5 DEF e
  <2> QED BY <2>3, <2>4
<1> DEFINE place == [k \in 1..PageEnd |-> k]
<1>4. /\ place \in [1..Len(all') -> Asked]
      /\ \A k \in Asked : \E n \in DOMAIN place : place[n] = k
      /\ \A m, n \in DOMAIN place : m < n => place[m] < place[n]
      /\ \A n \in DOMAIN place : all'[n] = list[place[n]]
  BY <1>2, <1>3
<1> HIDE DEF place
<1> QED BY <1>2, <1>4, Zenon DEF Looked

LEMMA SpotifyLook ==
    ASSUME ReadInv, FetchItems, pc' = "done", ~disturbed
    PROVE  Looked(all')
<1> DEFINE n == Len(positions')
<1>1. list \in Seq(1..added) /\ offset \in Nat /\ ~(offset + PerPage < Len(list))
  <2>1. pc = "read" /\ ~(offset + PerPage < Len(list))
    BY DEF FetchItems
  <2> QED BY <2>1 DEF ReadInv, PagesInv
<1>2. Len(list) \in Nat /\ DOMAIN list = 1..Len(list)
  BY <1>1, LenProperties
<1>3. /\ positions' \in Seq(Int) /\ \A k, m \in DOMAIN positions' : k < m => positions'[k] < positions'[m]
  <2>1. PagesInv' /\ reader' = "spotify" /\ ~disturbed'
    <3>1. ~disturbed' /\ reader' = "spotify"
      BY DEF FetchItems, server
    <3> QED BY <3>1, FetchItemsKeeps DEF ReadInv
  <2>2. positions' \in Seq(Int) /\ Rising(positions', 0)
    BY <2>1 DEF PagesInv, Placed
  <2>3. \A k \in DOMAIN positions' : positions'[k] + 0 = positions'[k]
    BY <2>2, ElementOfSeq, LenProperties
  <2> QED BY <2>2, <2>3 DEF Rising
<1>4. n \in Nat /\ DOMAIN positions' = 1..n
  BY <1>3, LenProperties
<1>5. /\ all' \in Seq(1..added) /\ Len(all') = n
      /\ \A m \in DOMAIN positions' : positions'[m] \in Asked /\ all'[m] = list[positions'[m]]
      /\ \A k \in Asked : k <= offset + PerPage => \E m \in DOMAIN positions' : positions'[m] = k
  BY SpotifyPage
<1> HIDE DEF n
<1>6. \A k \in Asked : \E m \in DOMAIN positions' : positions'[m] = k
  <2>1. Asked \subseteq 1..Len(list)
    BY <1>2 DEF Asked
  <2>2. \A k \in Asked : k <= offset + PerPage
    BY <1>1, <1>2, <2>1, PageAssumption
  <2> QED BY <1>5, <2>2
<1>7. positions' \in [1..Len(all') -> Asked]
  <2>1. positions' \in [1..n -> Int]
    BY <1>3, <1>4, LenProperties
  <2> QED BY <1>4, <1>5, <2>1
<1> QED BY <1>3, <1>5, <1>6, <1>7, Zenon DEF Looked

(* What the server is does not change during a read.                       *)
Steady == reader' = reader /\ hints' = hints /\ astray' = astray

(* One step of the loop is one step of the promise, or none.               *)
LEMMA StepOfPromise ==
    ASSUME ReadInv, [PagingNext]_pagingVars, MaxEntries <= MaxPages * PerPage
    PROVE  [Promise!Next]_Promise!vars
<1>0. added \in Nat /\ all' \in Seq(1..added')
  BY ReadStepReads DEF ReadInv, PagesInv
<1>1. CASE ReadPage
  <2>1. /\ list' = list /\ added' = added /\ hidden' = hidden /\ Steady /\ disturbed' = disturbed
        /\ pc = "read" /\ pc' \in {"read", "done"}
    BY <1>1 DEF ReadPage, Read, server, Steady
  <2>2. CASE pc' = "read"
    BY <2>1, <2>2 DEF Steady, Promise!vars
  <2>3. CASE pc' = "done" /\ disturbed
    BY <1>0, <2>1, <2>3 DEF Steady, Promise!Next, Promise!TornLook
  <2>4. CASE pc' = "done" /\ ~disturbed
    <3>1. Looked(all')
      BY <1>1, <2>4, BeatportLook
    <3> QED BY <2>1, <2>4, <3>1 DEF Steady, Looked, Asked, Promise!Next, Promise!Look, Promise!Wanted
  <2> QED BY <2>1, <2>2, <2>3, <2>4
<1>2. CASE FetchMetadata
  <2>1. /\ list' = list /\ added' = added /\ hidden' = hidden /\ Steady /\ disturbed' = disturbed
        /\ pc = "metadata" /\ pc' = "read"
    BY <1>2 DEF FetchMetadata, server, Steady
  <2> QED BY <2>1 DEF Steady, Promise!vars
<1>3. CASE FetchItems
  <2>1. /\ list' = list /\ added' = added /\ hidden' = hidden /\ Steady /\ reader = "spotify"
        /\ pc = "read" /\ pc' \in {"read", "done", "failed"}
    BY <1>3 DEF FetchItems, server, Steady
  <2>2. CASE pc' = "read"
    <3>1. disturbed' = (IF offset' = offset + PerPage THEN disturbed ELSE TRUE) /\ offset' \in Links
      BY <1>3, <2>2 DEF FetchItems
    <3>2. CASE offset' = offset + PerPage
      BY <2>1, <2>2, <3>1, <3>2 DEF Steady, Promise!vars
    <3>3. CASE offset' # offset + PerPage
      <4>1. astray
        BY <3>1, <3>3 DEF Links
      <4>2. disturbed' = TRUE
        BY <3>1, <3>3
      <4> QED BY <2>1, <2>2, <4>1, <4>2 DEF Steady, Promise!Next, Promise!Stray
    <3> QED BY <3>2, <3>3
  <2>3. CASE pc' = "failed"
    <3>1. disturbed' = disturbed
      BY <1>3, <2>1, <2>3 DEF FetchItems
    <3> QED BY <2>1, <2>3, <3>1 DEF Steady, Promise!Next, Promise!LookFails
  <2>4. CASE pc' = "done"
    <3>1. disturbed' = disturbed
      BY <1>3, <2>1, <2>4 DEF FetchItems
    <3>2. CASE disturbed
      BY <1>0, <2>1, <2>4, <3>1, <3>2 DEF Steady, Promise!Next, Promise!TornLook
    <3>3. CASE ~disturbed
      <4>1. Looked(all')
        BY <1>3, <2>4, <3>3, SpotifyLook
      <4> QED BY <2>1, <2>4, <3>1, <4>1 DEF Steady, Looked, Asked, Promise!Next, Promise!Look, Promise!Wanted
    <3> QED BY <3>2, <3>3
  <2> QED BY <2>1, <2>2, <2>3, <2>4
<1>4. CASE ReadFails
  <2>1. /\ list' = list /\ added' = added /\ hidden' = hidden /\ Steady /\ disturbed' = disturbed
        /\ pc \in {"metadata", "read"} /\ pc' = "failed"
    BY <1>4 DEF ReadFails, server, Steady
  <2> QED BY <2>1 DEF Steady, Promise!Next, Promise!LookFails
<1>5. CASE AppendEntry
  <2>1. /\ list' = Append(list, added + 1) /\ added' = added + 1 /\ added < MaxEntries
        /\ hidden' = hidden /\ Steady /\ all' = all /\ pc' = pc /\ disturbed' = disturbed
    BY <1>5 DEF AppendEntry, server, Steady
  <2> QED BY <2>1 DEF Steady, Promise!Next, Promise!Append1
<1>6. CASE RemoveEntry
  <2>1. PICK k \in DOMAIN list : list' = RemoveAt(list, k)
    BY <1>6 DEF RemoveEntry
  <2>2. /\ added' = added /\ hidden' = hidden /\ Steady /\ all' = all /\ pc' = pc
        /\ disturbed' = (disturbed \/ pc \in {"metadata", "read"})
    BY <1>6 DEF RemoveEntry, Disturb, server, Steady
  <2>3. list' = [m \in 1..(Len(list) - 1) |-> IF m < k THEN list[m] ELSE list[m + 1]]
    BY <2>1, RemovedIsShorter
  <2> QED BY <2>2, <2>3 DEF Steady, Promise!Next, Promise!Remove
<1>7. CASE InsertEntry
  <2>1. /\ list' = <<added + 1>> \o list /\ added' = added + 1 /\ added < MaxEntries
        /\ hidden' = hidden /\ Steady /\ all' = all /\ pc' = pc
        /\ disturbed' = (disturbed \/ pc \in {"metadata", "read"})
    BY <1>7 DEF InsertEntry, Disturb, server, Steady
  <2> QED BY <2>1 DEF Steady, Promise!Next, Promise!Insert
<1>8. CASE UNCHANGED pagingVars
  BY <1>8 DEF pagingVars, server, Promise!vars
<1> QED BY <1>1, <1>2, <1>3, <1>4, <1>5, <1>6, <1>7, <1>8 DEF PagingNext

(* ReadsAtOnce: the pages of a playlist that fits the limit on their       *)
(* number add up to one look at it, while other clients append, or, of a   *)
(* target that tells nothing of what follows a page, at its first page; it *)
(* is voided only by an entry removed, or inserted before others, or by a  *)
(* link that leads elsewhere.                                              *)
THEOREM PagesAddUpToOneLook ==
    ASSUME MaxEntries <= MaxPages * PerPage
    PROVE  PagingSpec => ReadsAtOnce
<1>1. PagingInit => Promise!Init
  BY DEF PagingInit, Promise!Init
<1>2. ReadInv /\ [PagingNext]_pagingVars => ReadInv'
  BY ReadStepReads
<1>3. ReadInv /\ [PagingNext]_pagingVars => [Promise!Next]_Promise!vars
  BY StepOfPromise
<1> QED BY <1>1, <1>2, <1>3, ReadInitHolds, PTL DEF PagingSpec, ReadsAtOnce, Promise!Spec

-----------------------------------------------------------------------------
(* What a removal costs: each page of the target takes its share of the    *)
(* list, so at the end no less was read than there is.                     *)

LEMMA IncreasingCounts ==
    ASSUME NEW s \in Seq(Int), Increasing(s)
    PROVE  IsFiniteSet(Range(s)) /\ Cardinality(Range(s)) = Len(s)
<1>1. Len(s) \in Nat /\ DOMAIN s = 1..Len(s) /\ s \in [1..Len(s) -> Int]
  BY LenProperties
<1> DEFINE D == 1..Len(s)
<1>2. \A k, m \in D : s[k] = s[m] => k = m
  <2>1. \A k, m \in D : k < m \/ m < k \/ k = m
    BY <1>1
  <2>2. \A k \in D : s[k] \in Int
    BY <1>1
  <2> QED BY <1>1, <2>1, <2>2 DEF Increasing
<1>3. s \in Surjection(D, Range(s)) /\ s \in Injection(D, Range(s))
  <2>1. s \in [D -> Range(s)]
    BY <1>1 DEF Range
  <2> QED BY <1>1, <1>2, <2>1 DEF Surjection, Injection, IsInjective, Range
<1>4. IsFiniteSet(D) /\ Cardinality(D) = Len(s)
  <2>1. Len(s) \in Nat
    BY <1>1
  <2> DEFINE l == Len(s)
  <2>2. l \in Nat
    BY <2>1
  <2> HIDE DEF l
  <2>3. IsFiniteSet(1..l) /\ Cardinality(1..l) = IF 1 > l THEN 0 ELSE l - 1 + 1
    BY <2>2, FS_Interval
  <2>4. Cardinality(1..l) = l
    BY <2>2, <2>3
  <2> QED BY <2>3, <2>4 DEF l
<1> HIDE DEF D
<1> QED BY <1>3, <1>4, FS_Surjection

LEMMA LeftOutAreFewer ==
    ASSUME NEW S, NEW T, IsFiniteSet(S), IsFiniteSet(T), Cardinality(S) <= Cardinality(T)
    PROVE  Cardinality(S \ T) <= Cardinality(T \ S)
<1>1. Cardinality(S \ T) = Cardinality(S) - Cardinality(S \cap T)
  BY FS_Difference
<1>2. Cardinality(T \ S) = Cardinality(T) - Cardinality(T \cap S)
  BY FS_Difference
<1>3. S \cap T = T \cap S
  OBVIOUS
<1>4. Cardinality(S) \in Nat /\ Cardinality(T) \in Nat
  BY FS_CardinalityType
<1>5. IsFiniteSet(S \cap T)
  BY FS_Intersection
<1>6. Cardinality(S \cap T) \in Nat
  BY <1>5, FS_CardinalityType
<1> DEFINE u == Cardinality(S)
           v == Cardinality(T)
           w == Cardinality(S \cap T)
<1>7. u \in Nat /\ v \in Nat /\ w \in Nat /\ u <= v
  BY <1>4, <1>6
<1>8. Cardinality(S \ T) = u - w /\ Cardinality(T \ S) = v - w
  BY <1>1, <1>2, <1>3
<1> HIDE DEF u, v, w
<1> QED BY <1>7, <1>8

LEMMA NoLessIsRead ==
    ASSUME ReadInv, ReadPage, pc' = "done", hints # {}, MaxEntries <= MaxPages * PerPage
    PROVE  Cardinality(Range(list) \ Range(all')) <= Cardinality(Range(all') \ Range(list))
<1>1. ~HasNext(all')
  <2>1. all' = all \o Results /\ pc = "read"
    BY DEF ReadPage, Read
  <2> QED BY <2>1 DEF ReadPage, Read
<1>2. PageEnd = Len(list)
  BY <1>1, HintsAreTrue
<1>3. /\ list \in Seq(Int) /\ Increasing(list) /\ pageNumber \in Nat \ {0}
      /\ all' \in Seq(Int) /\ Increasing(all')
  <2>1. PagesInv /\ PagesInv' /\ reader = "beatport" /\ reader' = "beatport"
    BY ReadPageKeeps DEF ReadInv, ReadPage, Read, server
  <2> QED BY <2>1 DEF PagesInv, Increasing
<1>4. Covered \in Nat /\ Len(list) \in Nat
  BY <1>3, CoveredGrows, LenProperties DEF Covered
<1>5. Len(all') = Covered + Len(Results) /\ Len(Results) = IF Covered < PageEnd THEN PageEnd - Covered ELSE 0
  BY BeatportPage
<1>6. Len(list) <= Len(all')
  BY <1>2, <1>4, <1>5
<1>7. IsFiniteSet(Range(list)) /\ Cardinality(Range(list)) = Len(list)
  BY <1>3, IncreasingCounts
<1>8. IsFiniteSet(Range(all')) /\ Cardinality(Range(all')) = Len(all')
  BY <1>3, IncreasingCounts
<1>9. Cardinality(Range(list)) <= Cardinality(Range(all'))
  BY <1>6, <1>7, <1>8
<1> QED BY <1>7, <1>8, <1>9, LeftOutAreFewer

(* RemovalsHideTheirNumber: other clients that remove entries while the    *)
(* pages of the target are fetched, as many as they like and wherever they *)
(* stand, hide no more of those that stay than are returned and are gone.  *)
THEOREM RemovalsHideNoMore ==
    ASSUME MaxEntries <= MaxPages * PerPage
    PROVE  PagingSpec => RemovalsHideTheirNumber
<1> DEFINE Hides == reader = "beatport" /\ hints # {} /\ pc = "read" /\ pc' = "done" =>
                       Cardinality(Range(list) \ Range(all')) <= Cardinality(Range(all') \ Range(list))
<1>1. ReadInv /\ [PagingNext]_pagingVars => ReadInv'
  BY ReadStepReads
<1>2. ReadInv /\ [PagingNext]_pagingVars => [Hides]_pagingVars
  <2> SUFFICES ASSUME ReadInv, [PagingNext]_pagingVars,
                      reader = "beatport", hints # {}, pc = "read", pc' = "done"
               PROVE  Cardinality(Range(list) \ Range(all')) <= Cardinality(Range(all') \ Range(list))
    OBVIOUS
  <2>1. CASE ReadPage
    BY <2>1, NoLessIsRead
  <2>2. CASE ~ReadPage
    <3>1. pc' = pc \/ pc' = "failed" \/ reader = "spotify"
      BY <2>2 DEF PagingNext, FetchMetadata, FetchItems, ReadFails, AppendEntry, RemoveEntry, InsertEntry,
                  Disturb, pagingVars
    <3> QED BY <3>1
  <2> QED BY <2>1, <2>2
<1> QED BY <1>1, <1>2, ReadInitHolds, PTL DEF PagingSpec, RemovalsHideTheirNumber

-----------------------------------------------------------------------------
(* How long a read can take.                                               *)

(* The pages a read can ask for.                                           *)
MostPages == IF MaxEntries > MaxPages THEN MaxEntries ELSE MaxPages

ReadsLeft ==
    CASE pc = "metadata" -> MostPages + 3
      [] pc = "read"     -> MostPages + 2 - pageNumber
      [] OTHER           -> 0

(* A read asks for no more pages than the playlist ever had entries, or    *)
(* than the limit: each request leaves fewer to make, and what other       *)
(* clients do to the playlist leaves no more.                              *)
ReadIsShort ==
    /\ [](ReadsLeft \in 0..(MostPages + 3))
    /\ [][/\ ReadPage \/ FetchMetadata \/ FetchItems => ReadsLeft' < ReadsLeft
          /\ ReadsLeft' <= ReadsLeft]_pagingVars

BoundedInv ==
    /\ pc \in {"metadata", "read", "done", "failed"}
    /\ added <= MaxEntries /\ Len(list) <= added
    /\ pageNumber <= MostPages + 1

LEMMA MostIsMost == MostPages \in Nat /\ MaxEntries <= MostPages /\ MaxPages <= MostPages
BY PageAssumption DEF MostPages

LEMMA ShortInit == PagingInit => BoundedInv
<1> SUFFICES ASSUME PagingInit PROVE BoundedInv
  OBVIOUS
<1>1. /\ added \in 0..MaxEntries /\ list = [k \in 1..added |-> k] /\ pageNumber = 1
      /\ pc \in {"metadata", "read", "done", "failed"}
  BY DEF PagingInit
<1>2. added \in Nat /\ added <= MaxEntries
  BY <1>1, PageAssumption
<1>3. Len(list) = added
  <2>1. list \in [1..added -> Int] /\ DOMAIN list = 1..added
    BY <1>1, <1>2
  <2>2. list \in Seq(Int)
    BY <1>2, <2>1, SeqDef
  <2> QED BY <1>2, <2>1, <2>2, LenProperties
<1> QED BY <1>1, <1>2, <1>3, MostIsMost DEF BoundedInv

(* Whatever Beatport tells of them, there are no more pages than entries.  *)
LEMMA PagesAreFewerThanEntries ==
    ASSUME PagesInv, list # <<>>
    PROVE  LastPage \in Nat /\ LastPage <= Len(list)
<1>1. Len(list) \in Nat \ {0} /\ PerPage \in Nat \ {0}
  BY PageAssumption DEF PagesInv
<1> DEFINE q == (Len(list) - 1) \div PerPage
<1>2. LastPage = q + 1
  BY DEF LastPage
<1>3. ASSUME NEW a \in Nat, NEW b \in Nat \ {0} PROVE a \div b \in Nat /\ a \div b <= a
  BY <1>3
<1>4. q \in Nat /\ q <= Len(list) - 1
  BY <1>1, <1>3
<1> HIDE DEF q
<1> QED BY <1>1, <1>2, <1>4

LEMMA NextPageIsOne ==
    ASSUME PagesInv, BoundedInv, NEW accumulated, HasNext(accumulated)
    PROVE  pageNumber + 1 <= MostPages
<1>1. pageNumber \in Nat \ {0} /\ MaxEntries \in Nat /\ MaxPages \in Nat /\ added \in Nat
  BY PageAssumption DEF PagesInv
<1>2. pageNumber < LastPage \/ pageNumber < MaxPages
  BY DEF HasNext
<1>3. CASE pageNumber < MaxPages
  BY <1>1, <1>3, MostIsMost
<1>4. CASE pageNumber < LastPage
  <2>1. list # <<>>
    <3>1. list = <<>> => LastPage = 1
      BY DEF LastPage
    <3> QED BY <1>1, <1>4, <3>1
  <2>2. LastPage \in Nat /\ LastPage <= Len(list)
    BY <2>1, PagesAreFewerThanEntries
  <2>3. Len(list) \in Nat /\ Len(list) <= added /\ added <= MaxEntries
    BY LenProperties DEF PagesInv, BoundedInv
  <2> QED BY <1>1, <1>4, <2>2, <2>3, MostIsMost
<1> QED BY <1>2, <1>3, <1>4

(* What a request leaves behind.                                           *)
Answered ==
    /\ UNCHANGED <<list, added>>
    /\ \/ pc = "metadata" /\ pc' = "read" /\ pageNumber' = pageNumber
       \/ pc = "read" /\ pc' = pc /\ pageNumber' = pageNumber + 1 /\ pageNumber <= MostPages
       \/ pc \in {"metadata", "read"} /\ pc' \in {"done", "failed"} /\ pageNumber' = pageNumber

LEMMA RequestsAreAnswered ==
    ASSUME PagesInv, BoundedInv, ReadPage \/ FetchMetadata \/ FetchItems \/ ReadFails
    PROVE  Answered
<1>0. pageNumber \in Nat \ {0} /\ MostPages \in Nat
  BY MostIsMost DEF PagesInv
<1>1. CASE ReadPage
  <2>1. UNCHANGED <<list, added>> /\ pc = "read"
    BY <1>1 DEF ReadPage, Read
  <2>2. CASE HasNext(all \o Results)
    <3>1. pageNumber' = pageNumber + 1 /\ pc' = pc
      BY <1>1, <2>2 DEF ReadPage, Read
    <3>2. pageNumber + 1 <= MostPages
      BY <2>2, NextPageIsOne
    <3> QED BY <1>0, <2>1, <3>1, <3>2 DEF Answered
  <2>3. CASE ~HasNext(all \o Results)
    BY <1>1, <2>1, <2>3 DEF ReadPage, Read, Answered
  <2> QED BY <2>2, <2>3
<1>2. CASE FetchMetadata \/ ReadFails
  BY <1>2 DEF FetchMetadata, ReadFails, Answered
<1>3. CASE FetchItems
  <2>1. pageNumber <= MostPages
    BY <1>0, <1>3, MostIsMost, PageAssumption DEF FetchItems
  <2>2. /\ UNCHANGED <<list, added>> /\ pc = "read"
        /\ \/ pageNumber' = pageNumber + 1 /\ pc' = pc
           \/ pageNumber' = pageNumber /\ pc' \in {"done", "failed"}
    BY <1>3 DEF FetchItems
  <2> QED BY <2>1, <2>2 DEF Answered
<1> QED BY <1>1, <1>2, <1>3

(* What other clients leave of the list.                                   *)
LEMMA ListStaysBounded ==
    ASSUME PagesInv, BoundedInv, AppendEntry \/ RemoveEntry \/ InsertEntry
    PROVE  added' <= MaxEntries /\ Len(list') <= added' /\ pc' = pc /\ pageNumber' = pageNumber
<1>1. /\ list \in Seq(Int) /\ Len(list) \in Nat /\ added \in Nat /\ MaxEntries \in Nat
      /\ Len(list) <= added /\ added <= MaxEntries
  BY LenProperties, PageAssumption DEF PagesInv, BoundedInv
<1>2. CASE AppendEntry
  <2>1. Len(Append(list, added + 1)) = Len(list) + 1
    BY <1>1, AppendProperties
  <2>2. added < MaxEntries /\ added' = added + 1 /\ list' = Append(list, added + 1)
    BY <1>2 DEF AppendEntry
  <2> QED BY <1>1, <1>2, <2>1, <2>2 DEF AppendEntry
<1>3. CASE InsertEntry
  <2>1. <<added + 1>> \in Seq(Int) /\ Len(<<added + 1>>) = 1
    BY <1>1
  <2>2. Len(<<added + 1>> \o list) = 1 + Len(list)
    BY <1>1, <2>1, ConcatProperties
  <2>3. added < MaxEntries /\ added' = added + 1 /\ list' = <<added + 1>> \o list
        /\ pc' = pc /\ pageNumber' = pageNumber
    BY <1>3 DEF InsertEntry, Disturb
  <2> QED BY <1>1, <2>2, <2>3
<1>4. CASE RemoveEntry
  <2>1. added' = added /\ pc' = pc /\ pageNumber' = pageNumber
    BY <1>4 DEF RemoveEntry, Disturb
  <2>2. PICK e \in DOMAIN list : list' = RemoveAt(list, e)
    BY <1>4 DEF RemoveEntry
  <2>3. Len(list') = Len(list) - 1
    BY <1>1, <2>2, RemovedEntry
  <2> QED BY <1>1, <2>1, <2>3
<1> QED BY <1>2, <1>3, <1>4

LEMMA ReadsAreCounted ==
    ASSUME PagesInv, BoundedInv, [PagingNext]_pagingVars
    PROVE  /\ BoundedInv'
           /\ ReadPage \/ FetchMetadata \/ FetchItems => ReadsLeft' < ReadsLeft
           /\ ReadsLeft' <= ReadsLeft
<1>1. /\ pageNumber \in Nat \ {0} /\ MostPages \in Nat /\ pageNumber <= MostPages + 1
      /\ pc \in {"metadata", "read", "done", "failed"}
  BY MostIsMost DEF PagesInv, BoundedInv
<1>2. CASE ReadPage \/ FetchMetadata \/ FetchItems \/ ReadFails
  <2>1. Answered
    BY <1>2, RequestsAreAnswered
  <2>2. BoundedInv'
    BY <1>1, <2>1 DEF Answered, BoundedInv, MostPages
  <2>3. ReadsLeft' < ReadsLeft /\ ReadsLeft \in Nat /\ ReadsLeft' \in Nat
    <3>1. MostPages' = MostPages
      BY DEF MostPages
    <3>2. CASE pc = "metadata" /\ pc' = "read" /\ pageNumber' = pageNumber
      <4>1. ReadsLeft = MostPages + 3 /\ ReadsLeft' = MostPages + 2 - pageNumber
        BY <3>1, <3>2 DEF ReadsLeft
      <4> QED BY <1>1, <4>1
    <3>3. CASE pc = "read" /\ pc' = pc /\ pageNumber' = pageNumber + 1 /\ pageNumber <= MostPages
      <4>1. ReadsLeft = MostPages + 2 - pageNumber /\ ReadsLeft' = MostPages + 2 - (pageNumber + 1)
        BY <3>1, <3>3 DEF ReadsLeft
      <4> QED BY <1>1, <3>3, <4>1
    <3>4. CASE pc \in {"metadata", "read"} /\ pc' \in {"done", "failed"}
      <4>1. ReadsLeft' = 0
        BY <3>4 DEF ReadsLeft
      <4>2. ReadsLeft \in {MostPages + 3, MostPages + 2 - pageNumber}
        BY <3>4 DEF ReadsLeft
      <4> QED BY <1>1, <4>1, <4>2
    <3> QED BY <2>1, <3>2, <3>3, <3>4 DEF Answered
  <2> QED BY <2>2, <2>3
<1>3. CASE (AppendEntry \/ RemoveEntry \/ InsertEntry) /\ ~(ReadPage \/ FetchMetadata \/ FetchItems)
  <2>1. added' <= MaxEntries /\ Len(list') <= added' /\ pc' = pc /\ pageNumber' = pageNumber
    BY <1>3, ListStaysBounded
  <2>2. BoundedInv'
    BY <1>1, <2>1 DEF BoundedInv, MostPages
  <2>3. ReadsLeft' = ReadsLeft /\ ReadsLeft \in Int
    BY <1>1, <2>1 DEF ReadsLeft, MostPages
  <2> QED BY <1>3, <2>2, <2>3
<1>4. CASE UNCHANGED pagingVars /\ ~(ReadPage \/ FetchMetadata \/ FetchItems)
  <2>1. UNCHANGED <<pc, pageNumber, list, added>>
    BY <1>4 DEF pagingVars
  <2>2. BoundedInv'
    BY <2>1 DEF BoundedInv, MostPages
  <2>3. ReadsLeft' = ReadsLeft /\ ReadsLeft \in Int
    BY <1>1, <2>1 DEF ReadsLeft, MostPages
  <2> QED BY <1>4, <2>2, <2>3
<1> QED BY <1>2, <1>3, <1>4 DEF PagingNext

(* Neither hints, nor links that lead back, nor a playlist that changes    *)
(* make GetPlaylistTracks or FetchPlaylist ask without end.                *)
THEOREM ReadsAreShort == PagingSpec => ReadIsShort
<1>1. PagesInv /\ BoundedInv => ReadsLeft \in 0..(MostPages + 3)
  <2> SUFFICES ASSUME PagesInv, BoundedInv PROVE ReadsLeft \in 0..(MostPages + 3)
    OBVIOUS
  <2>1. pageNumber \in Nat \ {0} /\ MostPages \in Nat /\ pageNumber <= MostPages + 1
    BY MostIsMost DEF PagesInv, BoundedInv
  <2>2. ReadsLeft \in {MostPages + 3, MostPages + 2 - pageNumber, 0}
    BY DEF ReadsLeft
  <2> QED BY <2>1, <2>2
<1> DEFINE Counts == /\ ReadPage \/ FetchMetadata \/ FetchItems => ReadsLeft' < ReadsLeft
                     /\ ReadsLeft' <= ReadsLeft
<1>2. PagesInv /\ BoundedInv /\ [PagingNext]_pagingVars => BoundedInv' /\ [Counts]_pagingVars
  BY ReadsAreCounted
<1> QED BY <1>1, <1>2, ShortInit, PagingInitHolds, PagingStepKeeps, PTL DEF PagingSpec, ReadIsShort

-----------------------------------------------------------------------------
(* The search cache, for any number of imports, queries and clears: hits   *)
(* are current, and no step makes the file unreadable.  An answer that is  *)
(* older than a clear was in the memory of an import that ran through it:  *)
(* the clear removed the file, and a temporary file holds what its import  *)
(* holds.                                                                  *)

(* Each entry survived the clears after it in the memory of some import.   *)
Outlasts(index, kept) ==
    \A q \in Queries :
        index[q] # NoEntry => \A c \in (index[q].clears + 1)..Len(kept) : q \in kept[c]

CacheTypeInv ==
    /\ now \in Nat /\ now <= MaxTime
    /\ held \in Seq(SUBSET Queries) /\ Len(held) <= MaxClears
    /\ using \in [Procs -> {"idle", "cached", "writing", "uncached"}]
    /\ entries \in [Procs -> Index]
    /\ temporary \in [Procs -> Index \cup {Absent}]
    /\ file \in Index \cup {Absent, Corrupt, OtherSchema}
    /\ \A h \in hit : h.clears \in 0..Len(held) /\ h.entry.clears \in Nat

WritingInv == \A p \in Procs : using[p] = "writing" => temporary[p] = entries[p]

KeptInv ==
    /\ file \in Index => Outlasts(file, held)
    /\ \A p \in Procs : Outlasts(entries[p], held)

CacheInv == CacheTypeInv /\ WritingInv /\ KeptInv /\ HitsAreCurrent

-----------------------------------------------------------------------------

LEMMA NoEntryType == NoEntry \in Entry
BY TimeAssumption, SMT DEF NoEntry, Entry

LEMMA EmptyIndex == Empty \in Index /\ \A kept : Outlasts(Empty, kept)
BY NoEntryType DEF Empty, Index, Outlasts

LEMMA PrunedIndex ==
    ASSUME NEW index \in Index, NEW kept
    PROVE  Pruned(index) \in Index /\ (Outlasts(index, kept) => Outlasts(Pruned(index), kept))
BY NoEntryType DEF Pruned, Index, Outlasts

(* An answer that joins an index has outlived no clear.                    *)
LEMMA JoinedIndex ==
    ASSUME CacheTypeInv, NEW index \in Index, Outlasts(index, held), NEW q \in Queries
    PROVE  /\ [index EXCEPT ![q] = NewEntry] \in Index
           /\ Outlasts([index EXCEPT ![q] = NewEntry], held)
<1>1. Len(held) \in Nat /\ Len(held) <= MaxClears
  BY DEF CacheTypeInv
<1>2. NewEntry \in Entry
  BY <1>1, TimeAssumption, SMT DEF CacheTypeInv, Entry, NewEntry
<1>3. NewEntry.clears = Len(held)
  BY DEF NewEntry
<1>4. (NewEntry.clears + 1)..Len(held) = {}
  BY <1>1, <1>3
<1> DEFINE joined == [index EXCEPT ![q] = NewEntry]
<1>5. joined \in Index /\ joined[q] = NewEntry /\ \A r \in Queries \ {q} : joined[r] = index[r]
  BY <1>2 DEF Index
<1> HIDE DEF joined
<1>6. Outlasts(joined, held)
  BY <1>4, <1>5 DEF Outlasts
<1> QED BY <1>5, <1>6 DEF joined

-----------------------------------------------------------------------------

LEMMA CacheInitHolds == CacheInit => CacheInv
<1> SUFFICES ASSUME CacheInit PROVE CacheInv
  OBVIOUS
<1>1. held = <<>> /\ hit = {} /\ now = 1 /\ file \in {Absent, Corrupt, OtherSchema}
      /\ using = [p \in Procs |-> "idle"] /\ entries = [p \in Procs |-> Empty]
      /\ temporary = [p \in Procs |-> Absent]
  BY DEF CacheInit
<1>2. held \in Seq(SUBSET Queries) /\ Len(held) = 0
  BY <1>1
<1>3. CacheTypeInv
  BY <1>1, <1>2, EmptyIndex, TimeAssumption DEF CacheTypeInv
<1>4. WritingInv
  BY <1>1 DEF WritingInv
<1>5. file \notin Index
  BY <1>1, FileAssumption
<1>6. KeptInv
  BY <1>1, <1>5, EmptyIndex DEF KeptInv
<1>7. HitsAreCurrent
  BY <1>1 DEF HitsAreCurrent
<1> QED BY <1>3, <1>4, <1>6, <1>7 DEF CacheInv

LEMMA OpenKeeps ==
    ASSUME CacheInv, NEW p \in Procs, Open(p) \/ OpenFails(p)
    PROVE  CacheInv'
<1> DEFINE new == IF file \in Index THEN Pruned(file) ELSE Empty
<1>1. new \in Index /\ Outlasts(new, held)
  BY PrunedIndex, EmptyIndex DEF CacheInv, KeptInv
<1>2. /\ entries' = [entries EXCEPT ![p] = new] \/ UNCHANGED entries
      /\ UNCHANGED <<now, file, temporary, held, hit>>
  BY DEF Open, OpenFails
<1> HIDE DEF new
<1>3. using' \in [Procs -> {"idle", "cached", "writing", "uncached"}] /\ using'[p] \in {"cached", "uncached"}
  BY DEF Open, OpenFails, CacheInv, CacheTypeInv
<1>4. \A r \in Procs \ {p} : using'[r] = using[r] /\ entries'[r] = entries[r]
  BY <1>2 DEF Open, OpenFails, CacheInv, CacheTypeInv
<1>5. CacheTypeInv'
  BY <1>1, <1>2, <1>3 DEF CacheInv, CacheTypeInv
<1>6. WritingInv'
  BY <1>2, <1>3, <1>4 DEF CacheInv, WritingInv
<1>7. KeptInv'
  BY <1>1, <1>2 DEF CacheInv, CacheTypeInv, KeptInv
<1>8. HitsAreCurrent'
  BY <1>2 DEF CacheInv, HitsAreCurrent
<1> QED BY <1>5, <1>6, <1>7, <1>8 DEF CacheInv

LEMMA GetKeeps ==
    ASSUME CacheInv, NEW p \in Procs, NEW q \in Queries, Get(p, q)
    PROVE  CacheInv'
<1>1. UNCHANGED <<now, file, using, entries, temporary, held>>
  BY DEF Get, Served
<1>2. WritingInv' /\ KeptInv'
  BY <1>1 DEF CacheInv, WritingInv, KeptInv
<1>3. entries[p][q].at # 0 /\ now - entries[p][q].at < TTL
  BY DEF Get, Fresh
<1>4. entries[p][q] # NoEntry
  BY <1>3 DEF NoEntry
<1>5. \A c \in (entries[p][q].clears + 1)..Len(held) : q \in held[c]
  BY <1>4 DEF CacheInv, KeptInv, Outlasts
<1>6. \A h \in hit' : h.on = now /\ h.entry = entries[p][q] /\ h.query = q /\ h.clears = Len(held)
  BY DEF Get, Served
<1>7. HitsAreCurrent'
  BY <1>1, <1>3, <1>5, <1>6 DEF HitsAreCurrent
<1>8. entries[p][q].clears \in Nat
  <2>1. entries[p][q] \in Entry
    BY DEF CacheInv, CacheTypeInv, Index
  <2> QED BY <2>1, TimeAssumption DEF Entry
<1>9. Len(held) \in 0..Len(held)
  BY DEF CacheInv, CacheTypeInv
<1>10. CacheTypeInv'
  BY <1>1, <1>6, <1>8, <1>9 DEF CacheInv, CacheTypeInv
<1> QED BY <1>2, <1>7, <1>10 DEF CacheInv

LEMMA PutKeeps ==
    ASSUME CacheInv, NEW p \in Procs, NEW q \in Queries, Put(p, q)
    PROVE  CacheInv'
<1> DEFINE new == Pruned([entries[p] EXCEPT ![q] = NewEntry])
<1>1. new \in Index /\ Outlasts(new, held)
  <2>1. entries[p] \in Index /\ Outlasts(entries[p], held)
    BY DEF CacheInv, CacheTypeInv, KeptInv
  <2> QED BY <2>1, JoinedIndex, PrunedIndex DEF CacheInv
<1>2. /\ entries' = [entries EXCEPT ![p] = new]
      /\ temporary' = [temporary EXCEPT ![p] = entries'[p]]
      /\ using' = [using EXCEPT ![p] = "writing"]
      /\ UNCHANGED <<now, file, held, hit>>
  BY DEF Put
<1> HIDE DEF new
<1>3. entries'[p] = new
  BY <1>2 DEF CacheInv, CacheTypeInv
<1>4. CacheTypeInv'
  BY <1>1, <1>2, <1>3 DEF CacheInv, CacheTypeInv
<1>5. WritingInv'
  BY <1>2, <1>3 DEF CacheInv, CacheTypeInv, WritingInv
<1>6. KeptInv'
  BY <1>1, <1>2 DEF CacheInv, CacheTypeInv, KeptInv
<1>7. HitsAreCurrent'
  BY <1>2 DEF CacheInv, HitsAreCurrent
<1> QED BY <1>4, <1>5, <1>6, <1>7 DEF CacheInv

(* The temporary file goes, and the file is what it was or what it held.   *)
LEMMA WriteEnds ==
    ASSUME CacheInv, NEW p \in Procs, Rename(p) \/ PutFails(p)
    PROVE  CacheInv' /\ (file' = Corrupt => file = Corrupt)
<1>1. temporary[p] = entries[p] /\ entries[p] \in Index /\ Outlasts(entries[p], held)
  BY DEF CacheInv, CacheTypeInv, WritingInv, KeptInv, Rename, PutFails
<1>2. /\ temporary' = [temporary EXCEPT ![p] = Absent]
      /\ using' = [using EXCEPT ![p] = "cached"]
      /\ UNCHANGED <<now, entries, held, hit>>
      /\ file' = file \/ file' = temporary[p]
  BY DEF Rename, PutFails
<1>3. CacheTypeInv'
  BY <1>1, <1>2 DEF CacheInv, CacheTypeInv
<1>4. WritingInv'
  BY <1>2 DEF CacheInv, CacheTypeInv, WritingInv
<1>5. KeptInv'
  BY <1>1, <1>2 DEF CacheInv, KeptInv
<1>6. HitsAreCurrent'
  BY <1>2 DEF CacheInv, HitsAreCurrent
<1>7. file' = Corrupt => file = Corrupt
  BY <1>1, <1>2, FileAssumption
<1> QED BY <1>3, <1>4, <1>5, <1>6, <1>7 DEF CacheInv

LEMMA LeaveKeeps ==
    ASSUME CacheInv, NEW p \in Procs, Leave(p)
    PROVE  CacheInv'
<1>1. /\ using' = [using EXCEPT ![p] = "idle"]
      /\ entries' = [entries EXCEPT ![p] = Empty]
      /\ temporary' = [temporary EXCEPT ![p] = Absent]
      /\ UNCHANGED <<now, file, held, hit>>
  BY DEF Leave
<1>2. CacheTypeInv'
  BY <1>1, EmptyIndex DEF CacheInv, CacheTypeInv
<1>3. WritingInv'
  BY <1>1 DEF CacheInv, CacheTypeInv, WritingInv
<1>4. KeptInv'
  BY <1>1, EmptyIndex DEF CacheInv, CacheTypeInv, KeptInv
<1>5. HitsAreCurrent'
  BY <1>1 DEF CacheInv, HitsAreCurrent
<1> QED BY <1>2, <1>3, <1>4, <1>5 DEF CacheInv

(* A clear leaves no index but those in memory, and counts what they hold. *)
LEMMA ClearKeeps == ASSUME CacheInv, Clear PROVE CacheInv'
<1> DEFINE inMemory == {q \in Queries : \E p \in Procs : entries[p][q] # NoEntry}
           n == Len(held)
<1>1. /\ file' = Absent /\ n < MaxClears /\ held' = Append(held, inMemory)
      /\ UNCHANGED <<now, using, entries, temporary, hit>>
  BY DEF Clear
<1>2. held \in Seq(SUBSET Queries) /\ n \in Nat /\ inMemory \in SUBSET Queries
  BY DEF CacheInv, CacheTypeInv
<1>3. ASSUME NEW q \in Queries, NEW p \in Procs, entries[p][q] # NoEntry PROVE q \in inMemory
  BY <1>3
<1> HIDE DEF inMemory, n
<1>4. /\ held' \in Seq(SUBSET Queries) /\ Len(held') = n + 1 /\ held'[n + 1] = inMemory
      /\ \A c \in 1..n : held'[c] = held[c]
  BY <1>1, <1>2 DEF n
<1>5. CacheTypeInv'
  BY <1>1, <1>2, <1>4, TimeAssumption DEF CacheInv, CacheTypeInv
<1>6. WritingInv'
  BY <1>1 DEF CacheInv, WritingInv
<1>7. ASSUME NEW p \in Procs, NEW q \in Queries, entries[p][q] # NoEntry,
             NEW c \in (entries[p][q].clears + 1)..(n + 1)
      PROVE  q \in held'[c]
  <2>1. entries[p][q].clears \in Nat
    <3>1. entries[p][q] \in Entry
      BY DEF CacheInv, CacheTypeInv, Index
    <3> QED BY <3>1, TimeAssumption DEF Entry
  <2>2. c \in Int /\ (c = n + 1 \/ c \in (entries[p][q].clears + 1)..n)
    BY <1>2, <2>1
  <2>3. CASE c = n + 1
    BY <1>3, <1>4, <1>7, <2>3
  <2>4. CASE c \in (entries[p][q].clears + 1)..n
    <3>1. q \in held[c]
      BY <1>7, <2>4 DEF CacheInv, KeptInv, Outlasts, n
    <3>2. c \in 1..n
      BY <2>1, <2>4, <1>2
    <3> QED BY <1>4, <3>1, <3>2
  <2> QED BY <2>2, <2>3, <2>4
<1>8. KeptInv'
  <2>1. file' \notin Index
    BY <1>1, FileAssumption
  <2> QED BY <1>1, <1>4, <1>7, <2>1 DEF KeptInv, Outlasts
<1>9. HitsAreCurrent'
  <2>1. ASSUME NEW h \in hit PROVE h.clears \in 0..n /\ h.entry.clears \in Nat
    BY DEF CacheInv, CacheTypeInv, n
  <2>2. ASSUME NEW h \in hit, NEW c \in (h.entry.clears + 1)..h.clears PROVE h.query \in held'[c]
    <3>1. c \in 1..n
      BY <1>2, <2>1
    <3>2. h.query \in held[c]
      BY DEF CacheInv, HitsAreCurrent
    <3> QED BY <1>4, <3>1, <3>2
  <2> QED BY <1>1, <2>2 DEF CacheInv, HitsAreCurrent
<1> QED BY <1>5, <1>6, <1>8, <1>9 DEF CacheInv

LEMMA TickKeeps == ASSUME CacheInv, Tick PROVE CacheInv'
<1>1. now' \in Nat /\ now' <= MaxTime /\ UNCHANGED <<file, using, entries, temporary, held, hit>>
  BY TimeAssumption DEF Tick, CacheInv, CacheTypeInv
<1> QED BY <1>1 DEF CacheInv, CacheTypeInv, WritingInv, KeptInv, HitsAreCurrent

LEMMA CacheStepKeeps == CacheInv /\ [CacheNext]_cacheVars => CacheInv' /\ (file' = Corrupt => file = Corrupt)
<1> SUFFICES ASSUME CacheInv, [CacheNext]_cacheVars
             PROVE  CacheInv' /\ (file' = Corrupt => file = Corrupt)
  OBVIOUS
<1>1. ASSUME NEW p \in Procs, ImportStep(p)
      PROVE  CacheInv' /\ (file' = Corrupt => file = Corrupt)
  <2>1. CASE Open(p) \/ OpenFails(p)
    BY <2>1, OpenKeeps DEF Open, OpenFails
  <2>2. CASE Rename(p) \/ PutFails(p)
    BY <2>2, WriteEnds
  <2>3. CASE Leave(p)
    BY <2>3, LeaveKeeps DEF Leave
  <2>4. ASSUME NEW q \in Queries, Get(p, q) PROVE CacheInv' /\ file' = file
    BY <2>4, GetKeeps DEF Get, Served
  <2>5. ASSUME NEW q \in Queries, Put(p, q) PROVE CacheInv' /\ file' = file
    BY <2>5, PutKeeps DEF Put
  <2> QED BY <1>1, <2>1, <2>2, <2>3, <2>4, <2>5 DEF ImportStep
<1>2. CASE Clear
  <2>1. file' = Absent
    BY <1>2 DEF Clear
  <2> QED BY <1>2, <2>1, ClearKeeps, FileAssumption
<1>3. CASE Tick
  BY <1>3, TickKeeps DEF Tick
<1>4. CASE UNCHANGED cacheVars
  BY <1>4 DEF cacheVars, CacheInv, CacheTypeInv, WritingInv, KeptInv, HitsAreCurrent
<1> QED BY <1>1, <1>2, <1>3, <1>4 DEF CacheNext

-----------------------------------------------------------------------------

(* However many imports share the file: no hit is older than the TTL, and  *)
(* an answer outlives a clear in the memory of an import that ran through  *)
(* it, and in no other way.                                                *)
THEOREM HitsStayCurrent == CacheSpec => []HitsAreCurrent
<1>1. CacheInv => HitsAreCurrent
  BY DEF CacheInv
<1> QED BY <1>1, CacheInitHolds, CacheStepKeeps, PTL DEF CacheSpec

(* No step of any import, not even its death, makes the file unreadable.   *)
THEOREM FileIsNeverSpoilt == CacheSpec => FileStaysReadable
<1>1. CacheSpec => []CacheInv
  BY CacheInitHolds, CacheStepKeeps, PTL DEF CacheSpec
<1>2. CacheInv /\ [CacheNext]_cacheVars => [file' = Corrupt => file = Corrupt]_cacheVars
  BY CacheStepKeeps
<1> QED BY <1>1, <1>2, PTL DEF CacheSpec, FileStaysReadable

-----------------------------------------------------------------------------
(* The settings: the matcher works with what the user said last, whatever  *)
(* thresholds are written in the file, the environment and the flag.  The  *)
(* invariant says of each stage which layers they have gone through.       *)

FromFile(f) == IF toml # NoFile /\ toml[f] # Unset THEN toml[f] ELSE Default[f]

LayerInv ==
    /\ DOMAIN settings = Fields
    /\ loading = "environment" => \A f \in Fields : settings[f] = FromFile(f)
    /\ loading = "flag" => \A f \in Fields : settings[f] = Configured(f)
    /\ loading \in {"loaded", "matching"} =>
          /\ settings.high = IF FlagIsSet THEN flag ELSE Configured("high")
          /\ settings.ambiguous = Configured("ambiguous")
          /\ Valid(settings)

LEMMA HelpIsSet ==
    ASSUME flag \in FlagHelp
    PROVE  FlagIsSet
<1>1. FlagHelp \subseteq Int
  BY SMT DEF FlagHelp
<1>2. flag # NaN
  BY <1>1, NumbersAssumption
<1>3. flag >= 0
  BY SMT DEF FlagHelp
<1> QED BY <1>2, <1>3 DEF FlagIsSet

(* A setting that was validated is one that the matcher leaves alone.      *)
LEMMA ValidIsKept ==
    ASSUME NEW config, NEW default, InRange(config)
    PROVE  Mended(config, default) = config
<1>1. ~Exceeds(1, config)
  BY SMT DEF InRange
<1> QED BY <1>1, SMT DEF Mended

LEMMA IdleKeeps == Idle => LayerInv'
BY DEF Idle, LayerInv, Default, Fields

LEMMA SettingsInitHolds == SettingsInit => LayerInv
BY DEF SettingsInit, LayerInv, Default, Fields

LEMMA ReadFileKeeps == LayerInv /\ ReadFile => LayerInv'
<1> SUFFICES ASSUME LayerInv, ReadFile PROVE LayerInv'
  OBVIOUS
<1>1. /\ DOMAIN settings' = Fields
      /\ \A f \in Fields : settings'[f] = FromFile(f)
  BY DEF ReadFile, Over, Default, Fields, FromFile
<1>2. FromFile("high")' = FromFile("high") /\ FromFile("ambiguous")' = FromFile("ambiguous")
  BY DEF ReadFile, FromFile
<1>3. loading' = "environment"
  BY DEF ReadFile
<1> QED BY <1>1, <1>2, <1>3 DEF LayerInv, Fields

LEMMA ApplyEnvironmentKeeps == LayerInv /\ ApplyEnvironment => LayerInv'
<1> SUFFICES ASSUME LayerInv, ApplyEnvironment PROVE LayerInv'
  OBVIOUS
<1>1. \A f \in Fields : settings[f] = FromFile(f)
  BY DEF LayerInv, ApplyEnvironment
<1>2. settings' = [f \in Fields |-> IF environment[f] = Unset THEN settings[f] ELSE environment[f]]
  BY DEF ApplyEnvironment, Over
<1>3. UNCHANGED <<toml, environment>> /\ loading' = "flag"
  BY DEF ApplyEnvironment
<1>4. \A f \in Fields : settings'[f] = Configured(f)
  BY <1>1, <1>2 DEF FromFile, Configured
<1>5. \A f \in Fields : Configured(f)' = Configured(f)
  BY <1>3 DEF Configured
<1> QED BY <1>2, <1>3, <1>4, <1>5 DEF LayerInv

LEMMA ApplyFlagKeeps == LayerInv /\ ApplyFlag => LayerInv'
<1> SUFFICES ASSUME LayerInv, ApplyFlag PROVE LayerInv'
  OBVIOUS
<1>1. /\ DOMAIN settings = Fields
      /\ settings.high = Configured("high") /\ settings.ambiguous = Configured("ambiguous")
  BY DEF LayerInv, ApplyFlag, Fields
<1>2. /\ settings' = Flagged /\ Valid(Flagged)
      /\ UNCHANGED <<toml, environment, flag>> /\ loading' = "loaded"
  BY DEF ApplyFlag, FlagAccepted
<1>3. /\ DOMAIN Flagged = Fields
      /\ Flagged.high = IF FlagIsSet THEN flag ELSE Configured("high")
      /\ Flagged.ambiguous = Configured("ambiguous")
  BY <1>1 DEF Flagged, Fields
<1>4. /\ Configured("high")' = Configured("high")
      /\ Configured("ambiguous")' = Configured("ambiguous")
      /\ FlagIsSet' = FlagIsSet
  BY <1>2 DEF Configured, FlagIsSet
<1>5. Valid(settings')
  BY <1>2
<1>6. Valid(settings)'
  BY <1>5 DEF Valid, InRange, Exceeds
<1> QED BY <1>2, <1>3, <1>4, <1>6 DEF LayerInv

LEMMA SettingsMatchKeeps == LayerInv /\ StartMatching => LayerInv'
<1> SUFFICES ASSUME LayerInv, StartMatching PROVE LayerInv'
  OBVIOUS
<1>1. /\ settings.high = IF FlagIsSet THEN flag ELSE Configured("high")
      /\ settings.ambiguous = Configured("ambiguous")
      /\ Valid(settings)
  BY DEF LayerInv, StartMatching
<1>2. /\ Mended(settings.high, Default.high) = settings.high
      /\ Mended(settings.ambiguous, Default.ambiguous) = settings.ambiguous
  BY <1>1, ValidIsKept DEF Valid
<1>3. ~Exceeds(settings.ambiguous, settings.high)
  BY <1>1 DEF Valid
<1>4. settings' = [high |-> settings.high, ambiguous |-> settings.ambiguous]
  BY <1>2, <1>3 DEF StartMatching
<1>5. /\ DOMAIN settings' = Fields
      /\ settings'.high = settings.high /\ settings'.ambiguous = settings.ambiguous
  BY <1>4 DEF Fields
<1>6. UNCHANGED <<toml, environment, flag>> /\ loading' = "matching"
  BY DEF StartMatching
<1>7. /\ Configured("high")' = Configured("high")
      /\ Configured("ambiguous")' = Configured("ambiguous")
      /\ FlagIsSet' = FlagIsSet
  BY <1>6 DEF Configured, FlagIsSet
<1>8. Valid(settings)'
  BY <1>1, <1>5 DEF Valid, InRange, Exceeds
<1> QED BY <1>1, <1>5, <1>6, <1>7, <1>8 DEF LayerInv

LEMMA SettingsStepKeeps == LayerInv /\ [SettingsNext]_settingsVars => LayerInv'
<1> SUFFICES ASSUME LayerInv, [SettingsNext]_settingsVars PROVE LayerInv'
  OBVIOUS
<1>1. CASE Start
  BY <1>1 DEF Start, LayerInv
<1>2. CASE ReadFile
  BY <1>2, ReadFileKeeps
<1>3. CASE ApplyEnvironment
  BY <1>3, ApplyEnvironmentKeeps
<1>4. CASE ApplyFlag
  BY <1>4, ApplyFlagKeeps
<1>5. CASE Refuse \/ SaveSettings \/ EndMatching
  BY <1>5, IdleKeeps DEF Refuse, SaveSettings, EndMatching
<1>6. CASE StartMatching
  BY <1>6, SettingsMatchKeeps
<1>7. CASE EditFile
  BY <1>7 DEF EditFile, LayerInv
<1>8. CASE UNCHANGED settingsVars
  BY <1>8 DEF settingsVars, LayerInv, Configured, FromFile, FlagIsSet, Valid, InRange, Exceeds
<1> QED BY <1>1, <1>2, <1>3, <1>4, <1>5, <1>6, <1>7, <1>8 DEF SettingsNext

(* For all the thresholds there are, NaN included: the matcher uses the    *)
(* flag if there is one, else the environment, else the file, else the     *)
(* default, and never a value that normalizedConfig has put in its place.  *)
THEOREM LastWordCounts == SettingsSpec => []SettingsAreObeyed
<1>1. LayerInv => SettingsAreObeyed
  <2> SUFFICES ASSUME LayerInv, loading = "matching" PROVE
            /\ flag = FlagDefault => settings.high = Configured("high")
            /\ flag \in FlagHelp => settings.high = flag
            /\ settings.ambiguous = Configured("ambiguous")
            /\ ~Exceeds(settings.ambiguous, settings.high)
    BY Zenon DEF SettingsAreObeyed
  <2>1. /\ settings.high = IF FlagIsSet THEN flag ELSE Configured("high")
        /\ settings.ambiguous = Configured("ambiguous")
        /\ ~Exceeds(settings.ambiguous, settings.high)
    BY DEF LayerInv, Valid
  <2>2. flag = FlagDefault => ~FlagIsSet
    BY DEF FlagDefault, FlagIsSet
  <2>3. ASSUME flag \in FlagHelp PROVE FlagIsSet
    BY <2>3, HelpIsSet
  <2> QED BY <2>1, <2>2, <2>3
<1> QED BY <1>1, SettingsInitHolds, SettingsStepKeeps, PTL DEF SettingsSpec

-----------------------------------------------------------------------------
(* The assignment of artists (matcher/similarity.go).                      *)

LEMMA MaxIsGreatest ==
    ASSUME NEW X \in SUBSET Int, IsFiniteSet(X), X # {}
    PROVE  Max(X) \in X /\ \A y \in X : y <= Max(X)
<1> DEFINE R == {p \in X \X X : p[1] < p[2]}
<1>1. StrictTotal(R, X)
  BY DEF StrictTotal
<1>2. HasLast(R, X)
  BY <1>1, LastExists
<1>3. PICK x \in X : \A y \in X \ {x} : <<y, x>> \in R
  BY <1>2 DEF HasLast
<1>4. ASSUME NEW y \in X PROVE x >= y
  <2>1. x \in Int /\ y \in Int /\ (y = x \/ y < x)
    BY <1>3
  <2> HIDE DEF R
  <2> QED BY <2>1
<1> HIDE DEF R
<1>5. Max(X) \in X /\ \A y \in X : Max(X) >= y
  BY <1>4 DEF Max
<1> QED BY <1>5

LEMMA MaxIsThat ==
    ASSUME NEW X \in SUBSET Int, NEW x \in X, \A y \in X : y <= x
    PROVE  Max(X) = x
<1>1. \A y \in X : x >= y
  OBVIOUS
<1>2. Max(X) \in X /\ \A y \in X : Max(X) >= y
  BY <1>1 DEF Max
<1>3. Max(X) \in Int /\ x \in Int /\ Max(X) >= x /\ Max(X) <= x
  BY <1>2
<1> QED BY <1>3

-----------------------------------------------------------------------------
(* What a one-to-one assignment f is worth, if the pair p is worth w[p].   *)
Worth(w, f) == SumFunction([k \in DOMAIN f |-> w[<<k, f[k]>>]])

Priced(w, S, B) == \A k \in S, m \in B : w[<<k, m>>] \in Nat

(* f is g and one artist more, k.                                          *)
Gains(w, f, k, g) == Worth(w, f) = w[<<k, f[k]>>] + Worth(w, g)

Agree(f, g, S) == \A k \in S : f[k] = g[k]

LEMMA WorthIsNat ==
    ASSUME NEW S, IsFiniteSet(S), NEW B, NEW f \in [S -> B], NEW w, Priced(w, S, B)
    PROVE  Worth(w, f) \in Nat
<1> DEFINE v == [k \in S |-> w[<<k, f[k]>>]]
<1>1. Worth(w, f) = SumFunctionOnSet(v, S)
  BY DEF Worth, SumFunction
<1>2. \A k \in S : v[k] \in Nat
  BY DEF Priced
<1> HIDE DEF v
<1> QED BY <1>1, <1>2, SumStaysIn

LEMMA WorthGrows ==
    ASSUME NEW S, IsFiniteSet(S), NEW B, NEW f \in [S -> B], NEW k \in S,
           NEW g \in [S \ {k} -> B], Agree(f, g, S \ {k}), NEW w, Priced(w, S, B)
    PROVE  Gains(w, f, k, g)
<1> DEFINE v == [j \in S |-> w[<<j, f[j]>>]]
           u == [j \in S \ {k} |-> w[<<j, g[j]>>]]
<1>1. Worth(w, f) = SumFunctionOnSet(v, S) /\ Worth(w, g) = SumFunctionOnSet(u, S \ {k})
  BY DEF Worth, SumFunction
<1>2. (\A j \in S : v[j] \in Int) /\ v[k] = w[<<k, f[k]>>] /\ \A j \in S \ {k} : v[j] = u[j]
  BY DEF Priced, Agree
<1> HIDE DEF v, u
<1>3. SumFunctionOnSet(v, S) = v[k] + SumFunctionOnSet(v, S \ {k})
  BY <1>2, SumSplits
<1>4. IsFiniteSet(S \ {k})
  BY FS_Subset
<1>5. SumFunctionOnSet(v, S \ {k}) = SumFunctionOnSet(u, S \ {k})
  BY <1>2, <1>4, SumsAgree
<1> QED BY <1>1, <1>2, <1>3, <1>5 DEF Gains

LEMMA WorthJoins ==
    ASSUME NEW A, NEW S \in SUBSET A, IsFiniteSet(S), NEW k \in S, NEW n \in Nat, NEW g \in Injection(S \ {k}, 1..n),
           NEW w, Priced(w, A, 1..(n + 1))
    PROVE  \E f \in Injection(S, 1..(n + 1)) : f[k] = n + 1 /\ Gains(w, f, k, g)
<1> DEFINE B == 1..(n + 1)
           f == [j \in S |-> IF j = k THEN n + 1 ELSE g[j]]
<1>1. g \in [S \ {k} -> 1..n] /\ \A a, j \in S \ {k} : g[a] = g[j] => a = j
  BY DEF Injection, IsInjective
<1>2. n + 1 \in B /\ 1..n \subseteq B /\ n + 1 \notin 1..n /\ Priced(w, S, B)
  BY DEF Priced
<1> HIDE DEF B
<1>3. f \in [S -> B] /\ f[k] = n + 1 /\ g \in [S \ {k} -> B] /\ Agree(f, g, S \ {k})
  BY <1>1, <1>2 DEF Agree
<1>4. ASSUME NEW a \in S, NEW j \in S, f[a] = f[j] PROVE a = j
  <2>1. CASE a = k \/ j = k
    BY <1>1, <1>2, <1>4, <2>1
  <2>2. CASE a # k /\ j # k
    BY <1>1, <1>4, <2>2
  <2> QED BY <2>1, <2>2
<1> HIDE DEF f
<1>5. f \in Injection(S, B)
  BY <1>3, <1>4 DEF Injection, IsInjective
<1>6. Gains(w, f, k, g)
  BY <1>2, <1>3, WorthGrows
<1> QED BY <1>3, <1>5, <1>6 DEF B

(* The table of bit masks: r[s] is the most that an assignment of all of s *)
(* to some of the first n of the right is worth, -1 if there is none.      *)
BestOf(w, r, s, n) ==
    /\ r[s] \in Int
    /\ \A f \in Injection(s, 1..n) : Worth(w, f) <= r[s]
    /\ r[s] # -1 => \E f \in Injection(s, 1..n) : Worth(w, f) = r[s]

BestRow(w, r, A, n) == \A s \in SUBSET A : BestOf(w, r, s, n)

LEMMA FirstRow ==
    ASSUME NEW A, NEW w, NEW r, \A s \in SUBSET A : r[s] = IF s = {} THEN 0 ELSE -1
    PROVE  BestRow(w, r, A, 0)
<1>1. ASSUME NEW s \in SUBSET A PROVE BestOf(w, r, s, 0)
  <2>1. CASE s = {}
    <3>1. r[s] = 0
      BY <2>1
    <3>2. ASSUME NEW f \in Injection(s, 1..0) PROVE Worth(w, f) = 0
      <4>1. f \in [s -> 1..0] /\ IsFiniteSet(s)
        BY <2>1, FS_EmptySet DEF Injection
      <4>2. Worth(w, f) = SumFunctionOnSet([k \in s |-> w[<<k, f[k]>>]], s)
        BY <4>1 DEF Worth, SumFunction
      <4> QED BY <2>1, <4>1, <4>2, SumUnfolds DEF Unfolds
    <3>3. [k \in s |-> k] \in Injection(s, 1..0)
      BY <2>1 DEF Injection, IsInjective
    <3> QED BY <3>1, <3>2, <3>3 DEF BestOf
  <2>2. CASE s # {}
    <3>1. Injection(s, 1..0) = {}
      BY <2>2 DEF Injection
    <3> QED BY <2>2, <3>1 DEF BestOf
  <2> QED BY <2>1, <2>2
<1> QED BY <1>1 DEF BestRow

(* What the next of the right brings the set s: it takes the place of one  *)
(* of s, if the others had an assignment, or of none.                      *)
Offers(w, r, s, m) ==
    {r[s]} \cup {r[s \ {k}] + w[<<k, m>>] : k \in {j \in s : r[s \ {j}] # -1}}

LEMMA OffersAreNumbers ==
    ASSUME NEW A, NEW n, NEW m, NEW w, NEW r, BestRow(w, r, A, n),
           NEW s \in SUBSET A, IsFiniteSet(s), \A k \in A : w[<<k, m>>] \in Nat
    PROVE  Offers(w, r, s, m) \in SUBSET Int /\ IsFiniteSet(Offers(w, r, s, m)) /\ Offers(w, r, s, m) # {}
<1> DEFINE K == {j \in s : r[s \ {j}] # -1}
           brought == [k \in K |-> r[s \ {k}] + w[<<k, m>>]]
           C == {brought[k] : k \in K}
<1>1. \A t \in SUBSET A : r[t] \in Int
  BY DEF BestRow, BestOf
<1>2. \A k \in K : s \ {k} \in SUBSET A /\ k \in A
  OBVIOUS
<1>3. Offers(w, r, s, m) = {r[s]} \cup C
  BY DEF Offers
<1>4. \A k \in K : brought[k] \in Int
  BY <1>1, <1>2
<1>5. IsFiniteSet(K)
  BY FS_Subset
<1>6. brought \in Surjection(K, C)
  BY DEF Surjection
<1> HIDE DEF brought, K
<1>7. IsFiniteSet(C)
  BY <1>5, <1>6, FS_Surjection
<1>8. IsFiniteSet({r[s]})
  BY FS_Singleton
<1>9. IsFiniteSet({r[s]} \cup C)
  BY <1>7, <1>8, FS_Union
<1> QED BY <1>1, <1>3, <1>4, <1>9

LEMMA NextOfRow ==
    ASSUME NEW A, NEW n \in Nat, NEW w, NEW r, BestRow(w, r, A, n),
           NEW s \in SUBSET A, IsFiniteSet(s), Priced(w, A, 1..(n + 1)),
           NEW r2, r2[s] = Max(Offers(w, r, s, n + 1))
    PROVE  BestOf(w, r2, s, n + 1)
<1> DEFINE X == Offers(w, r, s, n + 1)
           B == 1..(n + 1)
<1>1. n + 1 \in B /\ 1..n \subseteq B /\ \A k \in A : w[<<k, n + 1>>] \in Nat
  BY DEF Priced
<1>2. X \in SUBSET Int /\ r2[s] \in X /\ \A y \in X : y <= r2[s]
  <2>1. X \in SUBSET Int /\ IsFiniteSet(X) /\ X # {}
    BY <1>1, OffersAreNumbers
  <2> HIDE DEF X
  <2>2. Max(X) \in X /\ \A y \in X : y <= Max(X)
    BY <2>1, MaxIsGreatest
  <2>3. r2[s] = Max(X)
    BY DEF X
  <2> QED BY <2>1, <2>2, <2>3
<1>3. \A t \in SUBSET A : BestOf(w, r, t, n)
  BY DEF BestRow
<1>4. \A f \in [s -> B] : Worth(w, f) \in Nat
  <2>1. Priced(w, s, B)
    BY DEF Priced
  <2> QED BY <2>1, WorthIsNat
<1>5. ASSUME NEW f \in Injection(s, B) PROVE Worth(w, f) <= r2[s]
  <2>1. f \in [s -> B] /\ \A a, j \in s : f[a] = f[j] => a = j
    BY DEF Injection, IsInjective
  <2>2. CASE \A k \in s : f[k] # n + 1
    <3>1. f \in Injection(s, 1..n)
      <4>1. \A k \in s : f[k] \in 1..n
        BY <2>1, <2>2
      <4> QED BY <2>1, <4>1 DEF Injection, IsInjective
    <3>2. Worth(w, f) <= r[s] /\ r[s] \in Int /\ r[s] \in X
      BY <1>3, <3>1 DEF BestOf, Offers
    <3> HIDE DEF X
    <3>3. r2[s] \in Int /\ r[s] <= r2[s]
      BY <1>2, <3>2
    <3>4. Worth(w, f) \in Int
      BY <1>4, <2>1
    <3> QED BY <3>2, <3>3, <3>4
  <2>3. CASE \E k \in s : f[k] = n + 1
    <3>1. PICK k \in s : f[k] = n + 1
      BY <2>3
    <3> DEFINE t == s \ {k}
               g == [j \in t |-> f[j]]
    <3>2. g \in Injection(t, 1..n)
      <4>1. \A j \in t : f[j] \in 1..n
        BY <2>1, <3>1
      <4> QED BY <2>1, <4>1 DEF Injection, IsInjective
    <3>3. Worth(w, f) = w[<<k, n + 1>>] + Worth(w, g)
      <4>1. g \in [s \ {k} -> B] /\ Agree(f, g, s \ {k})
        BY <2>1 DEF Agree
      <4>2. Priced(w, s, B)
        BY DEF Priced
      <4> HIDE DEF g, B
      <4>3. Gains(w, f, k, g)
        BY <2>1, <4>1, <4>2, WorthGrows
      <4> QED BY <3>1, <4>3 DEF Gains
    <3>4. Worth(w, g) \in Nat
      <4>1. g \in [t -> B] /\ IsFiniteSet(t) /\ Priced(w, t, B)
        BY <2>1, FS_Subset DEF Priced
      <4> HIDE DEF g, B, t
      <4> QED BY <4>1, WorthIsNat
    <3>5. t \in SUBSET A /\ r[t] \in Int /\ Worth(w, g) <= r[t]
      <4>1. t \in SUBSET A
        OBVIOUS
      <4> HIDE DEF t, g
      <4> QED BY <1>3, <3>2, <4>1 DEF BestOf
    <3>6. r[t] # -1
      <4> HIDE DEF t, g
      <4> QED BY <3>4, <3>5
    <3>7. r[t] + w[<<k, n + 1>>] \in X
      BY <3>6 DEF Offers
    <3>8. w[<<k, n + 1>>] \in Nat
      BY <1>1
    <3> HIDE DEF t, g, X
    <3>9. r[t] + w[<<k, n + 1>>] <= r2[s] /\ r2[s] \in Int
      BY <1>2, <3>7
    <3> QED BY <3>3, <3>4, <3>5, <3>8, <3>9
  <2> QED BY <2>2, <2>3
<1>6. ASSUME r2[s] # -1 PROVE \E f \in Injection(s, B) : Worth(w, f) = r2[s]
  <2>1. CASE r2[s] = r[s]
    <3>1. PICK f \in Injection(s, 1..n) : Worth(w, f) = r[s]
      BY <1>3, <1>6, <2>1 DEF BestOf
    <3>2. f \in Injection(s, B)
      BY <1>1 DEF Injection
    <3> QED BY <2>1, <3>1, <3>2
  <2>2. CASE \E k \in s : r[s \ {k}] # -1 /\ r2[s] = r[s \ {k}] + w[<<k, n + 1>>]
    <3>1. PICK k \in s : r[s \ {k}] # -1 /\ r2[s] = r[s \ {k}] + w[<<k, n + 1>>]
      BY <2>2
    <3> DEFINE t == s \ {k}
    <3>2. t \in SUBSET A /\ r[t] # -1
      BY <3>1
    <3> HIDE DEF t
    <3>3. PICK g \in Injection(t, 1..n) : Worth(w, g) = r[t]
      BY <1>3, <3>2 DEF BestOf
    <3>4. PICK f \in Injection(s, B) : f[k] = n + 1 /\ Gains(w, f, k, g)
      BY <3>3, WorthJoins DEF t
    <3>5. w[<<k, n + 1>>] \in Nat /\ r[t] \in Int
      BY <1>1, <1>3, <3>2 DEF BestOf
    <3>6. r2[s] = r[t] + w[<<k, n + 1>>]
      BY <3>1 DEF t
    <3> HIDE DEF B
    <3> QED BY <3>3, <3>4, <3>5, <3>6 DEF Gains
  <2> QED BY <1>2, <2>1, <2>2 DEF Offers
<1> QED BY <1>2, <1>5, <1>6 DEF BestOf

-----------------------------------------------------------------------------
(* The greedy fallback has gone through the pairs of tried, the best first, *)
(* and taken each of which both ends were free: whatever it passed over    *)
(* meets a pair that is worth no less.                                     *)
Matching(taken) == \A p, q \in taken : p[1] = q[1] \/ p[2] = q[2] => p = q

Met(w, taken, p) == \E q \in taken : (q[1] = p[1] \/ q[2] = p[2]) /\ w[p] <= w[q]

Greedy(w, taken, tried) ==
    taken \subseteq tried /\ Matching(taken) /\ \A p \in tried : Met(w, taken, p)

LEMMA GreedyStep ==
    ASSUME NEW w, NEW taken, NEW tried, Greedy(w, taken, tried), NEW p, w[p] \in Int,
           \A q \in tried : w[p] <= w[q],
           NEW next, next = IF \A q \in taken : q[1] # p[1] /\ q[2] # p[2] THEN taken \cup {p} ELSE taken
    PROVE  Greedy(w, next, tried \cup {p})
<1>1. taken \subseteq tried /\ Matching(taken) /\ (\A q \in tried : Met(w, taken, q)) /\ taken \subseteq next
  BY DEF Greedy
<1>2. next \subseteq tried \cup {p}
  BY <1>1
<1>3. Matching(next)
  <2>1. CASE next = taken
    BY <1>1, <2>1
  <2>2. CASE next = taken \cup {p} /\ \A q \in taken : q[1] # p[1] /\ q[2] # p[2]
    BY <1>1, <2>2 DEF Matching
  <2> QED BY <2>1, <2>2
<1>4. ASSUME NEW q \in tried PROVE Met(w, next, q)
  BY <1>1 DEF Met
<1>5. Met(w, next, p)
  <2>1. CASE \A q \in taken : q[1] # p[1] /\ q[2] # p[2]
    <3>1. p \in next /\ w[p] <= w[p]
      BY <2>1
    <3> QED BY <3>1 DEF Met
  <2>2. CASE \E q \in taken : q[1] = p[1] \/ q[2] = p[2]
    BY <1>1, <2>2 DEF Met
  <2> QED BY <2>1, <2>2
<1> QED BY <1>2, <1>3, <1>4, <1>5 DEF Greedy

TotalWorth(w, taken) == SumFunction([p \in taken |-> w[p]])

LEMMA GreedyIsFinite ==
    ASSUME NEW A, IsFiniteSet(A), NEW B, NEW w, NEW taken, Greedy(w, taken, A \X B)
    PROVE  IsFiniteSet(taken)
<1> DEFINE h == [p \in taken |-> p[1]]
<1>1. taken \subseteq A \X B /\ Matching(taken)
  BY DEF Greedy
<1>2. h \in Injection(taken, A)
  BY <1>1 DEF Injection, IsInjective, Matching
<1> HIDE DEF h
<1> QED BY <1>2, FS_Injection

(* The shorter list is used up.                                            *)
LEMMA GreedyIsFull ==
    ASSUME NEW A, IsFiniteSet(A), NEW B, IsFiniteSet(B), Cardinality(A) <= Cardinality(B),
           NEW w, NEW taken, Greedy(w, taken, A \X B), NEW k \in A
    PROVE  \E m \in B : <<k, m>> \in taken
<1>1. SUFFICES ASSUME \A m \in B : <<k, m>> \notin taken PROVE FALSE
  OBVIOUS
<1>2. taken \subseteq A \X B /\ Matching(taken) /\ \A p \in A \X B : Met(w, taken, p)
  BY DEF Greedy
<1>3. \A m \in B : \E l \in A \ {k} : <<l, m>> \in taken
  <2>1. ASSUME NEW m \in B PROVE \E l \in A \ {k} : <<l, m>> \in taken
    <3>1. PICK q \in taken : q[1] = k \/ q[2] = m
      <4>1. Met(w, taken, <<k, m>>)
        BY <1>2
      <4> QED BY <4>1 DEF Met
    <3>2. q = <<q[1], q[2]>> /\ q[1] \in A /\ q[2] \in B
      BY <1>2
    <3>3. q[1] # k
      BY <1>1, <3>2
    <3> QED BY <3>1, <3>2, <3>3
  <2> QED BY <2>1
<1> DEFINE h == [m \in B |-> CHOOSE l \in A \ {k} : <<l, m>> \in taken]
<1>4. \A m \in B : h[m] \in A \ {k} /\ <<h[m], m>> \in taken
  BY <1>3
<1>5. h \in [B -> A \ {k}]
  BY <1>4
<1> HIDE DEF h
<1>6. ASSUME NEW m \in B, NEW n \in B, h[m] = h[n] PROVE m = n
  BY <1>2, <1>4, <1>6 DEF Matching
<1>7. h \in Injection(B, A \ {k})
  BY <1>5, <1>6 DEF Injection, IsInjective
<1>8. /\ IsFiniteSet(A \ {k}) /\ Cardinality(A \ {k}) = Cardinality(A) - 1
      /\ Cardinality(A) \in Nat /\ Cardinality(B) \in Nat
  BY FS_RemoveElement, FS_CardinalityType
<1>9. Cardinality(B) <= Cardinality(A \ {k})
  BY <1>7, <1>8, FS_Injection
<1> QED BY <1>8, <1>9

(* What it takes is an assignment itself.                                  *)
LEMMA GreedyIsNoMore ==
    ASSUME NEW A, IsFiniteSet(A), NEW B, IsFiniteSet(B), Cardinality(A) <= Cardinality(B),
           NEW w, Priced(w, A, B), NEW taken, Greedy(w, taken, A \X B)
    PROVE  \E f \in Injection(A, B) : TotalWorth(w, taken) <= Worth(w, f)
<1> DEFINE f == [k \in A |-> CHOOSE m \in B : <<k, m>> \in taken]
           v == [p \in taken |-> w[p]]
           u == [k \in A |-> w[<<k, f[k]>>]]
           h == [p \in taken |-> p[1]]
<1>1. taken \subseteq A \X B /\ Matching(taken) /\ IsFiniteSet(taken)
  BY GreedyIsFinite DEF Greedy
<1>2. \A k \in A : f[k] \in B /\ <<k, f[k]>> \in taken
  BY GreedyIsFull
<1>3. f \in [A -> B]
  BY <1>2
<1> HIDE DEF f
<1>4. f \in Injection(A, B)
  <2>1. ASSUME NEW k \in A, NEW l \in A, f[k] = f[l] PROVE k = l
    BY <1>1, <1>2, <2>1 DEF Matching
  <2> QED BY <1>3, <2>1 DEF Injection, IsInjective
<1>5. Worth(w, f) = SumFunctionOnSet(u, A) /\ TotalWorth(w, taken) = SumFunctionOnSet(v, taken)
  BY <1>3 DEF Worth, TotalWorth, SumFunction
<1>6. ASSUME NEW p \in taken PROVE p[1] \in A /\ p = <<p[1], f[p[1]]>>
  <2>1. p \in A \X B
    BY <1>1
  <2>2. p = <<p[1], p[2]>> /\ p[1] \in A
    BY <2>1
  <2>3. <<p[1], f[p[1]]>> \in taken
    BY <1>2, <2>2
  <2> QED BY <1>1, <2>2, <2>3 DEF Matching
<1>7. \A p \in taken : v[p] \in Int
  BY <1>1 DEF Priced
<1>8. \A k \in A : u[k] \in Nat
  BY <1>2 DEF Priced
<1>9. h \in [taken -> A] /\ \A p, q \in taken : h[p] = h[q] => p = q
  BY <1>6
<1>10. \A p \in taken : v[p] <= u[h[p]]
  <2>1. ASSUME NEW p \in taken PROVE v[p] = u[h[p]] /\ v[p] \in Int
    BY <1>6, <1>7
  <2> HIDE DEF u, v, h
  <2> QED BY <2>1
<1> HIDE DEF u, v, h
<1>11. SumFunctionOnSet(v, taken) <= SumFunctionOnSet(u, A)
  BY <1>1, <1>7, <1>8, <1>9, <1>10, SumInjected
<1> QED BY <1>4, <1>5, <1>11

(* And no assignment is worth more than twice of it: a pair that it has    *)
(* passed over meets a pair it took by one end or by the other.            *)
LEMMA GreedyIsHalf ==
    ASSUME NEW A, IsFiniteSet(A), NEW B, NEW w, Priced(w, A, B),
           NEW taken, Greedy(w, taken, A \X B), NEW f \in Injection(A, B)
    PROVE  Worth(w, f) <= TotalWorth(w, taken) + TotalWorth(w, taken)
<1> DEFINE v == [k \in A |-> w[<<k, f[k]>>]]
           u == [p \in taken |-> w[p]]
           At(k) == \E q \in taken : q[1] = k /\ w[<<k, f[k]>>] <= w[q]
           L == {k \in A : At(k)}
           R == A \ L
           l == [k \in L |-> CHOOSE q \in taken : q[1] = k /\ w[<<k, f[k]>>] <= w[q]]
           r == [k \in R |-> CHOOSE q \in taken : q[2] = f[k] /\ w[<<k, f[k]>>] <= w[q]]
<1>1. taken \subseteq A \X B /\ Matching(taken) /\ IsFiniteSet(taken) /\ \A p \in A \X B : Met(w, taken, p)
  BY GreedyIsFinite DEF Greedy
<1>2. f \in [A -> B] /\ \A a, j \in A : f[a] = f[j] => a = j
  BY DEF Injection, IsInjective
<1>3. Worth(w, f) = SumFunctionOnSet(v, A) /\ TotalWorth(w, taken) = SumFunctionOnSet(u, taken)
  BY <1>2 DEF Worth, TotalWorth, SumFunction
<1>4. (\A k \in A : v[k] \in Int) /\ \A p \in taken : u[p] \in Nat
  BY <1>1, <1>2 DEF Priced
<1>5. \A k \in L : l[k] \in taken /\ l[k][1] = k /\ v[k] <= u[l[k]]
  <2>1. ASSUME NEW k \in L PROVE l[k] \in taken /\ l[k][1] = k /\ v[k] <= u[l[k]]
    <3>1. l[k] \in taken /\ l[k][1] = k /\ w[<<k, f[k]>>] <= w[l[k]]
      OBVIOUS
    <3> HIDE DEF l
    <3> QED BY <3>1
  <2> QED BY <2>1
<1>6. \A k \in R : r[k] \in taken /\ r[k][2] = f[k] /\ v[k] <= u[r[k]]
  <2>1. ASSUME NEW k \in R PROVE r[k] \in taken /\ r[k][2] = f[k] /\ v[k] <= u[r[k]]
    <3>1. Met(w, taken, <<k, f[k]>>) /\ ~At(k)
      BY <1>1, <1>2
    <3>2. \E q \in taken : q[2] = f[k] /\ w[<<k, f[k]>>] <= w[q]
      BY <3>1 DEF Met
    <3>3. r[k] \in taken /\ r[k][2] = f[k] /\ w[<<k, f[k]>>] <= w[r[k]]
      BY <3>2
    <3> HIDE DEF r
    <3> QED BY <3>3
  <2> QED BY <2>1
<1>7. l \in [L -> taken] /\ r \in [R -> taken]
  BY <1>5, <1>6
<1>8. L \in SUBSET A /\ R \in SUBSET A /\ A \ L = R
  OBVIOUS
<1> HIDE DEF u, v, l, r, L, R
<1>9. IsFiniteSet(L) /\ IsFiniteSet(R) /\ (\A k \in L : v[k] \in Int) /\ \A k \in R : v[k] \in Int
  BY <1>4, <1>8, FS_Subset
<1>10. SumFunctionOnSet(v, L) <= SumFunctionOnSet(u, taken)
  <2>1. (\A a, j \in L : l[a] = l[j] => a = j) /\ \A k \in L : v[k] <= u[l[k]]
    BY <1>5
  <2> QED BY <1>1, <1>4, <1>7, <1>9, <2>1, SumInjected
<1>11. SumFunctionOnSet(v, R) <= SumFunctionOnSet(u, taken)
  <2>1. (\A a, j \in R : r[a] = r[j] => a = j) /\ \A k \in R : v[k] <= u[r[k]]
    BY <1>2, <1>6, <1>8
  <2> QED BY <1>1, <1>4, <1>7, <1>9, <2>1, SumInjected
<1>12. SumFunctionOnSet(v, A) = SumFunctionOnSet(v, L) + SumFunctionOnSet(v, A \ L)
  BY <1>4, <1>8, SumOfParts
<1>13. SumFunctionOnSet(v, L) \in Int /\ SumFunctionOnSet(v, R) \in Int /\ SumFunctionOnSet(u, taken) \in Nat
  BY <1>1, <1>4, <1>9, SumStaysIn
<1>14. SumFunctionOnSet(v, A) = SumFunctionOnSet(v, L) + SumFunctionOnSet(v, R)
  BY <1>8, <1>12
<1>15. SumFunctionOnSet(v, A) <= SumFunctionOnSet(u, taken) + SumFunctionOnSet(u, taken)
  BY <1>10, <1>11, <1>13, <1>14
<1> QED BY <1>3, <1>15

-----------------------------------------------------------------------------
(* The similarities as the function the lemmas speak of.                   *)
worth == [p \in Pairs |-> Alike(p[1], p[2])]

Credits ==
    \E m, n \in 1..MaxArtists :
        /\ text = <<[k \in 1..m |-> k], [k \in 1..n |-> k]>>
        /\ grade \in [(1..m) \X (1..n) -> Grades]

Loaded ==
    /\ left = IF Swapped THEN text[2] ELSE text[1]
    /\ right = IF Swapped THEN text[1] ELSE text[2]

AssignInv ==
    task = "assign" =>
        /\ Credits /\ maskLimit \in Nat
        /\ stage \in {"start", "masks", "greedy", "done"}
        /\ stage # "start" => Loaded
        /\ stage = "masks" =>
              /\ Len(left) <= maskLimit /\ at \in 0..Len(right)
              /\ DOMAIN row = SUBSET DOMAIN left /\ BestRow(worth, row, DOMAIN left, at)
        /\ stage = "greedy" =>
              /\ ~(Len(left) <= maskLimit) /\ (at = 0 \/ at \in 1..Cardinality(Pairs))
              /\ Greedy(worth, row, {Sorted(k) : k \in 1..at})
        /\ AssignmentIsBest

LEMMA LoadedLists ==
    ASSUME Credits, Loaded
    PROVE  /\ Len(left) \in Nat \ {0} /\ DOMAIN left = 1..Len(left) /\ IsFiniteSet(DOMAIN left)
           /\ Len(right) \in Nat \ {0} /\ DOMAIN right = 1..Len(right) /\ IsFiniteSet(DOMAIN right)
           /\ Cardinality(DOMAIN left) = Len(left) /\ Cardinality(DOMAIN right) = Len(right)
           /\ Len(left) <= Len(right)
           /\ \A k \in DOMAIN left, m \in DOMAIN right : Alike(k, m) \in Nat
           /\ Priced(worth, DOMAIN left, DOMAIN right)
           /\ IsFiniteSet(Pairs)
<1>1. PICK m \in 1..MaxArtists, n \in 1..MaxArtists :
          /\ text = <<[k \in 1..m |-> k], [k \in 1..n |-> k]>>
          /\ grade \in [(1..m) \X (1..n) -> Grades]
  BY DEF Credits
<1> DEFINE upTo(l) == [k \in 1..l |-> k]
<1>2. m \in Nat \ {0} /\ n \in Nat \ {0}
  BY SimilarityAssumption
<1>3. \A l \in Nat : Len(upTo(l)) = l /\ DOMAIN upTo(l) = 1..l
  <2>1. ASSUME NEW l \in Nat PROVE Len(upTo(l)) = l /\ DOMAIN upTo(l) = 1..l
    <3>1. upTo(l) \in Seq(1..l) /\ DOMAIN upTo(l) = 1..l
      OBVIOUS
    <3> QED BY <3>1, LenProperties
  <2> QED BY <2>1
<1>4. text[1] = upTo(m) /\ text[2] = upTo(n)
  BY <1>1
<1> HIDE DEF upTo
<1>5. Len(text[1]) = m /\ Len(text[2]) = n /\ (Swapped <=> m > n)
  BY <1>2, <1>3, <1>4 DEF Swapped
<1>6. /\ Len(left) = IF Swapped THEN n ELSE m
      /\ Len(right) = IF Swapped THEN m ELSE n
      /\ DOMAIN left = 1..Len(left) /\ DOMAIN right = 1..Len(right)
  BY <1>2, <1>3, <1>4 DEF Loaded
<1>7. /\ Len(left) \in Nat \ {0} /\ Len(right) \in Nat \ {0} /\ Len(left) <= Len(right)
  BY <1>2, <1>5, <1>6
<1>8. /\ IsFiniteSet(DOMAIN left) /\ Cardinality(DOMAIN left) = Len(left)
      /\ IsFiniteSet(DOMAIN right) /\ Cardinality(DOMAIN right) = Len(right)
  BY <1>6, <1>7, FS_Interval
<1>9. ASSUME NEW k \in DOMAIN left, NEW l \in DOMAIN right PROVE Alike(k, l) \in Nat
  <2>1. \A p \in (1..m) \X (1..n) : grade[p] \in Nat
    BY <1>1, SimilarityAssumption
  <2>2. CASE Swapped
    BY <1>6, <2>1, <2>2 DEF Alike
  <2>3. CASE ~Swapped
    BY <1>6, <2>1, <2>3 DEF Alike
  <2> QED BY <2>2, <2>3
<1>10. Priced(worth, DOMAIN left, DOMAIN right)
  BY <1>9 DEF Priced, worth, Pairs
<1>11. IsFiniteSet(Pairs)
  BY <1>8, FS_Product DEF Pairs
<1> QED BY <1>6, <1>7, <1>8, <1>9, <1>10, <1>11

(* The pairs in order, each of them, the most alike first.                 *)
LEMMA SortedPairs ==
    ASSUME Credits, Loaded
    PROVE  /\ \A k \in 1..Cardinality(Pairs) : Sorted(k) \in Pairs
           /\ \A k, n \in 1..Cardinality(Pairs) : k < n => worth[Sorted(n)] <= worth[Sorted(k)]
           /\ {Sorted(k) : k \in 1..Cardinality(Pairs)} = Pairs
<1> DEFINE R == {pq \in Pairs \X Pairs : Precedes(pq[1], pq[2])}
           size == Cardinality(Pairs)
<1>1. /\ IsFiniteSet(Pairs) /\ size \in Nat
      /\ \A p \in Pairs : p[1] \in Nat /\ p[2] \in Nat /\ Alike(p[1], p[2]) \in Nat /\ p = <<p[1], p[2]>>
  BY LoadedLists, FS_CardinalityType DEF Pairs
<1>2. \A p, q \in Pairs : <<p, q>> \in R <=> Precedes(p, q)
  OBVIOUS
<1> HIDE DEF R, size
<1>3. StrictTotal(R, Pairs)
  <2>1. ASSUME NEW p \in Pairs PROVE ~Precedes(p, p)
    BY <1>1 DEF Precedes
  <2>2. ASSUME NEW p \in Pairs, NEW q \in Pairs, NEW u \in Pairs, Precedes(p, q), Precedes(q, u)
        PROVE  Precedes(p, u)
    BY <1>1, <2>2 DEF Precedes
  <2>3. ASSUME NEW p \in Pairs, NEW q \in Pairs PROVE p = q \/ Precedes(p, q) \/ Precedes(q, p)
    BY <1>1 DEF Precedes
  <2> QED BY <1>2, <2>1, <2>2, <2>3 DEF StrictTotal
<1>4. PICK f : f \in Sortings(R, Pairs)
  BY <1>1, <1>3, SortingExists
<1>5. f \in [1..size -> Pairs] /\ \A a, j \in 1..size : a < j => <<f[a], f[j]>> \in R
  BY <1>4 DEF Sortings, size
<1> DEFINE Before(p) == {q \in Pairs : Precedes(q, p)}
<1>6. ASSUME NEW k \in 1..size PROVE Cardinality(Before(f[k])) = k - 1
  <2>1. Before(f[k]) = {q \in Pairs : <<q, f[k]>> \in R}
    BY <1>2, <1>5
  <2>2. Cardinality({q \in Pairs : <<q, f[k]>> \in R}) = k - 1
    BY <1>1, <1>3, <1>4, PlaceInSorting DEF size
  <2> QED BY <2>1, <2>2
<1>7. ASSUME NEW k \in 1..size PROVE Sorted(k) = f[k]
  <2>1. f[k] \in Pairs /\ Cardinality(Before(f[k])) = k - 1
    BY <1>5, <1>6
  <2>2. Sorted(k) \in Pairs /\ Cardinality(Before(Sorted(k))) = k - 1
    BY <2>1 DEF Sorted
  <2>3. PICK j \in 1..size : f[j] = Sorted(k)
    BY <1>1, <1>3, <1>4, <2>2, SortingCovers DEF size
  <2>4. j - 1 = k - 1
    BY <1>6, <2>2, <2>3
  <2> QED BY <1>1, <2>3, <2>4
<1>8. ASSUME NEW k \in 1..size, NEW n \in 1..size, k < n PROVE worth[Sorted(n)] <= worth[Sorted(k)]
  <2>1. f[k] \in Pairs /\ f[n] \in Pairs /\ Precedes(f[k], f[n])
    BY <1>2, <1>5, <1>8
  <2>2. worth[f[n]] <= worth[f[k]]
    BY <1>1, <2>1 DEF Precedes, worth
  <2> QED BY <1>7, <2>2
<1>9. \A p \in Pairs : \E k \in 1..size : Sorted(k) = p
  <2>1. \A p \in Pairs : \E k \in 1..size : f[k] = p
    BY <1>1, <1>3, <1>4, SortingCovers DEF size
  <2> QED BY <1>7, <2>1
<1>10. \A k \in 1..size : Sorted(k) \in Pairs
  BY <1>5, <1>7
<1> QED BY <1>8, <1>9, <1>10 DEF size

LEMMA AssignInitHolds == TextInit => AssignInv
<1> SUFFICES ASSUME TextInit, task = "assign" PROVE AssignInv
  BY DEF AssignInv
<1>1. /\ stage = "start" /\ maskLimit \in Nat
      /\ \E m, n \in 1..MaxArtists :
            /\ text = <<[k \in 1..m |-> k], [k \in 1..n |-> k]>>
            /\ grade \in [(1..m) \X (1..n) -> Grades]
  BY SimilarityAssumption DEF TextInit
<1> QED BY <1>1 DEF AssignInv, Credits, AssignmentIsBest

(* Nothing else is changed by the loops.                                   *)
SameInputs == UNCHANGED <<task, text, grade, maskLimit>>

LEMMA BeginKeeps == ASSUME AssignInv, Begin, task = "assign" PROVE AssignInv'
<1>1. /\ stage = "start" /\ at' = 0 /\ SameInputs /\ Credits /\ maskLimit \in Nat
  BY DEF AssignInv, Begin, SameInputs
<1>2. Credits' /\ maskLimit' \in Nat /\ Loaded'
  BY <1>1 DEF Begin, SameInputs, Credits, Loaded, Swapped
<1>3. /\ Len(left') \in Nat /\ Len(right') \in Nat
  BY <1>2, LoadedLists
<1>4. CASE Len(left') <= maskLimit
  <2>1. /\ stage' = "masks"
        /\ row' = NoneAssigned(left')
    <3>1. ~(Len(left') > maskLimit)
      BY <1>1, <1>3, <1>4
    <3> QED BY <3>1, <1>4 DEF Begin
  <2>2. BestRow(worth', row', DOMAIN left', at')
    <3>1. \A s \in SUBSET DOMAIN left' : row'[s] = IF s = {} THEN 0 ELSE -1
      BY <2>1 DEF Unreached, NoneAssigned
    <3> QED BY <1>1, <3>1, FirstRow
  <2>3. DOMAIN row' = SUBSET DOMAIN left' /\ at' \in 0..Len(right') /\ Len(left') <= maskLimit'
    BY <1>1, <1>3, <1>4, <2>1 DEF SameInputs, NoneAssigned
  <2> QED BY <1>2, <2>1, <2>2, <2>3 DEF AssignInv, AssignmentIsBest
<1>5. CASE ~(Len(left') <= maskLimit)
  <2>1. stage' = "greedy" /\ row' = {}
    <3>1. Len(left') > maskLimit
      BY <1>1, <1>3, <1>5
    <3> QED BY <3>1, <1>5 DEF Begin
  <2>2. {Sorted(k) : k \in 1..at}' = {}
    BY <1>1
  <2>3. Greedy(worth', row', {Sorted(k) : k \in 1..at}')
    BY <2>1, <2>2 DEF Greedy, Matching
  <2>4. ~(Len(left') <= maskLimit')
    BY <1>1, <1>5 DEF SameInputs
  <2> QED BY <1>1, <1>2, <2>1, <2>3, <2>4 DEF AssignInv, AssignmentIsBest
<1> QED BY <1>4, <1>5

LEMMA AssignRightKeeps == ASSUME AssignInv, AssignRight, task = "assign" PROVE AssignInv'
<1> DEFINE A == DOMAIN left
           B == DOMAIN right
<1>1. /\ stage = "masks" /\ SameInputs /\ left' = left /\ right' = right
  BY DEF AssignRight, Iterate, Finish, Return, SameInputs
<1>2. /\ Credits /\ Loaded /\ maskLimit \in Nat /\ Len(left) <= maskLimit /\ at \in 0..Len(right)
      /\ DOMAIN row = SUBSET A /\ BestRow(worth, row, A, at)
  BY <1>1 DEF AssignInv
<1>3. Credits' /\ Loaded' /\ maskLimit' \in Nat /\ worth' = worth
  BY <1>1, <1>2 DEF Credits, Loaded, Swapped, SameInputs, worth, Alike, Pairs
<1>4. /\ Len(left) \in Nat /\ Len(right) \in Nat /\ Len(left) <= Len(right)
      /\ A = 1..Len(left) /\ B = 1..Len(right) /\ IsFiniteSet(A) /\ Priced(worth, A, B)
  BY <1>2, LoadedLists
<1>5. CASE at < Len(right) /\ at' = at + 1 /\ Iterate(Masks(at + 1))
  <2>1. /\ row' = Masks(at + 1) /\ stage' = stage /\ at + 1 \in 1..Len(right) /\ at \in Nat
    BY <1>2, <1>4, <1>5 DEF Iterate
  <2>2. ASSUME NEW s \in SUBSET A PROVE row'[s] = Max(Offers(worth, row, s, at + 1))
    <3>1. \A k \in s : worth[<<k, at + 1>>] = Alike(k, at + 1)
      BY <1>4, <2>1 DEF worth, Pairs
    <3>2. Offers(worth, row, s, at + 1) =
              {row[s]} \cup {row[s \ {k}] + Alike(k, at + 1) : k \in {j \in s : row[s \ {j}] # -1}}
      BY <3>1 DEF Offers
    <3> QED BY <1>2, <2>1, <3>2 DEF Masks, Unreached
  <2>3. BestRow(worth, row', A, at + 1)
    <3>1. ASSUME NEW s \in SUBSET A PROVE BestOf(worth, row', s, at + 1)
      <4>1. IsFiniteSet(s) /\ Priced(worth, A, 1..(at + 1))
        BY <1>4, <2>1, FS_Subset DEF Priced
      <4> HIDE DEF A
      <4> QED BY <1>2, <2>1, <2>2, <4>1, NextOfRow
    <3> QED BY <3>1 DEF BestRow
  <2>4. DOMAIN row' = SUBSET A
    BY <1>2, <2>1 DEF Masks
  <2>5. /\ stage' = "masks" /\ Len(left') <= maskLimit' /\ at' \in 0..Len(right')
        /\ DOMAIN row' = SUBSET DOMAIN left' /\ BestRow(worth', row', DOMAIN left', at')
    BY <1>1, <1>2, <1>3, <1>4, <1>5, <2>1, <2>3, <2>4 DEF SameInputs
  <2> QED BY <1>3, <2>5 DEF AssignInv, AssignmentIsBest
<1>6. CASE at = Len(right) /\ Finish(row[A]) /\ Return
  <2>1. answer' = row[A] /\ stage' = "done"
    BY <1>6 DEF Finish
  <2>2. BestOf(worth, row, A, Len(right))
    BY <1>2, <1>6 DEF BestRow
  <2>3. row[A] = Best
    <3> DEFINE V == {Worth(worth, f) : f \in Injection(A, B)}
    <3>1. ASSUME NEW f \in Injection(A, B)
          PROVE  Worth(worth, f) = SumFunction([k \in A |-> Alike(k, f[k])]) /\ Worth(worth, f) \in Nat
      <4>1. f \in [A -> B]
        BY DEF Injection
      <4>2. [k \in DOMAIN f |-> worth[<<k, f[k]>>]] = [k \in A |-> Alike(k, f[k])]
        BY <4>1 DEF worth, Pairs
      <4>3. Worth(worth, f) \in Nat
        BY <1>4, <4>1, WorthIsNat
      <4> QED BY <4>2, <4>3 DEF Worth
    <3>2. Best = Max(V)
      <4>1. V = {SumFunction([k \in A |-> Alike(k, f[k])]) : f \in Injection(A, B)}
        BY <3>1
      <4> QED BY <4>1 DEF Best
    <3>3. [k \in A |-> k] \in Injection(A, B)
      BY <1>4 DEF Injection, IsInjective
    <3>4. row[A] \in Int /\ (\A y \in V : y <= row[A]) /\ (row[A] # -1 => row[A] \in V)
      BY <1>4, <2>2 DEF BestOf
    <3>5. V \in SUBSET Int /\ \E y \in V : y \in Nat
      <4> DEFINE same == [k \in A |-> k]
      <4>1. same \in Injection(A, B)
        BY <3>3
      <4>2. \A y \in V : y \in Nat
        BY <3>1
      <4> HIDE DEF same, A, B
      <4>3. Worth(worth, same) \in V
        BY <4>1
      <4> HIDE DEF V
      <4> QED BY <4>2, <4>3
    <3> HIDE DEF V, A
    <3>6. row[A] \in V
      BY <3>4, <3>5
    <3> QED BY <3>2, <3>4, <3>5, <3>6, MaxIsThat
  <2>4. Best' = Best
    BY <1>1 DEF Best, Alike, Swapped, SameInputs
  <2>5. Len(left') <= maskLimit' /\ answer' = Best'
    BY <1>1, <1>2, <2>1, <2>3, <2>4 DEF SameInputs
  <2> QED BY <1>3, <2>1, <2>5 DEF AssignInv, AssignmentIsBest
<1> QED BY <1>5, <1>6 DEF AssignRight

LEMMA GreedyPairKeeps == ASSUME AssignInv, GreedyPair, task = "assign" PROVE AssignInv'
<1> DEFINE A == DOMAIN left
           B == DOMAIN right
           size == Cardinality(Pairs)
           tried == {Sorted(k) : k \in 1..at}
<1>1. /\ stage = "greedy" /\ SameInputs /\ left' = left /\ right' = right
  BY DEF GreedyPair, Iterate, Finish, Return, SameInputs
<1>2. /\ Credits /\ Loaded /\ maskLimit \in Nat /\ ~(Len(left) <= maskLimit) /\ (at = 0 \/ at \in 1..size)
      /\ Greedy(worth, row, tried)
  BY <1>1 DEF AssignInv
<1>3. Credits' /\ Loaded' /\ maskLimit' \in Nat /\ worth' = worth /\ Pairs' = Pairs
  BY <1>1, <1>2 DEF Credits, Loaded, Swapped, SameInputs, worth, Alike, Pairs
<1>4. /\ IsFiniteSet(A) /\ IsFiniteSet(B) /\ Cardinality(A) <= Cardinality(B) /\ Priced(worth, A, B)
      /\ size \in Nat /\ Pairs = A \X B /\ A = 1..Len(left) /\ B = 1..Len(right)
      /\ Len(left) \in Nat /\ Len(right) \in Nat /\ Len(left) <= Len(right)
  BY <1>2, LoadedLists, FS_CardinalityType DEF Pairs
<1>5. /\ \A k \in 1..size : Sorted(k) \in Pairs
      /\ \A k, n \in 1..size : k < n => worth[Sorted(n)] <= worth[Sorted(k)]
      /\ {Sorted(k) : k \in 1..size} = Pairs
  BY <1>2, SortedPairs
<1>6. ASSUME NEW k PROVE Sorted(k)' = Sorted(k)
  BY <1>1 DEF Sorted, Precedes, Alike, Swapped, Pairs, SameInputs
<1>7. CASE at < Cardinality(Pairs) /\ at' = at + 1
           /\ LET p == Sorted(at + 1) IN Iterate(IF Free(p) THEN row \cup {p} ELSE row)
  <2> DEFINE p == Sorted(at + 1)
  <2>1. row' = (IF Free(p) THEN row \cup {p} ELSE row) /\ stage' = "greedy"
    BY <1>1, <1>7 DEF Iterate
  <2>2. at \in Nat /\ at + 1 \in 1..size /\ \A k \in 1..at : k \in 1..size /\ k < at + 1
    <3>1. (at = 0 \/ at \in 1..size) /\ at < size /\ size \in Nat
      BY <1>2, <1>4, <1>7
    <3> HIDE DEF size
    <3> QED BY <3>1
  <2>3. worth[p] \in Int /\ \A q \in tried : worth[p] <= worth[q]
    <3>1. p \in Pairs
      BY <1>5, <2>2
    <3>2. worth[p] \in Int
      BY <1>4, <3>1 DEF Priced
    <3> QED BY <1>5, <2>2, <3>2
  <2>4. Greedy(worth, row', tried \cup {p})
    <3>1. row' = IF \A q \in row : q[1] # p[1] /\ q[2] # p[2] THEN row \cup {p} ELSE row
      BY <2>1 DEF Free
    <3> HIDE DEF p, tried
    <3> QED BY <1>2, <2>3, <3>1, GreedyStep
  <2>5. tried \cup {p} = {Sorted(k) : k \in 1..(at + 1)}
    <3>1. \A k : k \in 1..(at + 1) <=> k \in 1..at \/ k = at + 1
      BY <2>2
    <3> QED BY <3>1
  <2>6. {Sorted(k) : k \in 1..at}' = {Sorted(k) : k \in 1..(at + 1)}
    BY <1>6, <1>7
  <2>7. Greedy(worth', row', {Sorted(k) : k \in 1..at}')
    BY <1>3, <2>4, <2>5, <2>6
  <2>8. ~(Len(left') <= maskLimit') /\ at' \in 1..Cardinality(Pairs')
    BY <1>1, <1>2, <1>3, <1>7, <2>2 DEF SameInputs
  <2> QED BY <1>3, <2>1, <2>7, <2>8 DEF AssignInv, AssignmentIsBest
<1>8. CASE at = Cardinality(Pairs) /\ Finish(Total(row)) /\ Return
  <2>1. answer' = Total(row) /\ stage' = "done"
    BY <1>8 DEF Finish
  <2>2. Greedy(worth, row, A \X B)
    BY <1>2, <1>4, <1>5, <1>8
  <2>3. Total(row) = TotalWorth(worth, row) /\ Total(row) \in Nat
    <3>1. row \subseteq A \X B /\ IsFiniteSet(row)
      BY <1>4, <2>2, GreedyIsFinite DEF Greedy
    <3>2. [q \in row |-> Alike(q[1], q[2])] = [q \in row |-> worth[q]]
      BY <1>4, <3>1 DEF worth
    <3>3. \A q \in row : [u \in row |-> worth[u]][q] \in Nat
      BY <3>1, <1>4 DEF Priced
    <3>4. SumFunctionOnSet([q \in row |-> worth[q]], row) \in Nat
      BY <3>1, <3>3, SumStaysIn
    <3> QED BY <3>2, <3>4 DEF Total, TotalWorth, SumFunction
  <2> DEFINE V == {Worth(worth, f) : f \in Injection(A, B)}
             total == Total(row)
  <2>4. PICK g \in Injection(A, B) : total <= Worth(worth, g)
    BY <1>4, <2>2, <2>3, GreedyIsNoMore
  <2>5. \A y \in V : y <= total + total
    BY <1>4, <2>2, <2>3, GreedyIsHalf
  <2>6. ASSUME NEW f \in Injection(A, B)
        PROVE  Worth(worth, f) = SumFunction([k \in A |-> Alike(k, f[k])]) /\ Worth(worth, f) \in Nat
    <3>1. f \in [A -> B]
      BY DEF Injection
    <3>2. [k \in DOMAIN f |-> worth[<<k, f[k]>>]] = [k \in A |-> Alike(k, f[k])]
      BY <3>1 DEF worth, Pairs
    <3>3. Worth(worth, f) \in Nat
      BY <1>4, <3>1, WorthIsNat
    <3> QED BY <3>2, <3>3 DEF Worth
  <2>7. Best = Max(V)
    <3>1. V = {SumFunction([k \in A |-> Alike(k, f[k])]) : f \in Injection(A, B)}
      BY <2>6
    <3> QED BY <3>1 DEF Best
  <2>8. V \in SUBSET Nat /\ V \in SUBSET (0..(total + total)) /\ Worth(worth, g) \in V
    <3>1. \A y \in V : y \in Nat
      BY <2>6
    <3>2. Worth(worth, g) \in V
      OBVIOUS
    <3> HIDE DEF V, total
    <3> QED BY <2>3, <2>5, <3>1, <3>2 DEF total
  <2> HIDE DEF V, total
  <2>9. Max(V) \in V /\ \A y \in V : y <= Max(V)
    <3>1. IsFiniteSet(0..(total + total))
      BY <2>3, FS_Interval DEF total
    <3>2. IsFiniteSet(V)
      BY <2>8, <3>1, FS_Subset
    <3>3. V \in SUBSET Int /\ V # {}
      BY <2>8
    <3> QED BY <3>2, <3>3, MaxIsGreatest
  <2>10. total <= Best /\ 2 * total >= Best
    <3>1. Best \in V /\ Worth(worth, g) \in V /\ Worth(worth, g) <= Best
      BY <2>7, <2>8, <2>9
    <3>2. Best \in Nat /\ Worth(worth, g) \in Nat
      BY <2>8, <3>1
    <3>3. Best <= total + total
      BY <2>5, <3>1
    <3> QED BY <2>3, <2>4, <3>1, <3>2, <3>3 DEF total
  <2>11. answer' <= Best' /\ 2 * answer' >= Best'
    BY <1>1, <2>1, <2>10 DEF Best, Alike, Swapped, SameInputs, total
  <2> QED BY <1>1, <1>2, <1>3, <2>1, <2>11 DEF AssignInv, AssignmentIsBest, SameInputs
<1> QED BY <1>7, <1>8 DEF GreedyPair

LEMMA AssignStepKeeps == AssignInv /\ [TextNext]_textVars => AssignInv'
<1> SUFFICES ASSUME AssignInv, [TextNext]_textVars PROVE AssignInv'
  OBVIOUS
<1>1. task' = task
  BY DEF TextNext, Begin, AssignRight, GreedyPair, EditRow, MergeWords, Iterate, Return, textVars
<1>2. CASE task # "assign"
  BY <1>1, <1>2 DEF AssignInv
<1>3. CASE task = "assign"
  <2>1. stage \notin {"edit", "dice"}
    BY <1>3 DEF AssignInv
  <2>2. CASE Begin
    BY <1>3, <2>2, BeginKeeps
  <2>3. CASE AssignRight
    BY <1>3, <2>3, AssignRightKeeps
  <2>4. CASE GreedyPair
    BY <1>3, <2>4, GreedyPairKeeps
  <2>5. CASE EditRow \/ MergeWords
    BY <2>1, <2>5 DEF EditRow, MergeWords
  <2>6. CASE UNCHANGED textVars
    <3>1. /\ SameInputs /\ stage' = stage /\ left' = left /\ right' = right /\ at' = at
          /\ row' = row /\ answer' = answer
      BY <2>6 DEF textVars, SameInputs
    <3>2. (Credits' <=> Credits) /\ (Loaded' <=> Loaded) /\ worth' = worth /\ Pairs' = Pairs
      BY <3>1 DEF Credits, Loaded, Swapped, SameInputs, worth, Alike, Pairs
    <3>3. {Sorted(k) : k \in 1..at}' = {Sorted(k) : k \in 1..at}
      BY <3>1 DEF Sorted, Precedes, Alike, Swapped, Pairs, SameInputs
    <3>4. AssignmentIsBest' <=> AssignmentIsBest
      BY <3>1 DEF AssignmentIsBest, Best, Alike, Swapped, SameInputs
    <3> QED BY <3>1, <3>2, <3>3, <3>4 DEF AssignInv, SameInputs
  <2> QED BY <2>2, <2>3, <2>4, <2>5, <2>6 DEF TextNext
<1> QED BY <1>2, <1>3

(* optimalArtistAssignment, for credit lists of any length, any degrees of *)
(* similarity and any limit: by bit masks the best of all one-to-one       *)
(* assignments, without them at least half of it and never more.           *)
THEOREM AssignmentsAreBest == TextSpec => []AssignmentIsBest
<1>1. AssignInv => AssignmentIsBest
  BY DEF AssignInv, AssignmentIsBest
<1> QED BY <1>1, AssignInitHolds, AssignStepKeeps, PTL DEF TextSpec

-----------------------------------------------------------------------------
(* The edit distance (matcher/similarity.go).                              *)

LEMMA MinIsLeast ==
    ASSUME NEW X \in SUBSET Int, IsFiniteSet(X), X # {}
    PROVE  Min(X) \in X /\ \A y \in X : Min(X) <= y
<1> DEFINE R == {p \in X \X X : p[1] > p[2]}
<1>1. StrictTotal(R, X)
  BY DEF StrictTotal
<1>2. HasLast(R, X)
  BY <1>1, LastExists
<1>3. PICK x \in X : \A y \in X \ {x} : <<y, x>> \in R
  BY <1>2 DEF HasLast
<1>4. ASSUME NEW y \in X PROVE x =< y
  <2>1. x \in Int /\ y \in Int /\ (y = x \/ y > x)
    BY <1>3
  <2> HIDE DEF R
  <2> QED BY <2>1
<1> HIDE DEF R
<1> QED BY <1>4 DEF Min

LEMMA MinIsThat ==
    ASSUME NEW X \in SUBSET Int, NEW x \in X, \A y \in X : x <= y
    PROVE  Min(X) = x
<1>1. Min(X) \in X /\ \A y \in X : Min(X) =< y
  BY DEF Min
<1>2. Min(X) \in Int /\ x \in Int /\ Min(X) <= x /\ x <= Min(X)
  BY <1>1
<1> QED BY <1>2

LEMMA MinOfThree ==
    ASSUME NEW a \in Int, NEW b \in Int, NEW c \in Int
    PROVE  /\ Min({a, b, c}) \in {a, b, c}
           /\ Min({a, b, c}) <= a /\ Min({a, b, c}) <= b /\ Min({a, b, c}) <= c
<1>1. IsFiniteSet({a})
  BY FS_Singleton
<1>2. IsFiniteSet({a} \cup {b})
  BY <1>1, FS_AddElement
<1>3. IsFiniteSet(({a} \cup {b}) \cup {c})
  BY <1>2, FS_AddElement
<1>4. IsFiniteSet({a, b, c})
  <2>1. {a, b, c} = ({a} \cup {b}) \cup {c}
    OBVIOUS
  <2> QED BY <1>3, <2>1
<1> QED BY <1>4, MinIsLeast

(* The alignments of the first k characters of one text with the first m   *)
(* of another, and the edits each stands for.                              *)
Uncrossed(p) ==
    \A a, b \in p : a # b => (a[1] < b[1] /\ a[2] < b[2]) \/ (a[1] > b[1] /\ a[2] > b[2])

Aligned(k, m) == {p \in SUBSET ((1..k) \X (1..m)) : Uncrossed(p)}

Differing(s, t, p) == {a \in p : s[a[1]] # t[a[2]]}

EditsOf(s, t, k, m, p) == k + m - 2 * Cardinality(p) + Cardinality(Differing(s, t, p))

(* v is the distance of the two prefixes.                                  *)
Distance(s, t, k, m, v) ==
    /\ \E p \in Aligned(k, m) : EditsOf(s, t, k, m, p) = v
    /\ \A p \in Aligned(k, m) : v <= EditsOf(s, t, k, m, p)

LEMMA AlignedIsFinite ==
    ASSUME NEW k \in Nat, NEW m \in Nat, NEW s, NEW t, NEW p \in Aligned(k, m)
    PROVE  /\ IsFiniteSet(p) /\ Cardinality(p) \in Nat
           /\ IsFiniteSet(Differing(s, t, p)) /\ Cardinality(Differing(s, t, p)) \in Nat
           /\ EditsOf(s, t, k, m, p) \in Int
<1>1. IsFiniteSet(1..k) /\ IsFiniteSet(1..m)
  BY FS_Interval
<1>2. IsFiniteSet((1..k) \X (1..m))
  BY <1>1, FS_Product
<1>3. IsFiniteSet(p)
  BY <1>2, FS_Subset DEF Aligned
<1>4. IsFiniteSet(Differing(s, t, p))
  BY <1>3, FS_Subset DEF Differing
<1>5. Cardinality(p) \in Nat /\ Cardinality(Differing(s, t, p)) \in Nat
  BY <1>3, <1>4, FS_CardinalityType
<1> QED BY <1>3, <1>4, <1>5 DEF EditsOf

(* Some alignment takes the fewest edits.                                  *)
LEMMA DistanceExists ==
    ASSUME NEW k \in Nat, NEW m \in Nat, NEW s, NEW t
    PROVE  \E v \in Int : Distance(s, t, k, m, v)
<1> DEFINE A == Aligned(k, m)
           edits == [p \in A |-> EditsOf(s, t, k, m, p)]
           X == {edits[p] : p \in A}
<1>1. IsFiniteSet(A)
  <2> IsFiniteSet(1..k) /\ IsFiniteSet(1..m)
    BY FS_Interval
  <2>1. IsFiniteSet((1..k) \X (1..m))
    BY FS_Product
  <2>2. IsFiniteSet(SUBSET ((1..k) \X (1..m)))
    BY <2>1, FS_SUBSET
  <2> QED BY <2>2, FS_Subset DEF Aligned
<1>2. {} \in A
  BY DEF Aligned, Uncrossed
<1>3. \A p \in A : edits[p] \in Int
  BY AlignedIsFinite
<1>4. edits \in Surjection(A, X)
  BY DEF Surjection
<1>5. \A p \in A : edits[p] = EditsOf(s, t, k, m, p)
  OBVIOUS
<1> HIDE DEF edits, A
<1>6. IsFiniteSet(X) /\ X \in SUBSET Int /\ X # {}
  BY <1>1, <1>2, <1>3, <1>4, FS_Surjection
<1>7. Min(X) \in X /\ \A y \in X : Min(X) <= y
  BY <1>6, MinIsLeast
<1>8. Distance(s, t, k, m, Min(X))
  BY <1>5, <1>7 DEF Distance, A
<1> QED BY <1>6, <1>7, <1>8

LEMMA DistanceIsOne ==
    ASSUME NEW k \in Nat, NEW m \in Nat, NEW s, NEW t, NEW v, NEW x,
           Distance(s, t, k, m, v), Distance(s, t, k, m, x)
    PROVE  v = x /\ v \in Int
<1>1. v \in Int /\ x \in Int
  BY AlignedIsFinite DEF Distance
<1>2. v <= x /\ x <= v
  BY DEF Distance
<1> QED BY <1>1, <1>2

(* One text is empty.                                                      *)
LEMMA DistanceFromNothing ==
    ASSUME NEW n \in Nat, NEW s, NEW t
    PROVE  Distance(s, t, 0, n, n) /\ Distance(s, t, n, 0, n)
<1>1. Aligned(0, n) = {{}} /\ Aligned(n, 0) = {{}}
  BY DEF Aligned, Uncrossed
<1>2. EditsOf(s, t, 0, n, {}) = n /\ EditsOf(s, t, n, 0, {}) = n
  <2>1. Differing(s, t, {}) = {} /\ Cardinality({}) = 0
    BY FS_EmptySet DEF Differing
  <2> QED BY <2>1 DEF EditsOf
<1>3. /\ \A p \in Aligned(0, n) : EditsOf(s, t, 0, n, p) = n
      /\ \A p \in Aligned(n, 0) : EditsOf(s, t, n, 0, p) = n
      /\ {} \in Aligned(0, n) /\ {} \in Aligned(n, 0)
  BY <1>1, <1>2
<1>4. n <= n
  OBVIOUS
<1> QED BY <1>3, <1>4 DEF Distance

Dearer(s, t, k, m) == IF s[k] = t[m] THEN 0 ELSE 1

(* An alignment of shorter prefixes is one of longer ones; and it may be   *)
(* joined by the two last characters.                                      *)
LEMMA AlignedWidens ==
    ASSUME NEW k \in Nat, NEW m \in Nat, NEW s, NEW t
    PROVE  /\ \A p \in Aligned(k, m + 1) :
                  /\ p \in Aligned(k + 1, m + 1)
                  /\ EditsOf(s, t, k + 1, m + 1, p) = EditsOf(s, t, k, m + 1, p) + 1
           /\ \A p \in Aligned(k + 1, m) :
                  /\ p \in Aligned(k + 1, m + 1)
                  /\ EditsOf(s, t, k + 1, m + 1, p) = EditsOf(s, t, k + 1, m, p) + 1
<1>1. 1..k \subseteq 1..(k + 1) /\ 1..m \subseteq 1..(m + 1) /\ k + 1 \in Nat /\ m + 1 \in Nat
  OBVIOUS
<1>2. ASSUME NEW p \in Aligned(k, m + 1)
      PROVE  /\ p \in Aligned(k + 1, m + 1)
             /\ EditsOf(s, t, k + 1, m + 1, p) = EditsOf(s, t, k, m + 1, p) + 1
  <2>1. p \in Aligned(k + 1, m + 1)
    BY <1>1 DEF Aligned
  <2>2. Cardinality(p) \in Nat /\ Cardinality(Differing(s, t, p)) \in Nat
    BY <1>1, AlignedIsFinite
  <2> QED BY <2>1, <2>2 DEF EditsOf
<1>3. ASSUME NEW p \in Aligned(k + 1, m)
      PROVE  /\ p \in Aligned(k + 1, m + 1)
             /\ EditsOf(s, t, k + 1, m + 1, p) = EditsOf(s, t, k + 1, m, p) + 1
  <2>1. p \in Aligned(k + 1, m + 1)
    BY <1>1 DEF Aligned
  <2>2. Cardinality(p) \in Nat /\ Cardinality(Differing(s, t, p)) \in Nat
    BY <1>1, AlignedIsFinite
  <2> QED BY <2>1, <2>2 DEF EditsOf
<1> QED BY <1>2, <1>3

LEMMA AlignedJoins ==
    ASSUME NEW k \in Nat, NEW m \in Nat, NEW s, NEW t, NEW p \in Aligned(k, m),
           NEW q, q = p \cup {<<k + 1, m + 1>>}
    PROVE  /\ q \in Aligned(k + 1, m + 1)
           /\ EditsOf(s, t, k + 1, m + 1, q) = EditsOf(s, t, k, m, p) + Dearer(s, t, k + 1, m + 1)
<1> DEFINE c == <<k + 1, m + 1>>
<1>1. \A a \in p : a[1] \in Nat /\ a[2] \in Nat /\ a[1] < k + 1 /\ a[2] < m + 1 /\ a \in (1..(k + 1)) \X (1..(m + 1))
  BY DEF Aligned
<1>2. c \notin p /\ c[1] = k + 1 /\ c[2] = m + 1 /\ c \in (1..(k + 1)) \X (1..(m + 1))
  BY <1>1
<1> HIDE DEF c
<1>3. q = p \cup {c}
  BY DEF c
<1>4. Uncrossed(q)
  <2>1. ASSUME NEW a \in q, NEW b \in q, a # b
        PROVE  (a[1] < b[1] /\ a[2] < b[2]) \/ (a[1] > b[1] /\ a[2] > b[2])
    <3>1. CASE a \in p /\ b \in p
      BY <2>1, <3>1 DEF Aligned, Uncrossed
    <3>2. CASE a = c
      BY <1>1, <1>2, <1>3, <2>1, <3>2
    <3>3. CASE b = c
      BY <1>1, <1>2, <1>3, <2>1, <3>3
    <3> QED BY <1>3, <3>1, <3>2, <3>3
  <2> QED BY <2>1 DEF Uncrossed
<1>5. q \in Aligned(k + 1, m + 1)
  BY <1>1, <1>2, <1>3, <1>4 DEF Aligned
<1>6. /\ IsFiniteSet(p) /\ Cardinality(p) \in Nat
      /\ IsFiniteSet(Differing(s, t, p)) /\ Cardinality(Differing(s, t, p)) \in Nat
  BY AlignedIsFinite
<1>7. Cardinality(q) = Cardinality(p) + 1
  <2>1. Cardinality(p \cup {c}) = IF c \in p THEN Cardinality(p) ELSE Cardinality(p) + 1
    BY <1>6, FS_AddElement
  <2> QED BY <1>2, <1>3, <2>1
<1>8. Cardinality(Differing(s, t, q)) = Cardinality(Differing(s, t, p)) + Dearer(s, t, k + 1, m + 1)
  <2>1. CASE s[k + 1] = t[m + 1]
    <3>1. Differing(s, t, q) = Differing(s, t, p)
      BY <1>2, <1>3, <2>1 DEF Differing
    <3> QED BY <1>6, <2>1, <3>1 DEF Dearer
  <2>2. CASE s[k + 1] # t[m + 1]
    <3>1. Differing(s, t, q) = Differing(s, t, p) \cup {c} /\ c \notin Differing(s, t, p)
      BY <1>2, <1>3, <2>2 DEF Differing
    <3> QED BY <1>6, <2>2, <3>1, FS_AddElement DEF Dearer
  <2> QED BY <2>1, <2>2
<1>9. Dearer(s, t, k + 1, m + 1) \in Nat
  BY DEF Dearer
<1> QED BY <1>5, <1>6, <1>7, <1>8, <1>9 DEF EditsOf

(* Of two last characters, both are aligned with each other or one of them *)
(* is aligned with none: anything else would cross.                        *)
LEMMA AlignedEnds ==
    ASSUME NEW k \in Nat, NEW m \in Nat, NEW q \in Aligned(k + 1, m + 1)
    PROVE  \/ q \in Aligned(k, m + 1)
           \/ q \in Aligned(k + 1, m)
           \/ \E p \in Aligned(k, m) : q = p \cup {<<k + 1, m + 1>>}
<1> DEFINE c == <<k + 1, m + 1>>
<1>1. \A a \in q : /\ a = <<a[1], a[2]>> /\ a[1] \in Nat /\ a[2] \in Nat
                   /\ 1 <= a[1] /\ a[1] <= k + 1 /\ 1 <= a[2] /\ a[2] <= m + 1
  BY DEF Aligned
<1>2. \A a, b \in q : a # b => (a[1] < b[1] /\ a[2] < b[2]) \/ (a[1] > b[1] /\ a[2] > b[2])
  BY DEF Aligned, Uncrossed
<1>3. CASE c \in q
  <2> DEFINE p == q \ {c}
  <2>1. ASSUME NEW a \in p PROVE a \in (1..k) \X (1..m)
    <3>1. a \in q /\ a # c /\ c[1] = k + 1 /\ c[2] = m + 1
      OBVIOUS
    <3> HIDE DEF c, p
    <3>2. (a[1] < k + 1 /\ a[2] < m + 1) \/ (a[1] > k + 1 /\ a[2] > m + 1)
      BY <1>2, <1>3, <3>1
    <3>3. a[1] \in 1..k /\ a[2] \in 1..m
      BY <1>1, <3>1, <3>2
    <3> QED BY <1>1, <3>1, <3>3
  <2>2. p \in Aligned(k, m)
    BY <1>2, <2>1 DEF Aligned, Uncrossed
  <2>3. q = p \cup {c}
    BY <1>3
  <2> QED BY <2>2, <2>3
<1>4. CASE c \notin q /\ \A a \in q : a[1] # k + 1
  <2>1. \A a \in q : a[1] \in 1..k /\ a[2] \in 1..(m + 1) /\ a = <<a[1], a[2]>>
    BY <1>1, <1>4
  <2>2. \A a \in q : a \in (1..k) \X (1..(m + 1))
    BY <2>1
  <2> QED BY <1>2, <2>2 DEF Aligned, Uncrossed
<1>5. CASE c \notin q /\ \E a \in q : a[1] = k + 1
  <2>1. PICK a \in q : a[1] = k + 1
    BY <1>5
  <2>2. a[2] # m + 1
    BY <1>1, <1>5, <2>1
  <2>3. ASSUME NEW b \in q PROVE b[2] # m + 1
    <3>1. CASE b = a
      BY <2>2, <3>1
    <3>2. CASE b # a
      BY <1>1, <1>2, <2>1, <2>2, <3>2
    <3> QED BY <3>1, <3>2
  <2>4. \A b \in q : b[1] \in 1..(k + 1) /\ b[2] \in 1..m /\ b = <<b[1], b[2]>>
    BY <1>1, <2>3
  <2>5. \A b \in q : b \in (1..(k + 1)) \X (1..m)
    BY <2>4
  <2> QED BY <1>2, <2>5 DEF Aligned, Uncrossed
<1> QED BY <1>3, <1>4, <1>5

(* The recurrence of the table.                                            *)
LEMMA DistanceStep ==
    ASSUME NEW k \in Nat, NEW m \in Nat, NEW s, NEW t, NEW x, NEW y, NEW z,
           Distance(s, t, k, m + 1, x), Distance(s, t, k + 1, m, y), Distance(s, t, k, m, z)
    PROVE  Distance(s, t, k + 1, m + 1, Min({x + 1, y + 1, z + Dearer(s, t, k + 1, m + 1)}))
<1> DEFINE d == Dearer(s, t, k + 1, m + 1)
           least == Min({x + 1, y + 1, z + d})
           E(q) == EditsOf(s, t, k + 1, m + 1, q)
<1>1. x \in Int /\ y \in Int /\ z \in Int /\ d \in Int /\ k + 1 \in Nat /\ m + 1 \in Nat
  BY DistanceIsOne DEF Dearer
<1>2. /\ least \in {x + 1, y + 1, z + d} /\ least \in Int
      /\ least <= x + 1 /\ least <= y + 1 /\ least <= z + d
  <2> DEFINE a == x + 1
             b == y + 1
             c == z + d
  <2>1. a \in Int /\ b \in Int /\ c \in Int
    BY <1>1
  <2> HIDE DEF a, b, c
  <2>2. Min({a, b, c}) \in {a, b, c} /\ Min({a, b, c}) <= a /\ Min({a, b, c}) <= b /\ Min({a, b, c}) <= c
    BY <2>1, MinOfThree
  <2>3. Min({a, b, c}) \in Int
    BY <2>1, <2>2
  <2> QED BY <2>2, <2>3 DEF a, b, c
<1> HIDE DEF d, least
<1>3. \E q \in Aligned(k + 1, m + 1) : E(q) = least
  <2>1. CASE least = x + 1
    <3>1. PICK p \in Aligned(k, m + 1) : EditsOf(s, t, k, m + 1, p) = x
      BY DEF Distance
    <3> QED BY <2>1, <3>1, AlignedWidens
  <2>2. CASE least = y + 1
    <3>1. PICK p \in Aligned(k + 1, m) : EditsOf(s, t, k + 1, m, p) = y
      BY DEF Distance
    <3> QED BY <2>2, <3>1, AlignedWidens
  <2>3. CASE least = z + d
    <3>1. PICK p \in Aligned(k, m) : EditsOf(s, t, k, m, p) = z
      BY DEF Distance
    <3> QED BY <2>3, <3>1, AlignedJoins DEF d
  <2> QED BY <1>2, <2>1, <2>2, <2>3
<1>4. ASSUME NEW q \in Aligned(k + 1, m + 1) PROVE least <= E(q)
  <2>1. E(q) \in Int
    BY <1>1, AlignedIsFinite
  <2>2. CASE q \in Aligned(k, m + 1)
    <3>1. E(q) = EditsOf(s, t, k, m + 1, q) + 1
      BY <2>2, AlignedWidens
    <3>2. x <= EditsOf(s, t, k, m + 1, q) /\ EditsOf(s, t, k, m + 1, q) \in Int
      BY <1>1, <2>2, AlignedIsFinite DEF Distance
    <3> HIDE DEF E
    <3> QED BY <1>1, <1>2, <2>1, <3>1, <3>2
  <2>3. CASE q \in Aligned(k + 1, m)
    <3>1. E(q) = EditsOf(s, t, k + 1, m, q) + 1
      BY <2>3, AlignedWidens
    <3>2. y <= EditsOf(s, t, k + 1, m, q) /\ EditsOf(s, t, k + 1, m, q) \in Int
      BY <1>1, <2>3, AlignedIsFinite DEF Distance
    <3> HIDE DEF E
    <3> QED BY <1>1, <1>2, <2>1, <3>1, <3>2
  <2>4. CASE \E p \in Aligned(k, m) : q = p \cup {<<k + 1, m + 1>>}
    <3>1. PICK p \in Aligned(k, m) : q = p \cup {<<k + 1, m + 1>>}
      BY <2>4
    <3>2. E(q) = EditsOf(s, t, k, m, p) + d
      BY <3>1, AlignedJoins DEF d
    <3>3. z <= EditsOf(s, t, k, m, p) /\ EditsOf(s, t, k, m, p) \in Int
      BY AlignedIsFinite DEF Distance
    <3> HIDE DEF E
    <3> QED BY <1>1, <1>2, <2>1, <3>2, <3>3
  <2> QED BY <2>2, <2>3, <2>4, AlignedEnds
<1> QED BY <1>3, <1>4 DEF Distance, least, d

(* One row of the table follows from the row before.                       *)
LEMMA NextDistances ==
    ASSUME Len(left) \in Nat, NEW n \in Nat,
           \A k \in 0..Len(left) : Distance(left, right, k, n, row[k])
    PROVE  \A k \in 0..Len(left) : Distance(left, right, k, n + 1, Distances(n + 1)[k])
<1> DEFINE size == Len(left)
           m == n + 1
           Cell(f, k) == IF k = 0 THEN m
                          ELSE Min({f[k - 1] + 1, row[k] + 1,
                                    row[k - 1] + IF left[k] = right[m] THEN 0 ELSE 1})
           f == Distances(m)
           g == [k \in 0..size |-> CHOOSE v \in Int : Distance(left, right, k, m, v)]
<1>1. m \in Nat /\ size \in Nat
  OBVIOUS
<1>2. ASSUME NEW k \in 0..size PROVE Distance(left, right, k, m, g[k]) /\ g[k] \in Int
  <2>1. \E v \in Int : Distance(left, right, k, m, v)
    <3> HIDE DEF m, size
    <3> QED BY <1>1, DistanceExists
  <2> QED BY <2>1
<1> HIDE DEF g
<1>3. ASSUME NEW k \in 0..size PROVE g[k] = Cell(g, k)
  <2>1. CASE k = 0
    <3>1. Distance(left, right, 0, m, m)
      BY <1>1, DistanceFromNothing
    <3>2. Distance(left, right, 0, m, g[0])
      BY <1>2, <2>1
    <3> QED BY <1>1, <2>1, <3>1, <3>2, DistanceIsOne
  <2>2. CASE k # 0
    <3> DEFINE j == k - 1
               d == Dearer(left, right, j + 1, m)
    <3>1. j \in Nat /\ k = j + 1 /\ j \in 0..size
      BY <1>1, <2>2
    <3>2. Distance(left, right, j, m, g[j]) /\ Distance(left, right, j + 1, m, g[j + 1])
      BY <1>2, <3>1
    <3>3. Distance(left, right, j + 1, n, row[j + 1]) /\ Distance(left, right, j, n, row[j])
      BY <3>1
    <3>4. Cell(g, k) = Min({g[j] + 1, row[j + 1] + 1, row[j] + d})
      BY <2>2, <3>1 DEF Dearer
    <3> HIDE DEF j, d, Cell
    <3>5. Distance(left, right, j + 1, m, Min({g[j] + 1, row[j + 1] + 1, row[j] + d}))
      BY <3>1, <3>2, <3>3, DistanceStep DEF d
    <3>6. j + 1 \in Nat
      BY <3>1
    <3>7. g[j + 1] = Min({g[j] + 1, row[j + 1] + 1, row[j] + d})
      <4> HIDE DEF m
      <4> QED BY <1>1, <3>2, <3>5, <3>6, DistanceIsOne
    <3> QED BY <3>1, <3>4, <3>7
  <2> QED BY <2>1, <2>2
<1>4. f = [k \in 0..size |-> Cell(f, k)]
  <2>1. g = [k \in 0..size |-> Cell(g, k)]
    <3>1. g = [k \in 0..size |-> g[k]]
      BY DEF g
    <3> HIDE DEF Cell
    <3> QED BY <1>3, <3>1
  <2>2. \E h : h = [k \in 0..size |-> Cell(h, k)]
    BY <2>1
  <2> QED BY <2>2 DEF Distances
<1> HIDE DEF f
<1>5. ASSUME NEW k \in 0..size PROVE f[k] = g[k]
  <2> DEFINE B == {j \in 0..size : f[j] # g[j]}
  <2>1. SUFFICES ASSUME B # {} PROVE FALSE
    OBVIOUS
  <2>2. IsFiniteSet(B) /\ B \in SUBSET Int
    <3>1. B \in SUBSET (0..size)
      OBVIOUS
    <3>2. IsFiniteSet(0..size) /\ 0..size \subseteq Int
      BY <1>1, FS_Interval
    <3> HIDE DEF B
    <3> QED BY <3>1, <3>2, FS_Subset
  <2> HIDE DEF B
  <2>3. PICK b \in B : \A j \in B : b <= j
    BY <2>1, <2>2, MinIsLeast
  <2>4. b \in 0..size /\ f[b] # g[b]
    BY DEF B
  <2>5. f[b] = Cell(f, b) /\ g[b] = Cell(g, b)
    BY <1>3, <1>4, <2>4
  <2>6. CASE b = 0
    BY <2>4, <2>5, <2>6
  <2>7. CASE b # 0
    <3>1. b - 1 \in 0..size /\ ~(b <= b - 1)
      BY <1>1, <2>4, <2>7
    <3>2. b - 1 \notin B
      BY <2>3, <3>1
    <3>3. f[b - 1] = g[b - 1]
      BY <3>1, <3>2 DEF B
    <3> QED BY <2>4, <2>5, <3>3
  <2> QED BY <2>6, <2>7
<1> QED BY <1>2, <1>5 DEF f, size, m

(* The two texts may change places.                                        *)
Flipped(p) == {<<a[2], a[1]>> : a \in p}

LEMMA FlippedEdits ==
    ASSUME NEW k \in Nat, NEW m \in Nat, NEW s, NEW t, NEW p \in Aligned(k, m)
    PROVE  /\ Flipped(p) \in Aligned(m, k)
           /\ EditsOf(t, s, m, k, Flipped(p)) = EditsOf(s, t, k, m, p)
<1> DEFINE q == Flipped(p)
           D == Differing(s, t, p)
           turn == [a \in p |-> <<a[2], a[1]>>]
           turnD == [a \in D |-> <<a[2], a[1]>>]
<1>1. \A a \in p : a = <<a[1], a[2]>> /\ a[1] \in 1..k /\ a[2] \in 1..m
  BY DEF Aligned
<1>2. \A a \in p : turn[a] \in q /\ turn[a][1] = a[2] /\ turn[a][2] = a[1]
  BY DEF Flipped
<1>3. \A b \in q : \E a \in p : b = turn[a]
  BY DEF Flipped
<1>4. turn \in [p -> q] /\ \A a, b \in p : turn[a] = turn[b] => a = b
  BY <1>1, <1>2
<1>5. \A a \in D : turnD[a] = turn[a]
  BY DEF Differing
<1> HIDE DEF turn, q
<1>6. q \in Aligned(m, k)
  <2>1. \A b \in q : b \in (1..m) \X (1..k)
    <3>1. \A b \in q : \E a \in p : b = <<a[2], a[1]>>
      BY DEF q, Flipped
    <3> QED BY <1>1, <3>1
  <2>2. ASSUME NEW b \in q, NEW c \in q, b # c
        PROVE  (b[1] < c[1] /\ b[2] < c[2]) \/ (b[1] > c[1] /\ b[2] > c[2])
    <3>1. PICK a \in p : b = turn[a]
      BY <1>3
    <3>2. PICK e \in p : c = turn[e]
      BY <1>3
    <3>3. (a[1] < e[1] /\ a[2] < e[2]) \/ (a[1] > e[1] /\ a[2] > e[2])
      BY <2>2, <3>1, <3>2 DEF Aligned, Uncrossed
    <3> QED BY <1>2, <3>1, <3>2, <3>3
  <2> QED BY <2>1, <2>2 DEF Aligned, Uncrossed
<1>7. /\ IsFiniteSet(p) /\ Cardinality(p) \in Nat
      /\ IsFiniteSet(D) /\ Cardinality(D) \in Nat
  BY AlignedIsFinite
<1>8. Cardinality(q) = Cardinality(p)
  <2>1. turn \in Bijection(p, q)
    BY <1>3, <1>4 DEF Bijection, Injection, Surjection, IsInjective
  <2> QED BY <1>7, <2>1, FS_Bijection DEF ExistsBijection
<1>9. Cardinality(Differing(t, s, q)) = Cardinality(D)
  <2>1. \A a \in p : a \in D <=> turn[a] \in Differing(t, s, q)
    BY <1>2 DEF Differing
  <2>2. \A b \in Differing(t, s, q) : b \in q
    BY DEF Differing
  <2>3. \A a \in D : a \in p
    BY DEF Differing
  <2>4. turnD = [a \in D |-> turnD[a]]
    OBVIOUS
  <2> HIDE DEF turnD, D
  <2>5. turnD \in Bijection(D, Differing(t, s, q))
    BY <1>3, <1>4, <1>5, <2>1, <2>2, <2>3, <2>4 DEF Bijection, Injection, Surjection, IsInjective
  <2> QED BY <1>7, <2>5, FS_Bijection DEF ExistsBijection
<1> QED BY <1>6, <1>7, <1>8, <1>9 DEF EditsOf, q

LEMMA DistanceFlips ==
    ASSUME NEW k \in Nat, NEW m \in Nat, NEW s, NEW t, NEW v, Distance(s, t, k, m, v)
    PROVE  Distance(t, s, m, k, v)
<1>1. \E q \in Aligned(m, k) : EditsOf(t, s, m, k, q) = v
  BY FlippedEdits DEF Distance
<1>2. ASSUME NEW q \in Aligned(m, k) PROVE v <= EditsOf(t, s, m, k, q)
  BY FlippedEdits DEF Distance
<1> QED BY <1>1, <1>2 DEF Distance

LEMMA DistanceIsMin ==
    ASSUME NEW s, NEW t, Len(s) \in Nat, Len(t) \in Nat,
           DOMAIN s = 1..Len(s), DOMAIN t = 1..Len(t),
           NEW v, Distance(s, t, Len(s), Len(t), v)
    PROVE  v = Min({Edits(s, t, p) : p \in Alignments(s, t)})
<1> DEFINE A == Aligned(Len(s), Len(t))
           X == {EditsOf(s, t, Len(s), Len(t), p) : p \in A}
<1>1. Alignments(s, t) = A
  BY DEF Alignments, Aligned, Uncrossed
<1>2. \A p \in A : Edits(s, t, p) = EditsOf(s, t, Len(s), Len(t), p)
  BY DEF Edits, EditsOf, Differing
<1>3. {Edits(s, t, p) : p \in Alignments(s, t)} = X
  BY <1>1, <1>2
<1>4. X \in SUBSET Int
  BY AlignedIsFinite
<1>5. v \in X /\ \A x \in X : v <= x
  BY DEF Distance
<1> HIDE DEF X
<1>6. Min(X) = v
  BY <1>4, <1>5, MinIsThat
<1> QED BY <1>3, <1>6

-----------------------------------------------------------------------------
(* The words two texts have in common.                                     *)

LEMMA MinOfTwo ==
    ASSUME NEW a \in Int, NEW b \in Int
    PROVE  Min({a, b}) = IF a <= b THEN a ELSE b
<1>1. CASE a <= b
  BY <1>1, MinIsThat
<1>2. CASE ~(a <= b)
  BY <1>2, MinIsThat
<1> QED BY <1>1, <1>2

LEMMA SumOfZeros ==
    ASSUME NEW S, IsFiniteSet(S), NEW w, \A x \in S : w[x] = 0
    PROVE  SumFunctionOnSet(w, S) = 0
<1> DEFINE V(s) == SumFunctionOnSet(w, s)
           F == {T \in FiniteSubsetsOf(S) : V(T) # 0}
<1>1. SUFFICES ASSUME V(S) # 0 PROVE FALSE
  OBVIOUS
<1>2. S \in F
  BY <1>1 DEF FiniteSubsetsOf
<1>3. PICK T \in F : \A U \in F : U \subseteq T => U = T
  <2>1. F \in SUBSET FiniteSubsetsOf(S) /\ F # {}
    BY <1>2
  <2> HIDE DEF F
  <2> QED BY <2>1, SmallestSet
<1>4. T \in SUBSET S /\ IsFiniteSet(T) /\ V(T) # 0
  BY DEF FiniteSubsetsOf
<1>5. V(T) = IF T = {} THEN 0 ELSE w[AnyOf(T)] + V(T \ {AnyOf(T)})
  BY <1>4, SumUnfolds DEF Unfolds
<1> HIDE DEF V
<1>6. T # {}
  BY <1>4, <1>5
<1>7. AnyOf(T) \in T
  BY <1>6 DEF AnyOf
<1>8. T \ {AnyOf(T)} \in FiniteSubsetsOf(S) /\ T \ {AnyOf(T)} # T
  BY <1>4, <1>7, FS_Subset DEF FiniteSubsetsOf
<1>9. V(T \ {AnyOf(T)}) = 0
  BY <1>3, <1>8
<1> QED BY <1>4, <1>5, <1>6, <1>7, <1>9

Ordered(c) == \A j, k \in 1..Len(c) : j < k => c[j] <= c[k]

(* How often c has the word w after its first n.                           *)
After(c, n, w) == Cardinality({k \in DOMAIN c : k > n /\ c[k] = w})

(* How many of the words W are left to be found in both.                   *)
Common(W, c, n, d, m) ==
    SumFunctionOnSet([w \in W |-> Min({After(c, n, w), After(d, m, w)})], W)

LEMMA AfterIsNat ==
    ASSUME NEW c \in Seq(Nat), NEW n \in Nat, NEW w
    PROVE  After(c, n, w) \in Nat
<1>1. IsFiniteSet(DOMAIN c)
  BY LenProperties, FS_Interval
<1>2. IsFiniteSet({k \in DOMAIN c : k > n /\ c[k] = w})
  BY <1>1, FS_Subset
<1> QED BY <1>2, FS_CardinalityType DEF After

LEMMA AfterNext ==
    ASSUME NEW c \in Seq(Nat), NEW n \in Nat, n < Len(c), NEW w
    PROVE  After(c, n, w) = After(c, n + 1, w) + IF c[n + 1] = w THEN 1 ELSE 0
<1> DEFINE P == {k \in DOMAIN c : k > n /\ c[k] = w}
           Q == {k \in DOMAIN c : k > n + 1 /\ c[k] = w}
<1>1. DOMAIN c = 1..Len(c) /\ Len(c) \in Nat /\ IsFiniteSet(1..Len(c))
  BY LenProperties, FS_Interval
<1>2. IsFiniteSet(Q) /\ Cardinality(Q) \in Nat
  BY <1>1, FS_Subset, FS_CardinalityType
<1>3. n + 1 \in DOMAIN c /\ n + 1 \notin Q /\ \A k \in DOMAIN c : k > n <=> (k > n + 1 \/ k = n + 1)
  BY <1>1
<1>4. CASE c[n + 1] = w
  <2>1. P = Q \cup {n + 1}
    BY <1>3, <1>4
  <2> HIDE DEF P, Q
  <2>2. Cardinality(P) = Cardinality(Q) + 1
    BY <1>2, <1>3, <2>1, FS_AddElement
  <2> QED BY <1>4, <2>2 DEF After, P, Q
<1>5. CASE c[n + 1] # w
  <2>1. P = Q
    BY <1>3, <1>5
  <2>2. After(c, n, w) = Cardinality(P) /\ After(c, n + 1, w) = Cardinality(Q)
    BY DEF After
  <2> HIDE DEF P, Q
  <2> QED BY <1>2, <1>5, <2>1, <2>2
<1> QED BY <1>4, <1>5

LEMMA AfterAll ==
    ASSUME NEW c \in Seq(Nat), NEW n \in Nat, NEW w,
           \A k \in 1..Len(c) : k > n => c[k] # w
    PROVE  After(c, n, w) = 0
<1>1. {k \in DOMAIN c : k > n /\ c[k] = w} = {}
  BY LenProperties
<1> QED BY <1>1, FS_EmptySet DEF After

LEMMA CommonIsInt ==
    ASSUME NEW W, IsFiniteSet(W), NEW c \in Seq(Nat), NEW d \in Seq(Nat), NEW n \in Nat, NEW m \in Nat
    PROVE  Common(W, c, n, d, m) \in Int
<1> DEFINE f == [w \in W |-> Min({After(c, n, w), After(d, m, w)})]
<1>1. ASSUME NEW w \in W PROVE f[w] \in Int
  <2>1. After(c, n, w) \in Int /\ After(d, m, w) \in Int
    BY AfterIsNat
  <2> QED BY <2>1, MinOfTwo
<1> HIDE DEF f
<1>2. SumFunctionOnSet(f, W) \in Int
  BY <1>1, SumStaysIn
<1> QED BY <1>2 DEF Common, f

LEMMA CommonTurns ==
    ASSUME NEW W, NEW c, NEW n, NEW d, NEW m
    PROVE  Common(W, c, n, d, m) = Common(W, d, m, c, n)
<1>1. \A w \in W : {After(c, n, w), After(d, m, w)} = {After(d, m, w), After(c, n, w)}
  OBVIOUS
<1>2. \A w \in W : Min({After(c, n, w), After(d, m, w)}) = Min({After(d, m, w), After(c, n, w)})
  BY <1>1
<1>3. [w \in W |-> Min({After(c, n, w), After(d, m, w)})] = [w \in W |-> Min({After(d, m, w), After(c, n, w)})]
  BY <1>2
<1> QED BY <1>3 DEF Common

(* A word smaller than all that are left of the other text is not shared.  *)
LEMMA CommonStays ==
    ASSUME NEW W, IsFiniteSet(W), NEW c \in Seq(Nat), NEW d \in Seq(Nat), Ordered(d),
           NEW n \in Nat, n < Len(c), NEW m \in Nat, m < Len(d), c[n + 1] < d[m + 1]
    PROVE  Common(W, c, n, d, m) = Common(W, c, n + 1, d, m)
<1> DEFINE f == [w \in W |-> Min({After(c, n, w), After(d, m, w)})]
           g == [w \in W |-> Min({After(c, n + 1, w), After(d, m, w)})]
<1>1. ASSUME NEW w \in W PROVE f[w] = g[w]
  <2>1. CASE c[n + 1] # w
    <3>1. After(c, n, w) = After(c, n + 1, w)
      BY <2>1, AfterNext, AfterIsNat
    <3> QED BY <3>1
  <2>2. CASE c[n + 1] = w
    <3>1. Len(c) \in Nat /\ Len(d) \in Nat /\ c[n + 1] \in Nat /\ \A k \in 1..Len(d) : d[k] \in Nat
      BY LenProperties, ElementOfSeq, SMTT(60)
    <3>2. ASSUME NEW k \in 1..Len(d), k > m PROVE d[k] # w
      <4>1. m + 1 \in 1..Len(d) /\ (k = m + 1 \/ m + 1 < k)
        BY <3>1, <3>2, SMTT(60)
      <4>2. d[m + 1] <= d[k]
        BY <3>1, <4>1, SMTT(60) DEF Ordered
      <4>3. d[m + 1] \in Nat /\ d[k] \in Nat /\ w \in Nat /\ w < d[m + 1]
        BY <2>2, <3>1, <4>1
      <4> QED BY <4>2, <4>3, SMTT(60)
    <3>3. After(d, m, w) = 0
      BY <3>2, AfterAll
    <3>4. After(c, n, w) \in Nat /\ After(c, n + 1, w) \in Nat
      BY AfterIsNat
    <3>5. \A j \in Nat : Min({j, 0}) = 0
      BY MinOfTwo, SMTT(60)
    <3> QED BY <3>3, <3>4, <3>5
  <2> QED BY <2>1, <2>2
<1> HIDE DEF f, g
<1>2. SumFunctionOnSet(f, W) = SumFunctionOnSet(g, W)
  BY <1>1, SumsAgree
<1> QED BY <1>2 DEF Common, f, g

(* A word both have next is shared once more.                              *)
LEMMA CommonCounts ==
    ASSUME NEW W, IsFiniteSet(W), NEW c \in Seq(Nat), NEW d \in Seq(Nat),
           NEW n \in Nat, n < Len(c), NEW m \in Nat, m < Len(d), c[n + 1] = d[m + 1],
           c[n + 1] \in W
    PROVE  /\ Common(W, c, n, d, m) = Common(W, c, n + 1, d, m + 1) + 1
           /\ Common(W, c, n + 1, d, m + 1) \in Int
<1> DEFINE f == [w \in W |-> Min({After(c, n, w), After(d, m, w)})]
           g == [w \in W |-> Min({After(c, n + 1, w), After(d, m + 1, w)})]
           l == c[n + 1]
<1>1. ASSUME NEW w \in W
      PROVE  f[w] \in Int /\ g[w] \in Int /\ f[w] = g[w] + IF w = l THEN 1 ELSE 0
  <2>1. /\ After(c, n, w) \in Nat /\ After(c, n + 1, w) \in Nat
        /\ After(d, m, w) \in Nat /\ After(d, m + 1, w) \in Nat
    BY AfterIsNat, SMTT(60)
  <2>2. /\ After(c, n, w) = After(c, n + 1, w) + IF w = l THEN 1 ELSE 0
        /\ After(d, m, w) = After(d, m + 1, w) + IF w = l THEN 1 ELSE 0
    BY AfterNext
  <2>3. \A a, b \in Nat : Min({a, b}) = IF a <= b THEN a ELSE b
    BY MinOfTwo
  <2>4. f[w] = Min({After(c, n, w), After(d, m, w)}) /\ g[w] = Min({After(c, n + 1, w), After(d, m + 1, w)})
    OBVIOUS
  <2> HIDE DEF f, g, l
  <2>5. f[w] = IF After(c, n, w) <= After(d, m, w) THEN After(c, n, w) ELSE After(d, m, w)
    BY <2>1, <2>3, <2>4
  <2>6. g[w] = IF After(c, n + 1, w) <= After(d, m + 1, w) THEN After(c, n + 1, w) ELSE After(d, m + 1, w)
    BY <2>1, <2>3, <2>4
  <2>7. CASE w = l
    BY <2>1, <2>2, <2>5, <2>6, <2>7, SMTT(60)
  <2>8. CASE w # l
    BY <2>1, <2>2, <2>5, <2>6, <2>8
  <2> QED BY <2>7, <2>8
<1> HIDE DEF f, g
<1>2. l \in W /\ f[l] = g[l] + 1 /\ g[l] \in Int /\ \A w \in W \ {l} : f[w] = g[w]
  BY <1>1, SMTT(60)
<1> HIDE DEF l
<1>3. IsFiniteSet(W \ {l})
  BY FS_Subset
<1>4. \A w \in W \ {l} : g[w] \in Int
  BY <1>1
<1>5. SumFunctionOnSet(f, W \ {l}) = SumFunctionOnSet(g, W \ {l})
  BY <1>2, <1>3, SumsAgree
<1>6. SumFunctionOnSet(g, W \ {l}) \in Int
  BY <1>3, <1>4, SumStaysIn
<1>7. \A w \in W : f[w] \in Int
  BY <1>1
<1>8. \A w \in W : g[w] \in Int
  BY <1>1
<1>9. SumFunctionOnSet(f, W) = f[l] + SumFunctionOnSet(f, W \ {l})
  BY <1>2, <1>7, SumSplits
<1>10. SumFunctionOnSet(g, W) = g[l] + SumFunctionOnSet(g, W \ {l})
  BY <1>2, <1>8, SumSplits
<1>11. SumFunctionOnSet(f, W) = SumFunctionOnSet(g, W) + 1 /\ SumFunctionOnSet(g, W) \in Int
  <2>1. f[l] = g[l] + 1 /\ g[l] \in Int
    BY <1>2
  <2> QED BY <1>5, <1>6, <1>9, <1>10, <2>1, SMTT(60)
<1> QED BY <1>11 DEF Common, f, g

(* Nothing is shared with a text that has no words left.                   *)
LEMMA CommonEnds ==
    ASSUME NEW W, IsFiniteSet(W), NEW c \in Seq(Nat), NEW d \in Seq(Nat),
           NEW n \in Nat, NEW m \in Nat, n = Len(c) \/ m = Len(d)
    PROVE  Common(W, c, n, d, m) = 0
<1> DEFINE f == [w \in W |-> Min({After(c, n, w), After(d, m, w)})]
<1>1. ASSUME NEW w \in W PROVE f[w] = 0
  <2>1. After(c, n, w) \in Nat /\ After(d, m, w) \in Nat
    BY AfterIsNat
  <2>2. After(c, n, w) = 0 \/ After(d, m, w) = 0
    BY AfterAll, LenProperties
  <2>3. \A a, b \in Int : Min({a, b}) = IF a <= b THEN a ELSE b
    BY MinOfTwo
  <2> QED BY <2>1, <2>2, <2>3
<1> HIDE DEF f
<1> QED BY <1>1, SumOfZeros DEF Common, f

(* sort.Strings: a copy in order has the same words as often.              *)
SortedCopy(s, c) ==
    /\ c \in Seq(Nat) /\ Len(c) = Len(s) /\ Ordered(c)
    /\ \A k \in 1..Len(c) : c[k] \in Range(s)
    /\ \A w : After(c, 0, w) = Count(s, w)

LEMMA SortedText ==
    ASSUME NEW s \in Seq(Nat)
    PROVE  SortedCopy(s, InOrder(s))
<1> DEFINE n == Len(s)
           D == 1..n
           R == {p \in D \X D : s[p[1]] < s[p[2]] \/ (s[p[1]] = s[p[2]] /\ p[1] < p[2])}
           Sorts(p) == \A j, k \in D : j < k => s[p[j]] <= s[p[k]]
<1>1. n \in Nat /\ DOMAIN s = D /\ IsFiniteSet(D) /\ Cardinality(D) = n /\ \A k \in D : s[k] \in Nat
  <2>1. n \in Nat /\ DOMAIN s = D /\ \A k \in D : s[k] \in Nat
    BY LenProperties, ElementOfSeq
  <2>2. IsFiniteSet(D) /\ Cardinality(D) = n
    <3>1. 1 \in Int /\ n \in Nat
      BY <2>1
    <3> HIDE DEF n
    <3>2. IsFiniteSet(1..n) /\ Cardinality(1..n) = IF 1 > n THEN 0 ELSE n - 1 + 1
      BY <3>1, FS_Interval
    <3> QED BY <3>1, <3>2
  <2> QED BY <2>1, <2>2
<1>2. \A j, k \in D : <<j, k>> \in R <=> s[j] < s[k] \/ (s[j] = s[k] /\ j < k)
  OBVIOUS
<1>3. \A k \in D : k \in Nat
  BY <1>1
<1>4. D = 1..Cardinality(D)
  BY <1>1
<1> HIDE DEF R, D, n
<1>5. StrictTotal(R, D)
  <2> DEFINE Ahead(j, k) == s[j] < s[k] \/ (s[j] = s[k] /\ j < k)
  <2>1. ASSUME NEW j \in D PROVE ~Ahead(j, j)
    BY <1>1, <1>3
  <2>2. ASSUME NEW j \in D, NEW k \in D, NEW l \in D, Ahead(j, k), Ahead(k, l) PROVE Ahead(j, l)
    <3>1. s[j] \in Nat /\ s[k] \in Nat /\ s[l] \in Nat /\ j \in Nat /\ k \in Nat /\ l \in Nat
      BY <1>1, <1>3
    <3> QED BY <2>2, <3>1
  <2>3. ASSUME NEW j \in D, NEW k \in D PROVE j = k \/ Ahead(j, k) \/ Ahead(k, j)
    BY <1>1, <1>3
  <2> HIDE DEF Ahead
  <2>4. \A j, k \in D : <<j, k>> \in R <=> Ahead(j, k)
    BY <1>2 DEF Ahead
  <2> QED BY <2>1, <2>2, <2>3, <2>4 DEF StrictTotal
<1>6. PICK f : f \in Sortings(R, D)
  BY <1>1, <1>5, SortingExists
<1>7. f \in [D -> D] /\ \A j, k \in D : j < k => <<f[j], f[k]>> \in R
  BY <1>4, <1>6 DEF Sortings
<1>8. \A k \in D : \E j \in D : f[j] = k
  <2>1. \A k \in D : \E j \in 1..Cardinality(D) : f[j] = k
    BY <1>1, <1>5, <1>6, SortingCovers
  <2> QED BY <1>4, <2>1
<1>9. Sorts(f)
  <2>1. ASSUME NEW j \in D, NEW k \in D, j < k PROVE s[f[j]] <= s[f[k]]
    <3>1. f[j] \in D /\ f[k] \in D /\ (s[f[j]] < s[f[k]] \/ s[f[j]] = s[f[k]])
      BY <1>2, <1>7, <2>1
    <3>2. s[f[j]] \in Nat /\ s[f[k]] \in Nat
      BY <1>1, <3>1
    <3> QED BY <3>1, <3>2
  <2> QED BY <2>1
<1>10. f \in Bijection(D, D)
  <2>1. f \in Surjection(D, D)
    BY <1>7, <1>8 DEF Surjection
  <2> QED BY <1>1, <2>1, FS_SurjSameCardinalityImpliesInj DEF Bijection
<1> DEFINE p == CHOOSE h \in Bijection(D, D) : Sorts(h)
<1>11. p \in Bijection(D, D) /\ Sorts(p)
  BY <1>9, <1>10
<1> DEFINE c == InOrder(s)
<1>12. c = [k \in D |-> s[p[k]]]
  BY <1>1 DEF InOrder
<1> HIDE DEF p, c
<1>13. p \in [D -> D] /\ (\A k \in D : \E j \in D : p[j] = k) /\ \A j, k \in D : p[j] = p[k] => j = k
  BY <1>11 DEF Bijection, Injection, Surjection, IsInjective
<1> HIDE DEF Sorts
<1>14. c \in Seq(Nat) /\ Len(c) = n /\ DOMAIN c = D
  <2>1. c \in [D -> Nat]
    BY <1>1, <1>13, <1>12
  <2>2. c \in Seq(Nat) /\ Len(c) = n
    BY <1>1, <2>1 DEF D
  <2> QED BY <2>1, <2>2
<1>15. Ordered(c)
  <2>1. ASSUME NEW j \in D, NEW k \in D, j < k PROVE c[j] <= c[k]
    <3>1. s[p[j]] <= s[p[k]]
      BY <1>11, <2>1 DEF Sorts
    <3> QED BY <1>12, <3>1
  <2> QED BY <1>14, <2>1 DEF Ordered, D
<1>16. \A k \in D : c[k] \in Range(s)
  BY <1>1, <1>13, <1>12 DEF Range
<1>17. ASSUME NEW w PROVE After(c, 0, w) = Count(s, w)
  <2> DEFINE P == {k \in DOMAIN c : k > 0 /\ c[k] = w}
             Q == {k \in DOMAIN s : s[k] = w}
             h == [k \in P |-> p[k]]
  <2>1. IsFiniteSet(P)
    BY <1>1, <1>14, FS_Subset
  <2>2. \A k \in P : k \in D /\ p[k] \in Q
    BY <1>1, <1>13, <1>12, <1>14
  <2>3. \A k \in Q : \E j \in P : p[j] = k
    <3>1. ASSUME NEW k \in Q PROVE \E j \in P : p[j] = k
      <4>1. PICK j \in D : p[j] = k
        BY <1>1, <1>13
      <4>2. j > 0 /\ c[j] = w
        BY <1>12, <3>1, <4>1 DEF D
      <4> QED BY <1>14, <4>1, <4>2
    <3> QED BY <3>1
  <2> HIDE DEF P, Q
  <2>4. h \in Bijection(P, Q)
    BY <1>13, <2>2, <2>3 DEF Bijection, Injection, Surjection, IsInjective
  <2>5. Cardinality(Q) = Cardinality(P)
    BY <2>1, <2>4, FS_Bijection DEF ExistsBijection
  <2> QED BY <2>5 DEF After, Count, P, Q
<1>18. SortedCopy(s, c)
  BY <1>14, <1>15, <1>16, <1>17 DEF SortedCopy, D, n
<1> QED BY <1>18 DEF c

-----------------------------------------------------------------------------
(* The invariant of both loops: the row holds the distances of each prefix *)
(* of left from what was seen of right; the count and what is still to be  *)
(* found come to what the texts share.                                     *)
Shared == Range(text[1]) \cap Range(text[2])

InBoth(answers) == answers = SumFunction([w \in Shared |-> Min({Count(text[1], w), Count(text[2], w)})])

EditInv ==
    task = "edit" =>
        /\ text[1] \in Seq(Letters) /\ text[2] \in Seq(Letters)
        /\ stage \in {"start", "edit", "done"}
        /\ stage # "start" => Loaded
        /\ stage = "edit" =>
              /\ at \in 0..Len(right)
              /\ \A k \in 0..Len(left) : Distance(left, right, k, at, row[k])
        /\ stage = "done" => Distance(left, right, Len(left), Len(right), answer)

DiceInv ==
    task = "dice" =>
        /\ text[1] \in Seq(Letters) /\ text[2] \in Seq(Letters)
        /\ stage \in {"start", "dice", "done"}
        /\ stage = "dice" =>
              /\ SortedCopy(text[1], left) /\ SortedCopy(text[2], right)
              /\ row = <<row[1], row[2]>> /\ row[1] \in 0..Len(left) /\ at \in 0..Len(right)
              /\ row[2] \in Nat
              /\ InBoth(row[2] + Common(Shared, left, row[1], right, at))
        /\ stage = "done" => InBoth(answer)

LEMMA TextsAreAnswered == EditInv /\ DiceInv => TextsAreCompared
<1> SUFFICES ASSUME EditInv, DiceInv, stage = "done" PROVE task \in {"edit", "dice"} => TextsAreCompared
  BY DEF TextsAreCompared
<1>1. ASSUME task = "edit" PROVE answer = Min({Edits(text[1], text[2], p) : p \in Alignments(text[1], text[2])})
  <2>1. /\ text[1] \in Seq(Letters) /\ text[2] \in Seq(Letters) /\ Loaded
        /\ Distance(left, right, Len(left), Len(right), answer)
    BY <1>1 DEF EditInv
  <2>2. /\ Len(text[1]) \in Nat /\ DOMAIN text[1] = 1..Len(text[1])
        /\ Len(text[2]) \in Nat /\ DOMAIN text[2] = 1..Len(text[2])
    BY <2>1, LenProperties
  <2>3. Distance(text[1], text[2], Len(text[1]), Len(text[2]), answer)
    <3>1. CASE Swapped
      <4>1. left = text[2] /\ right = text[1]
        BY <2>1, <3>1 DEF Loaded
      <4> QED BY <2>1, <2>2, <4>1, DistanceFlips
    <3>2. CASE ~Swapped
      BY <2>1, <3>2 DEF Loaded
    <3> QED BY <3>1, <3>2
  <2> QED BY <2>2, <2>3, DistanceIsMin
<1>2. ASSUME task = "dice" PROVE InBoth(answer)
  BY <1>2 DEF DiceInv
<1> QED BY <1>1, <1>2 DEF TextsAreCompared, InBoth, Shared

LEMMA CompareInitHolds == TextInit => EditInv /\ DiceInv
<1> SUFFICES ASSUME TextInit, task \in {"edit", "dice"} PROVE EditInv /\ DiceInv
  BY DEF EditInv, DiceInv
<1>1. stage = "start" /\ text \in TextPairs
  BY DEF TextInit
<1>2. text[1] \in SeqOf(Letters, MaxLetters) /\ text[2] \in SeqOf(Letters, MaxLetters)
  BY <1>1 DEF TextPairs
<1>3. ASSUME NEW s \in SeqOf(Letters, MaxLetters) PROVE s \in Seq(Letters)
  <2>1. PICK m \in 0..MaxLetters : s \in [1..m -> Letters]
    BY DEF SeqOf
  <2>2. m \in Nat
    BY SimilarityAssumption
  <2> QED BY <2>1, <2>2
<1> QED BY <1>1, <1>2, <1>3 DEF EditInv, DiceInv

LEMMA EditBegins == ASSUME EditInv, Begin, task = "edit" PROVE EditInv'
<1>1. /\ at' = 0 /\ SameInputs /\ text[1] \in Seq(Letters) /\ text[2] \in Seq(Letters)
      /\ left' = (IF Swapped THEN text[2] ELSE text[1])
      /\ right' = (IF Swapped THEN text[1] ELSE text[2])
  BY DEF EditInv, Begin, SameInputs
<1>2. Loaded'
  BY <1>1 DEF SameInputs, Loaded, Swapped
<1>3. left' \in Seq(Letters) /\ right' \in Seq(Letters)
  BY <1>1
<1>4. Len(left') \in Nat /\ Len(right') \in Nat
  BY <1>3, LenProperties
<1>5. CASE left' # <<>>
  <2>1. row' = [k \in 0..Len(left') |-> k] /\ stage' = "edit"
    BY <1>5 DEF Begin
  <2>2. ASSUME NEW k \in 0..Len(left') PROVE Distance(left', right', k, at', row'[k])
    BY <1>1, <1>4, <2>1, DistanceFromNothing
  <2>3. at' \in 0..Len(right')
    BY <1>1, <1>4
  <2> QED BY <1>1, <1>2, <2>1, <2>2, <2>3 DEF EditInv, SameInputs
<1>6. CASE left' = <<>>
  <2>1. answer' = Len(right') /\ stage' = "done"
    BY <1>6 DEF Begin, Finish
  <2>2. Len(left') = 0
    BY <1>6
  <2>3. Distance(left', right', Len(left'), Len(right'), answer')
    BY <1>4, <2>1, <2>2, DistanceFromNothing
  <2> QED BY <1>1, <1>2, <2>1, <2>3 DEF EditInv, SameInputs
<1> QED BY <1>5, <1>6

LEMMA EditRowKeeps == ASSUME EditInv, EditRow, task = "edit" PROVE EditInv'
<1>1. /\ stage = "edit" /\ SameInputs /\ left' = left /\ right' = right /\ Loaded
      /\ text[1] \in Seq(Letters) /\ text[2] \in Seq(Letters)
      /\ at \in 0..Len(right) /\ \A k \in 0..Len(left) : Distance(left, right, k, at, row[k])
  BY DEF EditInv, EditRow, Iterate, Return, SameInputs
<1>2. Loaded'
  BY <1>1 DEF SameInputs, Loaded, Swapped
<1>3. Len(left) \in Nat /\ Len(right) \in Nat
  BY <1>1, LenProperties DEF Loaded
<1>4. CASE at < Len(right) /\ at' = at + 1 /\ Iterate(Distances(at + 1))
  <2>1. row' = Distances(at + 1) /\ stage' = "edit" /\ at' \in 0..Len(right) /\ at \in Nat
    BY <1>1, <1>3, <1>4 DEF Iterate
  <2>2. \A k \in 0..Len(left) : Distance(left, right, k, at + 1, Distances(at + 1)[k])
    BY <1>1, <1>3, <2>1, NextDistances
  <2> QED BY <1>1, <1>2, <1>4, <2>1, <2>2 DEF EditInv, SameInputs
<1>5. CASE at = Len(right) /\ Finish(row[Len(left)]) /\ Return
  <2>1. answer' = row[Len(left)] /\ stage' = "done"
    BY <1>5 DEF Finish
  <2>2. Distance(left, right, Len(left), Len(right), row[Len(left)])
    BY <1>1, <1>3, <1>5
  <2> QED BY <1>1, <1>2, <2>1, <2>2 DEF EditInv, SameInputs
<1> QED BY <1>4, <1>5 DEF EditRow

(* A word of both texts, counted in the copies.                            *)
LEMMA SharedWords ==
    ASSUME text[1] \in Seq(Nat), text[2] \in Seq(Nat)
    PROVE  /\ IsFiniteSet(Shared)
           /\ \A c, d : SortedCopy(text[1], c) /\ SortedCopy(text[2], d) => InBoth(Common(Shared, c, 0, d, 0))
           /\ text[1] = <<>> \/ text[2] = <<>> => InBoth(0)
<1>1. IsFiniteSet(Shared)
  <2> DEFINE s == text[1]
             D == 1..Len(s)
  <2>1. s \in [D -> Nat] /\ DOMAIN s = D /\ Len(s) \in Nat
    BY LenProperties
  <2>2. IsFiniteSet(D)
    <3>1. 1 \in Int /\ Len(s) \in Int
      BY <2>1
    <3> QED BY <3>1, FS_Interval
  <2> HIDE DEF s, D
  <2>3. s \in Surjection(D, Range(s))
    BY <2>1 DEF Range, Surjection
  <2>4. IsFiniteSet(Range(s))
    BY <2>2, <2>3, FS_Surjection
  <2> QED BY <2>4, FS_Subset DEF Shared, s
<1>2. ASSUME NEW c, NEW d, SortedCopy(text[1], c), SortedCopy(text[2], d)
      PROVE  InBoth(Common(Shared, c, 0, d, 0))
  <2>1. /\ \A w : After(c, 0, w) = Count(text[1], w)
        /\ \A w : After(d, 0, w) = Count(text[2], w)
    BY <1>2 DEF SortedCopy
  <2>2. [w \in Shared |-> Min({After(c, 0, w), After(d, 0, w)})]
            = [w \in Shared |-> Min({Count(text[1], w), Count(text[2], w)})]
    BY <2>1
  <2> QED BY <2>2 DEF InBoth, Common, SumFunction
<1>3. ASSUME text[1] = <<>> \/ text[2] = <<>> PROVE InBoth(0)
  <2> DEFINE f == [w \in Shared |-> Min({Count(text[1], w), Count(text[2], w)})]
  <2>1. Shared = {}
    BY <1>3 DEF Shared, Range
  <2>2. DOMAIN f = {}
    BY <2>1
  <2> HIDE DEF f
  <2>3. SumFunctionOnSet(f, {}) = 0
    BY FS_EmptySet, SumOfZeros
  <2> QED BY <2>2, <2>3 DEF InBoth, SumFunction, f
<1> QED BY <1>1, <1>2, <1>3

LEMMA DiceBegins == ASSUME DiceInv, Begin, task = "dice" PROVE DiceInv'
<1>1. /\ at' = 0 /\ SameInputs /\ text[1] \in Seq(Letters) /\ text[2] \in Seq(Letters)
      /\ left' = InOrder(text[1]) /\ right' = InOrder(text[2])
  BY DEF DiceInv, Begin, SameInputs
<1>2. text[1] \in Seq(Nat) /\ text[2] \in Seq(Nat)
  BY <1>1, SimilarityAssumption, SeqMonotonic
<1>3. SortedCopy(text[1], left') /\ SortedCopy(text[2], right')
  BY <1>1, <1>2, SortedText
<1>4. Len(left') \in Nat /\ Len(right') \in Nat
  BY <1>3, LenProperties DEF SortedCopy
<1>5. text' = text /\ task' = task
  BY <1>1 DEF SameInputs
<1>6. CASE left' # <<>> /\ right' # <<>>
  <2>1. row' = <<0, 0>> /\ stage' = "dice"
    BY <1>6 DEF Begin
  <2>2. InBoth(Common(Shared, left', 0, right', 0))
    BY <1>2, <1>3, SharedWords
  <2> DEFINE x == Common(Shared, left', 0, right', 0)
  <2>3. x \in Int
    <3>1. IsFiniteSet(Shared)
      BY <1>2, SharedWords
    <3> QED BY <1>3, <3>1, CommonIsInt DEF SortedCopy
  <2> HIDE DEF x
  <2>4. InBoth(row'[2] + x)
    <3>1. row'[2] + x = x
      BY <2>1, <2>3
    <3> QED BY <2>2, <3>1 DEF x
  <2> QED BY <1>1, <1>3, <1>4, <1>5, <2>1, <2>4 DEF DiceInv, InBoth, Shared, x
<1>7. CASE left' = <<>> \/ right' = <<>>
  <2>1. answer' = 0 /\ stage' = "done"
    BY <1>7 DEF Begin, Finish
  <2>2. text[1] = <<>> \/ text[2] = <<>>
    <3>1. Len(text[1]) = 0 \/ Len(text[2]) = 0
      BY <1>3, <1>7 DEF SortedCopy
    <3> QED BY <1>1, <3>1, EmptySeq
  <2>3. InBoth(0)
    BY <1>2, <2>2, SharedWords
  <2> QED BY <1>1, <1>5, <2>1, <2>3 DEF DiceInv, InBoth, Shared
<1> QED BY <1>6, <1>7

LEMMA MergeKeeps == ASSUME DiceInv, MergeWords, task = "dice" PROVE DiceInv'
<1> DEFINE n == row[1]
           found == row[2]
           l == left[n + 1]
           u == right[at + 1]
           total(c, k, m) == InBoth(c + Common(Shared, left, k, right, m))
<1>1. /\ stage = "dice" /\ text' = text /\ task' = task /\ left' = left /\ right' = right
      /\ text[1] \in Seq(Letters) /\ text[2] \in Seq(Letters)
  BY DEF DiceInv, MergeWords, Iterate, Return
<1>2. /\ SortedCopy(text[1], left) /\ SortedCopy(text[2], right)
      /\ n \in 0..Len(left) /\ at \in 0..Len(right) /\ found \in Nat
      /\ total(found, n, at)
  BY <1>1 DEF DiceInv
<1>3. /\ left \in Seq(Nat) /\ right \in Seq(Nat) /\ Len(left) \in Nat /\ Len(right) \in Nat
      /\ Ordered(left) /\ Ordered(right) /\ n \in Nat /\ at \in Nat
      /\ \A k \in 1..Len(left) : left[k] \in Range(text[1]) /\ left[k] \in Nat
      /\ \A k \in 1..Len(right) : right[k] \in Range(text[2]) /\ right[k] \in Nat
  BY <1>2, LenProperties, ElementOfSeq, SMTT(60) DEF SortedCopy
<1>4. IsFiniteSet(Shared)
  <2>1. text[1] \in Seq(Nat) /\ text[2] \in Seq(Nat)
    BY <1>1, SimilarityAssumption, SeqMonotonic
  <2> QED BY <2>1, SharedWords
<1> HIDE DEF n, found
<1>5. CASE n < Len(left) /\ at < Len(right)
  <2>1. l \in Nat /\ u \in Nat /\ n + 1 \in 1..Len(left) /\ at + 1 \in 1..Len(right)
    BY <1>3, <1>5
  <2>2. /\ at' = IF l < u THEN at ELSE at + 1
        /\ row' = <<IF l > u THEN n ELSE n + 1, IF l = u THEN found + 1 ELSE found>>
        /\ stage' = "dice"
    BY <1>1, <1>3, <1>5 DEF MergeWords, Iterate, n, found
  <2>3. total(row'[2], row'[1], at')
    <3>1. CASE l < u
      <4>1. row'[1] = n + 1 /\ row'[2] = found /\ at' = at
        BY <2>1, <2>2, <3>1
      <4>2. Common(Shared, left, n, right, at) = Common(Shared, left, n + 1, right, at)
        BY <1>3, <1>4, <1>5, <3>1, CommonStays
      <4> HIDE DEF l, u
      <4> QED BY <1>2, <4>1, <4>2
    <3>2. CASE l > u
      <4>1. row'[1] = n /\ row'[2] = found /\ at' = at + 1
        BY <2>1, <2>2, <3>2
      <4>2. Common(Shared, right, at, left, n) = Common(Shared, right, at + 1, left, n)
        <5>1. u < l
          BY <2>1, <3>2
        <5> QED BY <1>3, <1>4, <1>5, <5>1, CommonStays
      <4>3. Common(Shared, left, n, right, at) = Common(Shared, left, n, right, at + 1)
        BY <4>2, CommonTurns
      <4> HIDE DEF l, u
      <4> QED BY <1>2, <4>1, <4>3
    <3>3. CASE l = u
      <4> DEFINE rest == Common(Shared, left, n + 1, right, at + 1)
      <4>1. row'[1] = n + 1 /\ row'[2] = found + 1 /\ at' = at + 1
        BY <2>1, <2>2, <3>3
      <4>2. l \in Shared
        BY <1>3, <2>1, <3>3 DEF Shared
      <4>3. Common(Shared, left, n, right, at) = rest + 1 /\ rest \in Int
        BY <1>3, <1>4, <1>5, <3>3, <4>2, CommonCounts
      <4> HIDE DEF l, u, rest
      <4>4. found + Common(Shared, left, n, right, at) = (found + 1) + rest
        BY <1>2, <4>3
      <4> QED BY <1>2, <4>1, <4>4 DEF rest
    <3> QED BY <2>1, <3>1, <3>2, <3>3
  <2>4. /\ row' = <<row'[1], row'[2]>> /\ row'[1] \in 0..Len(left) /\ at' \in 0..Len(right)
        /\ row'[2] \in Nat
    BY <1>2, <1>3, <1>5, <2>1, <2>2
  <2> HIDE DEF l, u
  <2> QED BY <1>1, <1>2, <2>2, <2>3, <2>4 DEF DiceInv, InBoth, Shared
<1>6. CASE ~(n < Len(left) /\ at < Len(right))
  <2>1. n = Len(left) \/ at = Len(right)
    BY <1>2, <1>3, <1>6
  <2>2. stage' = "done" /\ answer' = found
    BY <1>6 DEF MergeWords, Finish, n, found
  <2>3. Common(Shared, left, n, right, at) = 0
    BY <1>3, <1>4, <2>1, CommonEnds
  <2>4. found + Common(Shared, left, n, right, at) = found
    BY <1>2, <2>3
  <2>5. InBoth(found)
    BY <1>2, <2>4
  <2> QED BY <1>1, <2>2, <2>5 DEF DiceInv, InBoth, Shared
<1> QED BY <1>5, <1>6

LEMMA CompareStepKeeps == EditInv /\ DiceInv /\ [TextNext]_textVars => EditInv' /\ DiceInv'
<1> SUFFICES ASSUME EditInv, DiceInv, [TextNext]_textVars PROVE EditInv' /\ DiceInv'
  OBVIOUS
<1>1. task' = task
  BY DEF TextNext, Begin, AssignRight, GreedyPair, EditRow, MergeWords, Iterate, Return, textVars
<1>2. CASE UNCHANGED textVars
  <2>1. /\ SameInputs /\ stage' = stage /\ left' = left /\ right' = right /\ at' = at
        /\ row' = row /\ answer' = answer
    BY <1>2 DEF textVars, SameInputs
  <2>2. text' = text /\ task' = task /\ (Loaded' <=> Loaded)
    BY <2>1 DEF Loaded, Swapped, SameInputs
  <2>3. EditInv'
    BY <2>1, <2>2 DEF EditInv
  <2>4. DiceInv'
    BY <2>1, <2>2 DEF DiceInv, InBoth, Shared
  <2> QED BY <2>3, <2>4
<1>3. CASE task = "edit" /\ TextNext
  <2>1. DiceInv'
    BY <1>1, <1>3 DEF DiceInv
  <2>2. CASE Begin
    BY <1>3, <2>1, <2>2, EditBegins
  <2>3. CASE EditRow
    BY <1>3, <2>1, <2>3, EditRowKeeps
  <2>4. stage \notin {"masks", "greedy", "dice"}
    BY <1>3 DEF EditInv
  <2> QED BY <1>3, <2>2, <2>3, <2>4 DEF TextNext, AssignRight, GreedyPair, MergeWords
<1>4. CASE task = "dice" /\ TextNext
  <2>1. EditInv'
    BY <1>1, <1>4 DEF EditInv
  <2>2. CASE Begin
    BY <1>4, <2>1, <2>2, DiceBegins
  <2>3. CASE MergeWords
    BY <1>4, <2>1, <2>3, MergeKeeps
  <2>4. stage \notin {"masks", "greedy", "edit"}
    BY <1>4 DEF DiceInv
  <2> QED BY <1>4, <2>2, <2>3, <2>4 DEF TextNext, AssignRight, GreedyPair, EditRow
<1>5. CASE task \notin {"edit", "dice"}
  BY <1>1, <1>5 DEF EditInv, DiceInv
<1> QED BY <1>2, <1>3, <1>4, <1>5

(* levenshtein and tokenDice, for texts of any length over any alphabet:   *)
(* two rows give the least number of edits of all alignments, the merge    *)
(* counts each word as often as both texts have it.                        *)
THEOREM ComparisonsAreExact == TextSpec => []TextsAreCompared
<1> QED BY TextsAreAnswered, CompareInitHolds, CompareStepKeeps, PTL DEF TextSpec

=============================================================================
