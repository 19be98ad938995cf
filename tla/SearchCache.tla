---------------------------- MODULE SearchCache ----------------------------
(***************************************************************************)
(* The search cache (cache/search.go) of imports that run at the same      *)
(* time: each loads the file once and replaces it with its own index after *)
(* every answer of Beatport; `cache clear` removes it (cli/commands.go).   *)
(*                                                                         *)
(* Tracks are left out: an answer is the time Beatport gave it.            *)
(***************************************************************************)
EXTENDS Integers, Sequences, FiniteSets

CONSTANTS
    Procs,      \* the imports
    Queries,    \* normalized keys
    TTL,
    MaxTime,    \* bound: the clock
    MaxClears,  \* bound: `cache clear`
    Absent, Corrupt, OtherSchema        \* model values: the file's other contents

ASSUME TimeAssumption == TTL \in Nat \ {0} /\ MaxTime \in Nat \ {0} /\ MaxClears \in Nat

(* entry: StoredAt, 0 when there is none, and a history: the clears before.*)
Entry == [at : 0..MaxTime, clears : 0..MaxClears]
NoEntry == [at |-> 0, clears |-> 0]
Index == [Queries -> Entry]
Empty == [q \in Queries |-> NoEntry]

(* What is no index at all is none of the indexes.                         *)
ASSUME FileAssumption ==
    /\ Absent \notin Index /\ Corrupt \notin Index /\ OtherSchema \notin Index
    /\ Absent # Corrupt

VARIABLES
    now,        \* the clock
    file,       \* beatport-search.json
    using,      \* per import: "idle", "cached", "writing", "uncached"
    entries,    \* SearchCache.entries
    temporary,  \* the temporary file of a Put
    held,       \* history: per clear, the queries to which a running import held an answer
    hit         \* history: the last hit of a Get, if any, and when it was

cacheVars == <<now, file, using, entries, temporary, held, hit>>

CacheInit ==
    /\ now = 1
    /\ file \in {Absent, Corrupt, OtherSchema}
    /\ using = [p \in Procs |-> "idle"]
    /\ entries = [p \in Procs |-> Empty]
    /\ temporary = [p \in Procs |-> Absent]
    /\ held = <<>>
    /\ hit = {}

NewEntry == [at |-> now, clears |-> Len(held)]

Fresh(entry) == entry.at # 0 /\ now - entry.at < TTL

(* pruneExpiredLocked *)
Pruned(index) == [q \in Queries |-> IF Fresh(index[q]) THEN index[q] ELSE NoEntry]

(* What is no index, of another schema say, is taken for an empty one.     *)
Open(p) ==
    /\ using[p] = "idle" /\ file # Corrupt
    /\ using' = [using EXCEPT ![p] = "cached"]
    /\ entries' = [entries EXCEPT ![p] = IF file \in Index THEN Pruned(file) ELSE Empty]
    /\ UNCHANGED <<now, file, temporary, held, hit>>

(* An import that cannot read the file, or finds more than 64 MiB in it,   *)
(* goes on without a cache.                                                *)
OpenFails(p) ==
    /\ using[p] = "idle"
    /\ using' = [using EXCEPT ![p] = "uncached"]
    /\ UNCHANGED <<now, file, entries, temporary, held, hit>>

Served(p, q) ==
    /\ hit' = {[entry |-> entries[p][q], query |-> q, on |-> now,
                clears |-> Len(held)]}
    /\ UNCHANGED <<now, file, using, entries, temporary, held>>

(* Mutant: what was pruned on loading is taken to be fresh.                *)
GetUnchecked(p, q) == using[p] = "cached" /\ entries[p][q].at # 0 /\ Served(p, q)

Get(p, q) == using[p] = "cached" /\ Fresh(entries[p][q]) /\ Served(p, q)

(* Mutant: the file is written in place.                                   *)
PutInPlace(p, q) ==
    /\ using[p] = "cached" /\ ~Fresh(entries[p][q])
    /\ entries' = [entries EXCEPT ![p] = Pruned([@ EXCEPT ![q] = NewEntry])]
    /\ temporary' = [temporary EXCEPT ![p] = entries'[p]]
    /\ file' = Corrupt
    /\ using' = [using EXCEPT ![p] = "writing"]
    /\ UNCHANGED <<now, held, hit>>

(* Get misses, Beatport answers, and the answer joins the index, which is  *)
(* written to a temporary file.                                            *)
Put(p, q) ==
    /\ using[p] = "cached" /\ ~Fresh(entries[p][q])
    /\ entries' = [entries EXCEPT ![p] = Pruned([@ EXCEPT ![q] = NewEntry])]
    /\ temporary' = [temporary EXCEPT ![p] = entries'[p]]
    /\ using' = [using EXCEPT ![p] = "writing"]
    /\ UNCHANGED <<now, file, held, hit>>

(* writeAtomic renames it over the cache; no other import is asked.        *)
Rename(p) ==
    /\ using[p] = "writing"
    /\ file' = temporary[p]
    /\ temporary' = [temporary EXCEPT ![p] = Absent]
    /\ using' = [using EXCEPT ![p] = "cached"]
    /\ UNCHANGED <<now, entries, held, hit>>

(* The disk is full, say: the temporary file is removed, the index keeps   *)
(* the answer, and searchQuery ignores the error.                          *)
PutFails(p) ==
    /\ using[p] = "writing"
    /\ temporary' = [temporary EXCEPT ![p] = Absent]
    /\ using' = [using EXCEPT ![p] = "cached"]
    /\ UNCHANGED <<now, file, entries, held, hit>>

(* The import ends, or dies; a temporary file that stays is never read.    *)
Leave(p) ==
    /\ using[p] # "idle"
    /\ using' = [using EXCEPT ![p] = "idle"]
    /\ entries' = [entries EXCEPT ![p] = Empty]
    /\ temporary' = [temporary EXCEPT ![p] = Absent]
    /\ UNCHANGED <<now, file, held, hit>>

(* The file is removed; no running import is told.                         *)
Clear ==
    /\ Len(held) < MaxClears
    /\ held' = Append(held, {q \in Queries : \E p \in Procs : entries[p][q] # NoEntry})
    /\ file' = Absent
    /\ UNCHANGED <<now, using, entries, temporary, hit>>

Tick ==
    /\ now < MaxTime
    /\ now' = now + 1
    /\ UNCHANGED <<file, using, entries, temporary, held, hit>>

ImportStep(p) ==
    \/ Open(p) \/ OpenFails(p) \/ Rename(p) \/ PutFails(p) \/ Leave(p)
    \/ \E q \in Queries : Get(p, q) \/ Put(p, q)

CacheNext == (\E p \in Procs : ImportStep(p)) \/ Clear \/ Tick

CacheSpec == CacheInit /\ [][CacheNext]_cacheVars

-----------------------------------------------------------------------------

(* Whatever imports write over each other, die or outlast the TTL: an      *)
(* answer from the cache is one that Beatport gave less than the TTL ago;  *)
(* and it outlives a `cache clear` only when an import that ran through    *)
(* the clear held an answer to the same query in memory then.              *)
HitsAreCurrent ==
    \A h \in hit :
        /\ h.on - h.entry.at < TTL
        /\ \A c \in (h.entry.clears + 1)..h.clears : h.query \in held[c]

(* "Atomic replacement": no failure or death in the middle of a Put leaves *)
(* a file that the next import cannot read.                                *)
FileStaysReadable == [][file' = Corrupt => file = Corrupt]_cacheVars

=============================================================================
