# bpbridge, specified in TLA+

bpbridge is a command-line program that takes the tracks of a Spotify playlist,
or of a text file, finds each of them on Beatport, and appends the ones that
are missing to a Beatport playlist. This directory holds TLA+ specifications
of it, the TLC models that check them, and TLAPS proofs of theorems about eight
of them. Paths below are relative to the repository, `src/` in
`PROJECT.json`. Line by line, every definition is traced to the Go code there
under `map`.

## 1. The system

An import is one process with one goroutine that matters, and yet most of what
can go wrong in it is concurrency: with Beatport, whose answer to a write may
be lost although the write happened; with other clients of the same playlist;
with other terminals that share the credential store and the cache file; with
the user, who may interrupt it anywhere; and with its own earlier run.

| Component | Code | State | Operations | Talks to |
|---|---|---|---|---|
| import engine | `internal/syncer/syncer.go` | outcomes, membership of the target, cancelled context | load target, match rows, plan, create, add, re-read after a failed add | Beatport client, matcher, cache, resolver |
| playlist planning | `internal/playlist/dedupe.go` | none | mark source duplicates, build the plan | called by the engine |
| staged row search | `syncer.go` (searchSource), `internal/matcher/query.go` | candidates gathered, passes done | query by query, stop early, verdict | cache, Beatport client, matcher |
| interactive resolver | `internal/ui/resolver.go` | list shown, number of lines shown | choose, skip, custom search, more | search callback of the engine |
| candidate scoring | `internal/matcher/score.go` | none | score, rank, confidence | settings of the import command |
| texts | `internal/matcher/{normalize,title,similarity}.go` | none | normalize, classify versions, compare | called by scoring |
| Beatport HTTP client | `internal/beatport/client.go` | attempt counters of one request | request, retry, answer a 401, page a list | auth manager |
| Beatport authentication | `internal/beatport/auth.go` | token, loaded | load, refresh, save, import, log out | credential store |
| Spotify authorization | `internal/spotify/{auth,pkce,callback}.go`, `internal/cli/auth.go` | one attempt's state value, the listener | start, callback, timeout, exchange, store | browser, Spotify, credential store |
| Spotify API client | `internal/spotify/client.go` | token, page | fetch with retries, page a playlist | token manager |
| search cache | `internal/cache/search.go` | index in memory, the file | open, get, put, clear | file system |
| credential store | `internal/credentials` | one secret per provider | load, save, delete | operating system |
| import command | `internal/cli/import.go`, `target.go` | chosen target, approval | choose target, fetch source, run engine, report | all of the above |
| configuration | `internal/config`, `internal/cli/root.go` | the settings file | default, file, environment, flag; validate; save | every command |
| input, reports, terminal | `internal/input`, `internal/report`, `internal/cli/output.go`, `cmd/bpbridge` | none that lasts | parse, format | import command |

What makes each of them correct:

* **Engine**: no track is asked for twice in a run or when a run is repeated; the
  report says only what the target bears out, however the add was answered; one
  failing row costs no other row; a dry run writes nothing.
* **Planning**: two loops that look at source order, source duplicates,
  convergence on one track and membership must agree with what a duplicate-safe
  plan is.
* **Search and resolver**: "not found" is only said when every query was
  answered; stopping early must not hide a close rival; a choice by hand is one
  that was offered; nothing that happens in the dialogue may end the program.
* **Scoring**: weights that are tuned one at a time must not, together, select
  another song or another version.
* **Beatport requests**: a write takes effect at most once, all loops are
  bounded, and the stored refresh token is never left behind by a rotation.
* **Paging**: a list gathered page by page is one look at the playlist, and what a
  concurrent change takes from it is bounded.
* **Spotify**: only the callback of this very attempt is accepted, the stored
  token stays usable, every command ends.
* **Cache**: an answer from it is current; a reader never sees a half-written file.
* **Import command**: nothing is written without consent, nothing is asked where
  nobody can answer, and exit status 0 means that everything was reported.
* **Configuration**: the last layer that speaks of a setting decides it.
* **Text loops**: dynamic programs and merges compute what they stand for.

The places in the code where these are at risk are the `hazards` of
`PROJECT.json`, each with the properties that watch it.

## 2. Modules

| Module | Models | Checked by | Proved in |
|---|---|---|---|
| `PlaylistPlan` | the plan, as sets and functions over the source | used by `PlanLoop`, `Syncer` | |
| `PlanLoop` | the text parsers' loop, `MarkSourceDuplicates` and `BuildPlan` as the loops they are | `Loops.cfg` | `LocalProofs` |
| `Similarity` | the loops of `similarity.go`: artist assignment, its fallback, edit distance, word merge | `Loops.cfg` | `LocalProofs` |
| `Settings` | `config.Load`, `loadConfig`'s flag, `normalizedConfig`, what `setup` saves | `Loops.cfg` | `LocalProofs` |
| `Syncer` | `Engine.Run` against a Beatport account | `Syncer.cfg`, `SyncerRerun.cfg` | `SyncerProofs` |
| `ImportContract` | what an import promises, abstractly | `KeepsContract` in `Syncer.cfg` | `SyncerProofs` |
| `ImportCommand` | an import command from its flags to its exit status | `ImportCommand.cfg`, `ImportReport.cfg` | `ImportCommandProofs` |
| `RowSearch` | the search of one row and the resolver's dialogue | `RowSearch.cfg`, `RowSearchDialogue.cfg` | `RowSearchProofs` |
| `MatchPolicy` | scoring, ranking, confidence | `Loops.cfg` | `MatchPolicyProofs` |
| `BeatportSession` | requests, tokens and the credential store | `BeatportSession.cfg` | `BeatportSessionProofs` |
| `PlaylistRead` | reading a playlist at one moment, abstractly | `ReadsAtOnce` in `Paging.cfg` | `LocalProofs` |
| `Paging` | `GetPlaylistTracks` and Spotify's `FetchPlaylist` page by page | `Paging.cfg`, `PagingMissed.cfg` | `LocalProofs` |
| `SpotifySession` | authorization, token manager, fetch and persistence | `SpotifySession.cfg` | `SpotifySessionProofs` |
| `SearchCache` | the cache of several imports over one file | `SearchCache.cfg` | `LocalProofs` |

`OrderLemmas` holds what the proofs need of rankings and of sums, and models
nothing. `LocalProofs` is about five modules that never meet: they share it and no state,
and each of its parts reads on its own.

The `MC*` modules hold the values of the constants and the symmetry sets;
`MCLoops` also puts `PlanLoop`, `Similarity`, `Settings` and `MatchPolicy` side by
side, as four kinds of behaviour of one run, because none of them meets another.

How they compose: `Syncer` and `PlanLoop` extend `PlaylistPlan`; `PlanLoop`
shows that the loops compute the plan that `Syncer` takes in one step.
`Paging` implements `PlaylistRead` as long as nobody removes entries, or inserts
them in front. Where Beatport tells whether a page follows, that is one look at
the whole list, which is what lets `Syncer` read a target in one step
(`LoadTarget`, `Reconcile`) and `ImportCommand` fetch a source in one; a list
whose pages tell nothing, and which is longer than a page, is outside of what
`Syncer` presumes.
`ImportCommand` is the frame around `Syncer`: its steps from `load` to `append`
are `Engine.Run` reduced to what consent and the report depend on. `Settings`
says where the thresholds that `MatchPolicy` starts from come from, and
`Similarity` computes the degrees that `MatchPolicy` takes as given.
`RowSearch` opens up the one-step verdict of a row of `Syncer`: the statuses it
ends with are those that `Match` of `Syncer` chooses between; `MatchPolicy`
says what the scores and confidences that `RowSearch` takes as given can be.
`SearchCache` opens up the cache that `RowSearch` sees as hit or miss.
`BeatportSession` is the client beneath each call that `Syncer`, `RowSearch`
and `Paging` let succeed or fail: its at-most-once POST is why `AddConfirmed`
and `AddUncertain` of `Syncer` append at most one copy.

### PlaylistPlan and PlanLoop

A row is its source key (what `SourceKey` makes of artist and title), whether
it repeats an earlier key, a status and the chosen track. `BadTrack` stands for
every ID below 1, which `BuildPlan` refuses; `NoTrack` for a nil match.
`BuildPlan(outcomes, existing)` states for every row its status after planning,
by looking at the rows before it; `PlannedStatus` is the last of its cases.
`Lists(list, picked, value)` of `PlanLoop` says without a loop that a list holds
one value for each of a set of indices, in their order. `PlanLoop` walks the same rows with the
code's loops and its maps, one line or row a step: the parser (of a text, where
`#` begins a comment, or of `songs`, where it does not) marks the repeats it
sees, `MarkSourceDuplicates` marks them again, `BuildPlan` plans.

### Similarity

Characters, words and degrees of similarity are small numbers. Each loop is
compared with a definition that has none: the table over bit masks, one artist
of the longer list a step, with the best of all injections; the two-row table
with the least number of edits over all alignments; the merge with the number
of words in common. The greedy fallback, which the code takes for more than 15
artists, is only asked never to claim more than the best, and at least half
of it; the limit is a constant so that it is reached.

### Settings

Two thresholds, in thousandths of a percent, stand for all settings that are
numbers. Each is written in the file, the environment and the flag as any of a
set of values, as NaN (which Go parses, and which fails no comparison that
`Validate` makes), or not at all; the file may be unreadable, a variable
malformed. A user edits the file between two commands; `setup` replaces it.

### Syncer

One action per step of `Run`: `LoadTarget`, one verdict per row (`Match`),
`MakePlan` with the early returns for dry runs and empty plans, `CreateTarget`,
then row by row `PassRow`, `AddConfirmed` or `AddUncertain` followed by
`Reconcile`. The account is `lists`; a POST whose response is an error may have
been applied, may have been lost, or is `pending` and applied by `ApplyLate` at
any later time, of this run or the next. `ForeignAdd` is another client.
`Interrupt` cancels the context: later calls fail, the loops go on, as in the
code. `Crash` may happen anywhere. `posts`, `snapshot` and `overlap` are
history.

### ImportCommand

`call` is the command line, the setting for public playlists and whether stdin
is a terminal; every combination that the flag parser lets through is an initial
state. Prompts and a source on stdin share one input: a pipe delivers `left`
more lines and then ends (`Hear`), a user at a terminal may answer or not.
`SourceStep`, `TargetStep`, `EngineStep` and `ReportStep` are the parts of
`runImport`; any call to a service may fail, `Interrupt` cancels the context,
after which such calls fail while prompts go on waiting, and `Kill` ends the
process anywhere.

### RowSearch

The passes of `GenerateQueryPasses` in turn, each query answered by the cache,
by Beatport, or with an error; the early stop between passes; the verdict; and
the dialogue of `Resolver.Resolve` with its list, its page of visible lines and
its custom searches. Scores are a table from IDs to numbers, chosen once;
`Extended` says which tracks are Extended Mixes, which win a tie. `error` is what
a `FAILED` row failed by: its own searches or the terminal.

### MatchPolicy

What the text comparisons say of a candidate is a record of percentages, its
version one of seven classes. A point of the code's scale is 1000 here, so
every term of `ScoreCandidate` is a whole number; the code computes with
floats, and an exact tie or limit that rounding to a tenth could
resolve the other way is not modelled. A candidate's ID is its position in the
pool, since IDs only break ties.

### BeatportSession

Tokens are the serial numbers they were issued under. Whether a token is within
five minutes of its expiry is open at every use, so a used token may be refused
and a good one renewed early. `Load`, `Refresh`, `Save`, `Return`, `Refused`
and `Retry` are the steps of `AccessToken` and `request`; the store is shared by
all processes, `Exit` ends or kills one anywhere, `Revoke` is Beatport's. A
cancelled context shows as the failure of the next call. Beatport either always
replaces the refresh token or never does (`rotates`): with a mixed policy an
answer without a refresh token could not be told from a lost one.

### Paging

The playlist is a sequence of distinct entries. Between two pages other clients
append, remove in any order, and, of a Spotify playlist, insert in front.
Beatport's answers give any subset of the four hints that `hasNextPage` reads
(link, page and page count, entry count, a full page), the empty one included: a
bare array, which `decodeFlexible` accepts for a page. Those given are true. The
Spotify reader goes from offset to offset; `hidden` entries (local files,
episodes) are left out but keep their positions. `astray` links lead anywhere:
back, which `FetchPlaylist` must notice, or further by less than a page or by
more, which it follows. `disturbed` records what voids the promise of a single
look. A read without any hint promises no more than its first page (`silent` of
`PlaylistRead`); `EveryPageIsRead` is what the documents say of it.
`RemovalsHideTheirNumber` is what is left of the promise when entries are removed.

### SpotifySession

One terminal. `auth spotify --user` opens a listener and a browser tab per
attempt; tabs of earlier attempts stay open and may call back. Imports refresh
over the stored token, fetch page by page with retries, and persist a rotated
token after the fetch. Time limits may expire at any step that waits.

### SearchCache

Each import loads the file once, drops what has expired, answers from memory,
and writes its whole index by renaming a temporary file over the old one. Two
imports therefore overwrite each other's answers; that loses hits, never makes
a wrong one. An import that runs through a `cache clear` writes back what was
cleared, and later imports are served from it. `held`, a history variable, says
per clear to which queries a running import had an answer: `HitsAreCurrent`
allows nothing else to outlive a clear. A
temporary file that a crash left behind is never read, and is not modelled. Any
file may be refused (`OpenFails`), as one above 64 MiB is; sizes are not
modelled. The clock only goes forward.

## 3. Runs

Every run is exhaustive within its bounds; times are for two workers.
`CHECK_DEADLOCK FALSE` is set throughout because every modelled activity ends:
a run returns, a command exits, a read is complete. That what must end does
end is a property of its own where fairness can say so.

| Run | What it asks | Bounds, and why they suffice |
|---|---|---|
| `loops` | do the parser, `MarkSourceDuplicates` and `BuildPlan` compute the declarative plan (`LoopIsBuildPlan`), and is it sound: no track twice, none that is there, no song lost (`PlanIsSound`); do the text loops compute what they stand for (`AssignmentIsBest`, `TextsAreCompared`); does the last layer decide a setting (`SettingsAreObeyed`); does the policy of `docs/MATCHING.md` follow from the weights (`WrongSongIsLow`, `ChosenIsEarned`, `ExtendedWins`) | 3 lines or rows, 3 keys of which one is a comment, 2 tracks, every membership: a first occurrence, a repeat of it, a converging row before or after. Credit lists of up to 3 artists, 3 degrees; texts of up to 3 of 2 letters. Thresholds below, between and above the defaults and outside of what is accepted. 2 candidates; every version, every limit of the guardrails and both sides of it, with every answer of the ISRC; the default settings, and lenient ones that normalization must repair |
| `import` | the engine's safety: `AppendsOnce`, `ReportIsTrue`, `EveryPlannedRowTried`, `AddedInSourceOrder`, `WritesNeedAPlan`, `VerdictsAreFinal`, and refinement of `ImportContract` (`KeepsContract`) | 3 rows on 2 tracks, so that a planned row stands between two others; 1 foreign append |
| `rerun` | a repeated import adds no second copy (`RerunsAppendNoCopy`), and every run ends (`RunReturns`) | 2 rows, 2 runs: the first leaves behind every combination of applied, lost and late adds |
| `import_command` | `WriteIsConsented`, `QuietAsksNothing`, `ExitZeroIsComplete`, `CommandEnds` | every command line; 2 playlists, so that a name may be shared, one text that is an ID and one that is a name; 2 rows; a pipe of up to 2 lines, so that it ends in the middle of each prompt |
| `import_report` | is every row in a report that was written? **Violated**, see 6 | as above |
| `row_search` | `NotFoundIsHonest`, `CacheHoldsAnswers`, `NoRivalWithinMargin`, `VerdictIsAdmissible`, `SearchEnds` | 2 passes (the first with two queries), 3 IDs, one of them invalid and one an Extended Mix; scores on both sides of, and at, each limit |
| `row_dialogue` | whether the dialogue survives every answer. **Violated**, see 6 | as above |
| `beatport_session` | `StoredRefreshLives`, `RefusedTokenNotResent`, `PostTakesEffectOnce`, `SendsBounded`, `RequestReturns` across terminals | 2 processes and 3 tokens: two renewals can cross; 1 retry, so that a retry and the answer to a 401 come in either order |
| `paging` | `InOrderOnce`; `ReadsAtOnce`, the refinement of `PlaylistRead`; `RemovalsHideTheirNumber`; `ReadEnds` | pages of 2, up to 5 entries: partly filled, exactly filled, emptied pages; every set of hints; no, one or two hidden entries; links to every offset up to a page beyond the end |
| `paging_missed` | is every page of the target read, without concurrent removals? **Violated**, see 6 | as above |
| `spotify_session` | `OnlyThisAttempt`, `StoredRefreshLives`, `CommandEnds` | 2 attempts, 2 pages, 1 retry, 4 tokens: one attempt with a stale tab, and a token renewed twice in an import |
| `search_cache` | `HitsAreCurrent`, `FileStaysReadable` | 2 imports, 2 queries, a TTL of 2 in a clock of 3 days, so that an answer expires under a running import, and 1 `cache clear` (`MaxClears`), which an import may precede, run through or follow |

Each property of a passing run has a mutant in `PROJECT.json`: a definition of
the model with a plausible bug in it, under which TLC finds that property
violated. Mutated definitions stand beside the faithful ones and are marked.

`AddedInSourceOrder` and `RerunsAppendNoCopy` need what they assume: nobody else
writes, and for the second that no run reads the target while an add of an
earlier one is still to be applied. A track that stood in the playlist twice
before the first run may go on doing so; a run must not add another. No client of Beatport's interface could see
such an add; the engine makes no promise for it.

### Fairness

* `Syncer!FairSpec`: weak fairness of the engine's own steps together, never of
  the environment's. `Run` is one goroutine whose every call returns: HTTP calls
  have timeouts, and a user is assumed to answer the resolver in the end.
* `RowSearch`: weak fairness of the staged search and its verdict, sequential code
  over calls that return. Nothing is assumed of the user: `SearchEnds` promises
  that a row comes to a verdict or to the dialogue, not that the dialogue ends.
* `SpotifySession`: weak fairness of the command's own steps, the wait for the
  browser included, which has a time limit; nothing is assumed of the browser.
* `BeatportSession`: weak fairness of each process's steps of a request that has
  begun, for the same reason; beginning a request is never fair.
* `Paging`: weak fairness of fetching a page, and of the failure that must come
  when the page does not exist or there were too many; other clients are not fair,
  and what they can add is bounded, as an unbounded append could outrun any reader.
* `ImportCommand`: weak fairness of the program's own steps: calls to a service end,
  and whoever writes the pipe goes on writing or closes it. A step that waits for
  a user at a terminal is not fair: `CommandEnds` says that the command ends or
  such a user owes it an answer for ever.

## 4. Proofs

Each theorem holds for every value of its module's constants.

| Module | Theorem | Property |
|---|---|---|
| `SyncerProofs` | `TypeCorrect` | `[]TypeOK` |
| | `NoTrackTwice` | `[]AppendsOnce` |
| | `RecheckNeverFires` | `[]RecheckIsIdle`, which no run checks |
| | `TruthfulReport` | `[]ReportIsTrue` |
| | `NoPlannedRowForgotten` | `[]EveryPlannedRowTried` |
| | `AdditionsAreInSourceOrder` | `[]AddedInSourceOrder` |
| | `RerunsAddNoCopy` | `[]RerunsAppendNoCopy` |
| | `DryRunWritesNothing` | `WritesNeedAPlan`, an action property |
| | `SettledRowsStaySettled` | `VerdictsAreFinal`, an action property |
| | `EngineKeepsContract` | `KeepsContract`, the refinement of `ImportContract` |
| | `RunsAreShort` | `RunIsShort`, the steps of `RunReturns` |
| `RowSearchProofs` | `NothingInvented` | `[]CacheHoldsAnswers` |
| | `NotFoundMeansAnswered` | `[]NotFoundIsHonest` |
| | `CloseRacesAreNotSettled` | `[]NoRivalWithinMargin` |
| | `VerdictsAreAdmissible` | `[]VerdictIsAdmissible` |
| | `SearchesAreShort` | `SearchIsShort`, the steps of `SearchEnds` |
| `MatchPolicyProofs` | `WrongSongNeverPasses` | `[]WrongSongIsLow` |
| | `NothingChosenUnearned` | `[]ChosenIsEarned` |
| | `ExtendedMixWins` | `[]ExtendedWins` |
| `ImportCommandProofs` | `NothingWithoutConsent` | `[]WriteIsConsented` |
| | `QuietNeverAsks` | `[]QuietAsksNothing` |
| | `ExitZeroMeansDone` | `[]ExitZeroIsComplete` |
| `BeatportSessionProofs` | `SentFewTimes` | `[]SendsBounded` |
| | `NoWriteTwice` | `[]PostTakesEffectOnce` |
| | `RefusedIsDropped` | `[]RefusedTokenNotResent` |
| | `StoreKeepsUp` | `[]StoredRefreshLives` |
| | `RequestsAreShort` | `RequestIsShort`, the steps of `RequestReturns` |
| `SpotifySessionProofs` | `OnlyItsOwnCode` | `[]OnlyThisAttempt` |
| | `StoreKeepsUp` | `[]StoredRefreshLives` |
| | `CommandsAreShort` | `CommandIsShort`, the steps of `CommandEnds` |
| `LocalProofs` | `LoopsComputePlan` | `[]LoopIsBuildPlan` |
| | `PlansAreSound` | `[]PlanIsSound` |
| | `PagesAreInOrder` | `[]InOrderOnce` |
| | `PagesAddUpToOneLook` | `ReadsAtOnce`, the refinement of `PlaylistRead` |
| | `RemovalsHideNoMore` | `RemovalsHideTheirNumber`, an action property |
| | `ReadsAreShort` | `ReadIsShort`, the steps of `ReadEnds` |
| | `HitsStayCurrent` | `[]HitsAreCurrent` |
| | `FileIsNeverSpoilt` | `FileStaysReadable`, an action property |
| | `LastWordCounts` | `[]SettingsAreObeyed` |
| | `AssignmentsAreBest` | `[]AssignmentIsBest` |
| | `ComparisonsAreExact` | `[]TextsAreCompared` |

### The engine (SyncerProofs)

The properties are not inductive as they stand. `AppendsOnce`, say, holds because a
row that is still `MATCHED` in the add loop has a track that no other such row
has, that the run did not see in the target, and that was not posted yet. The
inductive invariant `IInv` says so, as a conjunction of named parts:
`MatchingInv` (before the plan, the rows up to the index are judged and nothing is
posted), `PlanInv` (planned rows and their tracks correspond one to one, and only
planned tracks are posted), `AddingInv` (in the add loop, the rows before the
index are tried and settled, those from it on are untouched), `MembershipInv`
(the membership is what was loaded and what was confirmed since) and `HeldInv`
(what was loaded or reported is still in the target). It is preserved by one
lemma per action; `PlanLemma` states first what the single-step plan does to
the rows.

Order and copies need more, and only while nobody else writes: `CopyInv` follows
where each track stands (`PlaceInv`), what is still to be applied and by whom it
was asked for (`WaitingInv`), what the run knows of its target (`KnownInv`), and
that what was added stands before all that later rows bring (`OrderInv`). That
verdicts are final rests on `SourceInv`: the repeats which `BuildPlan` looks for
again are those that the first loop found. The refinement maps each step of the
engine to one of the contract or to none (`ContractStepLemma`): an add that
succeeds is `Ask` with its claim, an uncertain one is `Ask`, the re-read that
finds the track is `Claim`, and whatever is applied late, or by another client, is `Grow`.

### The search of a row and the score (RowSearchProofs, MatchPolicyProofs, OrderLemmas)

`AskedInv` says that what the query loop has left behind was answered or failed,
and that it only ends early with something in the pool. `ShapeInv` follows the
dialogue's list and the number of lines shown, and where each line came from: the
pool, in which every ID is valid, or a search of the user's own, in which it need
not be. `VerdictInv` holds a verdict against the pool it was made from.

The heart of `WrongSongNeverPasses` is `Guardrail`: each signal has a lemma that
bounds it (title at most 20 + 0.35 per percent of the base, version at most 12,
and so on), and with the penalty of 25 the sum is at most 59.5 for a wrong title
and 65.7 for wrong artists, below the 66 of the property. `NothingChosenUnearned`
continues the sum: with the song right and another version, at most 81 points,
with nothing but a title, 82, and HIGH begins at 85 or later.

What is said of a ranking presumes that there is one. `OrderLemmas` proves that a
finite set has a sorting by any strict total order and that it leaves nothing
out, by the smallest set without one; `MatchedInv` and `ShapeInv` build on it.

### The import command and the sessions

* `ImportCommandProofs`: consent is checked in one place and used in another, so
  the invariant carries it between them. `WayInv` says of each prompt which flags
  led there, `TargetInv` that the chosen target is the one asked for, that past
  `approve` it is a dry run's or agreed to, and that nothing is written before;
  `RowsInv`, `OutInv` and `FileInv` follow the rows, stdout and the report.
* `BeatportSessionProofs`: `Counted` ties the sends of a request to its attempts,
  its retries and its one renewal; `Dropped` says where a refused token may still
  be. For the store, `FreshInv` is the heart: a refresh token that rotates is
  held by the process it was given to, and nobody else, until it is stored, so no
  other process can trade it away; `BoundInv` gives new tokens new numbers.
* `SpotifySessionProofs`: `AttemptInv` ties the callback to the running attempt
  while the port is open; `StoreInv` says that only the import of a user whose
  tokens rotate may be ahead of the store, and that it holds the successor.

### The rest (LocalProofs)

* Loops: `LoopInv` says at each index of each loop what the maps hold and which
  rows the lists list, for the rows before the index. An equality of two
  recursive definitions is never needed: `Lists` says what a list holds by the
  number of indices before each.
* Pages: `PagesInv` says that what was read precedes everything that is still to
  be read; entries only move forward, so whatever is removed, this lasts. Of the
  source it says how far a position may lie before an earlier one: not at all, or
  less than a page once a link led astray (`Placed`). For the refinement, `ReadInv`
  says that up to the next page the answer is what the list holds now, as long as
  nothing was removed or inserted. `HintsAreTrue` is the lemma about `hasNextPage`:
  with any set of hints but the empty one, it stops at the last page and not
  before, and with the empty one at the first. It needs the hypothesis of the
  theorem, that the playlist fits the limit on the number of pages (10000, of 100
  entries each): a longer Beatport playlist whose answers give only counts is cut
  off there without an error. For removals, every page but the last is full
  whatever happened before it, so that no less is read than the list holds at the
  end; two sets of which one is no smaller leave no more of the smaller over.
* Cache: every entry of an index or of the file was given within the clock and the
  clears so far, and for each clear it outlasted an import held an answer to its
  query (`Outlasts`): a write may only bring back what was in memory when the file
  went, and what is in a temporary file is in memory too. Only a whole index is
  renamed.
* Settings: `LayerInv` says of each stage which layers the settings have gone
  through, and that what passed `Validate` is left alone by `normalizedConfig`,
  NaN included.
* Artists: `AssignInv` has a part for each way. By masks, each entry of the table
  is the most that an assignment of its set to the artists so far is worth, and
  -1 only if there is none (`BestRow`; `NextOfRow` adds an artist). Without them,
  every pair that was gone through meets one that was taken, by one end or the
  other, and is worth no more (`Greedy`). So the shorter list is used up, and the
  pairs of any assignment split into those met on the left and those met on the
  right, neither of which sums up to more than what was taken. `OrderLemmas` has
  the sums: that any term may be taken out first, and that a sum whose terms map
  one to one to terms no smaller is no greater. The limit of 15 plays no part:
  the theorem holds for every limit, every length and every degree.
* Texts: `EditInv` says that after m characters of the right text the row holds, at
  each k, the distance of the left text's first k from the right text's first m,
  where a distance is the least number of edits over all alignments. `DistanceStep`
  is the recurrence: two last characters are either aligned with each other, or one
  of them with nothing, since pairs do not cross. That the shorter text comes first
  changes nothing, as an alignment may be read both ways (`DistanceFlips`). `DiceInv`
  says that the count and the words that are left in both texts add up to the words
  both have; it needs that the copies are sorted, so that a word less than the other
  text's next can have no partner. Any length, any alphabet.

### How long it takes

`RunReturns`, `SearchEnds`, `RequestReturns`, `ReadEnds` and `CommandEnds` of
`SpotifySession` are liveness, which needs ENABLED and stays with TLC. The part of
each that the code decides is a theorem. Each names a number of steps that are left
(`StepsLeft`, `ReadsLeft`), bounds it by the constants, and says that every step of
the component makes it smaller and that nothing else in the course of the same run,
request or command makes it larger. So none of them goes round for ever, and no
fairness is needed for that; what remains for TLC is that a component that has not
ended has a step to take, and for `WF_` that it takes it.

* A run of N rows takes at most 3N + 4 steps: two for each row of the second loop,
  as an uncertain addition is read back once and never sent again.
* A request to Beatport may be sent again for each retry that is left and once for a
  401 (`Resends`), and a send takes at most four steps; the clock and another
  process's token change neither. Spotify's requests are counted in the same way,
  times the pages of the playlist.
* The places of the query loop that lie ahead of a search (`Ahead`) are a finite set
  that each of its steps makes smaller. `PlaceInv` says that the loop stands on one.
* A read asks for no page beyond what the playlist ever had entries, or beyond the
  limit: without entries there is one page, a link or a page count leads no further
  than the last, and everything else stops at the limit (`NextPageIsOne`).

The theorems rest on the `ASSUME`s of the modules alone, which TLC evaluates in
every run.

Only model-checked: the five liveness properties above as they stand, and
`CommandEnds` of `ImportCommand`, whose `AppendTracks` does not count its additions.
Every invariant, every action property and every refinement that a passing run
checks is a theorem.
Where a proof needs induction, it takes the smallest counterexample of a finite
set, as in `OrderLemmas` and `NextDistances`; the library's induction theorems,
which take an operator, cannot be instantiated.

## 5. Not modelled

* How one line of input is split into artist and title, how a Spotify reference is
  recognized, the layout of reports and the counting in the summary, `version`,
  `playlists` and help: functions from text to text without state.
* Unicode folding and the reading of a title: `MatchPolicy` takes every value
  they may lead to.
* Decoding of Beatport's and Spotify's payloads; the text of URLs and PKCE
  challenges; the length of pauses between retries.
* `GetPlaylistTrackIDs`, `DeduplicateTrackIDs`, `TrackIDs` and
  `AuthManager.Logout`, which only tests call.
* The exact-ID shortcut of scoring: no source of an import carries a Beatport ID.
* The size of the cache file (that it is refused above 64 MiB is one of the
  failures of `OpenFails`), a clock that is set back, and reaching the limit of
  10000 pages (the step beyond it is modelled, the number is not reached).
* A client that removes entries from the target while an import runs: `ForeignAdd`
  of `Syncer` appends only. After the membership is read (`syncer.go:147`) a removed
  track is reported as already there, and nothing in the code could tell. What a
  removal does to the read itself is in `Paging`.
* Two Spotify imports at once (a lost rotation is repaired by authorizing again).
* Settings other than the two thresholds, which go through the same layers; the
  prompts of `setup`; the calls of the Windows credential store and the terminal.

The hazards of `PROJECT.json` without a property are of these: each has its
reason in its `note`.

## 6. What the models found

Three documented statements that the code does not keep, each the subject of a run
that TLC finds violated:

* **row_dialogue** (`internal/ui/resolver.go:77`): a custom search that fails
  leaves the dialogue with an empty list but the old number of lines; the next
  round prints the first of them and panics. The whole import is lost, while
  `docs/ARCHITECTURE.md:59` says search and ambiguity failures are recorded and
  later tracks continue.
* **import_report** (`internal/cli/import.go:286`): when an existing target cannot
  be read, the engine returns before it looks at a row, and the command goes on
  to replace the report file by one with no row in it, though `README.md:188` says
  that reports include every source row.
* **paging_missed** (`internal/beatport/client.go:647`): a page that comes as a bare
  array, or as an object without any of the four hints, is taken for the last one,
  so of a longer playlist only the first page is seen, and an import appends again
  what stands on the others. `docs/BEATPORT_API_NOTES.md:125` and `README.md:179` say
  that all target items, every page, are fetched before a write.

And observations without a run, where a document is vague or the code may be
meant so:

* An entry that another client removes from a page already read moves the next
  page's first entry out of sight (`internal/beatport/client.go:371`), though the
  comment at line 387 calls full pagination "authoritative"; an import would
  append that track again. `ReadsAtOnce` promises nothing for such a read,
  `RemovalsHideTheirNumber` no more than that each removal hides one entry at most.
* An import that runs during `bpbridge cache clear` writes its whole index back with
  its next answer (`internal/cache/search.go:209`), and imports that begin later are
  served what was cleared, though the command's help says that it deletes all cached
  results. `HitsAreCurrent` says that nothing else can outlive a clear.
* A Spotify link that leads further by less than a page is followed
  (`internal/spotify/client.go:216`), and the tracks in the overlap are in the source
  twice, under one position; the second of them becomes a source duplicate.
* A query that fails while another query of the row finds something leaves no
  trace in the report (`internal/syncer/syncer.go:326`); if what was found is too
  unlike to be offered, the row is `NOT_FOUND` although the failed query might have
  found it. `NotFoundIsHonest` speaks of rows for which nothing was found.
* A named remix can bring up to 12 points where the requested Extended Mix, which
  `docs/MATCHING.md` calls the strongest version bonus, brings 10.
* `setup` saves what every layer together gave, so that a variable of the
  environment, or `--match-threshold`, which `README.md:209` describes for one run,
  becomes permanent when given to it.
* A `--match-threshold` in [-1, 0), or NaN, is ignored without a word, though the
  message at `internal/cli/root.go:154` asks for a number between 1 and 100. A
  threshold that is NaN in the file or the environment passes `Validate`, and
  then no match is ever HIGH.

## 7. Plan

Done: all modules of section 2, with the theorems of section 4. What is left: two
Spotify imports over one credential store, with the loss they can cause stated as
what it is.

To run a model: `tlc -config Syncer.cfg MCSyncer`. To check a proof:
`tlapm SyncerProofs.tla`.
