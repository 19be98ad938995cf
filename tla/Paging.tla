------------------------------- MODULE Paging -------------------------------
(***************************************************************************)
(* The two loops that read a playlist page by page, while other clients   *)
(* change it.  Client.GetPlaylistTracks reads the Beatport target, and      *)
(* hasNextPage decides from what Beatport says of each page whether to go  *)
(* on; ListPlaylists is the same loop over playlists.  FetchPlaylist reads *)
(* the Spotify source, from one offset to the next.                        *)
(*                                                                         *)
(* Every hint is optional in Beatport's answer, which may be a bare array  *)
(* without any; those it gives are true.  Spotify's next link may lead     *)
(* anywhere: back, by less than a page, or too far.                        *)
(***************************************************************************)
EXTENDS Integers, Sequences, SequencesExt

CONSTANTS
    PerPage,        \* entries on a page
    MaxEntries,     \* bound: entries ever added to the playlist
    MaxPages,       \* the limit of 10000 pages
    LocalSets       \* which entries may be local files or podcast episodes

ASSUME PageAssumption == PerPage \in Nat \ {0} /\ MaxEntries \in Nat /\ MaxPages \in Nat

VARIABLES
    reader,     \* "beatport" or "spotify": the list that is read
    hints,      \* what Beatport tells: "next", "page", "count", "per_page"
    strict,     \* whether a page beyond the last is an error
    astray,     \* whether Spotify's links may lead elsewhere
    hidden,     \* the entries that usableTrack leaves out
    list, added,
    pageNumber, all,    \* GetPlaylistTracks's variables; pageCount, playlist.Tracks
    offset, positions,  \* FetchPlaylist: offset, and the Position of each track
    pc,         \* "metadata", "read", "done" or "failed"
    disturbed   \* history: entries were removed or inserted during the call,
                \* or a link was followed elsewhere

server == <<reader, hints, strict, astray, hidden>>
pagingVars == <<server, list, added, pageNumber, all, offset, positions, pc, disturbed>>

HintSets == SUBSET {"next", "page", "count", "per_page"}

PagingInit ==
    /\ \/ /\ reader = "beatport" /\ pc = "read"
          /\ hints \in HintSets /\ strict \in BOOLEAN
          /\ astray = FALSE /\ hidden = {}
       \/ /\ reader = "spotify" /\ pc = "metadata"
          /\ hints = {"next"} /\ strict = FALSE
          /\ astray \in BOOLEAN /\ hidden \in LocalSets
    /\ added \in 0..MaxEntries
    /\ list = [k \in 1..added |-> k]
    /\ pageNumber = 1 /\ all = <<>> /\ offset = 0 /\ positions = <<>>
    /\ disturbed = FALSE

-----------------------------------------------------------------------------

(* Beatport: pages are numbered.                                           *)

PageEnd == IF pageNumber * PerPage < Len(list) THEN pageNumber * PerPage ELSE Len(list)

Results == SubSeq(list, (pageNumber - 1) * PerPage + 1, PageEnd)

(* The first page exists even if it is empty.                              *)
Exists == pageNumber = 1 \/ Results # <<>>

LastPage == IF list = <<>> THEN 1 ELSE ((Len(list) - 1) \div PerPage) + 1

(* Mutant: pages are taken to be numbered from zero.                       *)
HasNextFromZero(accumulated) == hints # {} /\ pageNumber + 1 < LastPage

(* Mutant: only the link counts.                                           *)
HasNextByLink(accumulated) == "next" \in hints /\ pageNumber < LastPage

(* hasNextPage: a link, else the place among the pages, else the count,    *)
(* else a full page.                                                       *)
HasNext(accumulated) ==
    IF "next" \in hints /\ pageNumber < LastPage THEN TRUE
    ELSE IF "page" \in hints THEN pageNumber < LastPage
    ELSE /\ pageNumber < MaxPages
         /\ \/ "count" \in hints /\ Len(list) > Len(accumulated)
            \/ "per_page" \in hints /\ Len(Results) >= PerPage

Read(results) ==
    /\ all' = all \o results
    /\ IF HasNext(all \o results)
       THEN pageNumber' = pageNumber + 1 /\ UNCHANGED pc
       ELSE pc' = "done" /\ UNCHANGED pageNumber
    /\ UNCHANGED <<server, list, added, offset, positions, disturbed>>

(* Mutant: an empty page is asked for again.                               *)
ReadPageAgain ==
    /\ reader = "beatport" /\ pc = "read" /\ (strict => Exists)
    /\ IF Results = <<>> /\ pageNumber > 1 THEN UNCHANGED pagingVars ELSE Read(Results)

ReadPage == reader = "beatport" /\ pc = "read" /\ (strict => Exists) /\ Read(Results)

-----------------------------------------------------------------------------
(* Spotify: pages start at an offset.                                      *)

(* The first request must show that Spotify lets the items be read.        *)
FetchMetadata ==
    /\ reader = "spotify" /\ pc = "metadata"
    /\ pc' = "read"
    /\ UNCHANGED <<server, list, added, pageNumber, all, offset, positions, disturbed>>

Items == SubSeq(list, offset + 1, IF offset + PerPage < Len(list) THEN offset + PerPage ELSE Len(list))

(* The places on the page of the tracks that can be looked for, in order.  *)
Usable ==
    LET places == {index \in DOMAIN Items : Items[index] \notin hidden}
        count  == Cardinality(places)
    IN  CHOOSE chosen \in [1..count -> places] : \A m, n \in 1..count : m < n => chosen[m] < chosen[n]

Links == IF astray THEN 0..(Len(list) + PerPage) ELSE {offset + PerPage}

(* Mutant: the link is followed wherever it leads.                         *)
FetchItemsAnywhere ==
    /\ reader = "spotify" /\ pc = "read" /\ pageNumber <= MaxPages
    /\ all' = all \o [n \in DOMAIN Usable |-> Items[Usable[n]]]
    /\ positions' = positions \o [n \in DOMAIN Usable |-> offset + Usable[n]]
    /\ IF offset + PerPage < Len(list)
       THEN offset' \in Links /\ pageNumber' = pageNumber + 1 /\ UNCHANGED pc
       ELSE pc' = "done" /\ UNCHANGED <<offset, pageNumber>>
    /\ UNCHANGED <<server, list, added, disturbed>>

(* A link that does not advance ends the read with an error; one that      *)
(* advances is followed, by less than a page or by more.                   *)
FetchItems ==
    /\ reader = "spotify" /\ pc = "read" /\ pageNumber <= MaxPages
    /\ all' = all \o [n \in DOMAIN Usable |-> Items[Usable[n]]]
    /\ positions' = positions \o [n \in DOMAIN Usable |-> offset + Usable[n]]
    /\ IF offset + PerPage < Len(list)
       THEN \E next \in Links :
               IF next > offset
               THEN /\ offset' = next /\ pageNumber' = pageNumber + 1 /\ UNCHANGED pc
                    /\ disturbed' = IF next = offset + PerPage THEN disturbed ELSE TRUE
               ELSE pc' = "failed" /\ UNCHANGED <<offset, pageNumber, disturbed>>
       ELSE pc' = "done" /\ UNCHANGED <<offset, pageNumber, disturbed>>
    /\ UNCHANGED <<server, list, added>>

-----------------------------------------------------------------------------

(* The request fails, the page does not exist, or there are too many of    *)
(* them: nothing is returned.                                              *)
ReadFails ==
    /\ pc \in {"metadata", "read"}
    /\ pc' = "failed"
    /\ UNCHANGED <<server, list, added, pageNumber, all, offset, positions, disturbed>>

MustFail == (strict /\ ~Exists) \/ (reader = "spotify" /\ pageNumber > MaxPages)

(* Other clients: an entry is appended, or removed; a Spotify playlist may *)
(* also be changed at its front.                                           *)
AppendEntry ==
    /\ added < MaxEntries
    /\ added' = added + 1
    /\ list' = Append(list, added + 1)
    /\ UNCHANGED <<server, pageNumber, all, offset, positions, pc, disturbed>>

Disturb ==
    /\ disturbed' = (disturbed \/ pc \in {"metadata", "read"})
    /\ UNCHANGED <<server, pageNumber, all, offset, positions, pc>>

RemoveEntry ==
    /\ \E k \in DOMAIN list : list' = RemoveAt(list, k)
    /\ UNCHANGED added
    /\ Disturb

InsertEntry ==
    /\ reader = "spotify" /\ added < MaxEntries
    /\ added' = added + 1
    /\ list' = <<added + 1>> \o list
    /\ Disturb

PagingNext == ReadPage \/ FetchMetadata \/ FetchItems \/ ReadFails \/ AppendEntry \/ RemoveEntry \/ InsertEntry

(* The loop goes on and each request returns; that one fails is only       *)
(* assumed when there is no such page, or there were too many.             *)
PagingSpec == PagingInit /\ [][PagingNext]_pagingVars
    /\ WF_pagingVars(ReadPage \/ FetchMetadata \/ FetchItems \/ (MustFail /\ ReadFails))

-----------------------------------------------------------------------------

(* No Beatport entry is returned twice, and the order is the playlist's,   *)
(* whatever other clients do between two pages: entries only ever move     *)
(* forward.  No two tracks of the source claim one position, or an earlier *)
(* one than the track before; where Spotify's links lead elsewhere, no     *)
(* track claims a position a page or more before an earlier track's.       *)
InOrderOnce ==
    /\ reader = "beatport" => \A i, j \in DOMAIN all : i < j => all[i] < all[j]
    /\ \A i, j \in DOMAIN positions :
          i < j => positions[i] < positions[j] + (IF astray THEN PerPage ELSE 0)

(* The pages add up to one look at the playlist, at the moment the last    *)
(* of them is read, unless an entry was removed or inserted in between; of *)
(* the source, the tracks that can be looked for, unless a link led        *)
(* elsewhere.  If Beatport tells nothing of what follows a page, the look  *)
(* ends with the first.                                                    *)
Promise == INSTANCE PlaylistRead WITH
    reading <- pc \in {"metadata", "read"},
    silent <- reader = "beatport" /\ hints = {},
    answer <- IF pc = "done" THEN all ELSE <<>>

ReadsAtOnce == Promise!Spec

(* Entries removed while the pages of the target are fetched hide others   *)
(* from the read, which move across a boundary it has passed: never more   *)
(* than it returns though they are gone.                                   *)
RemovalsHideTheirNumber ==
    [][reader = "beatport" /\ hints # {} /\ pc = "read" /\ pc' = "done"
         => Cardinality(Range(list) \ Range(all')) <= Cardinality(Range(all') \ Range(list))]_pagingVars

(* docs/BEATPORT_API_NOTES.md: "Before any write it paginates all target   *)
(* items and creates a track-ID set."  GetPlaylistTracks also takes a bare *)
(* array for a page, and then for the last one.                            *)
EveryPageIsRead ==
    [][reader = "beatport" /\ pc = "read" /\ pc' = "done" /\ ~disturbed
         => Range(list) \subseteq Range(all')]_pagingVars

(* The read ends, wherever the links lead, as long as the playlist does    *)
(* not grow for ever.                                                      *)
ReadEnds == <>(pc \in {"done", "failed"})

=============================================================================
