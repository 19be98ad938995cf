---------------------------- MODULE PlaylistRead ----------------------------
(***************************************************************************)
(* What GetPlaylistTracks promises the import engine, and FetchPlaylist    *)
(* the import command: one look at the whole playlist, at some moment      *)
(* between the call and its return.  It is how the module Syncer reads the *)
(* target.  If the list is silent on whether more follows, one page of it  *)
(* is promised.  An entry removed, or inserted before others, while the    *)
(* pages are fetched voids the promise, and so does a link astray.         *)
(***************************************************************************)
EXTENDS Integers, Sequences

CONSTANTS PerPage,      \* entries on a page
          MaxEntries    \* bound: entries ever added to the playlist

VARIABLES list,         \* the playlist, entries named by when they were added
          added,        \* how many were ever added
          hidden,       \* the entries that are not asked for
          silent,       \* no page tells whether another follows
          astray,       \* links may lead elsewhere
          reading,      \* the call has not returned
          disturbed,    \* an entry was removed or inserted, or a link led astray
          answer        \* what the call returned; <<>> until then, or with an error

vars == <<list, added, hidden, silent, astray, reading, disturbed, answer>>

Init ==
    /\ added \in 0..MaxEntries
    /\ list = [k \in 1..added |-> k]
    /\ reading = TRUE /\ disturbed = FALSE /\ answer = <<>>

(* The places of the entries that are asked for.                           *)
Wanted == {k \in DOMAIN list : list[k] \notin hidden /\ (silent => k <= PerPage)}

(* The answer has all of them, in the playlist's order.                    *)
Look ==
    /\ reading /\ reading' = FALSE
    /\ answer' \in Seq(1..added)
    /\ \E place \in [1..Len(answer') -> Wanted] :
          /\ \A k \in Wanted : \E n \in DOMAIN place : place[n] = k
          /\ \A m, n \in DOMAIN place : m < n => place[m] < place[n]
          /\ \A n \in DOMAIN place : answer'[n] = list[place[n]]
    /\ UNCHANGED <<list, added, hidden, silent, astray, disturbed>>

LookFails ==
    /\ reading /\ reading' = FALSE
    /\ UNCHANGED <<list, added, hidden, silent, astray, disturbed, answer>>

TornLook ==
    /\ reading /\ reading' = FALSE
    /\ disturbed
    /\ answer' \in Seq(1..added)
    /\ UNCHANGED <<list, added, hidden, silent, astray, disturbed>>

Append1 ==
    /\ added < MaxEntries
    /\ added' = added + 1
    /\ list' = Append(list, added + 1)
    /\ UNCHANGED <<hidden, silent, astray, reading, disturbed, answer>>

Remove ==
    /\ \E k \in DOMAIN list :
          list' = [i \in 1..(Len(list) - 1) |-> IF i < k THEN list[i] ELSE list[i + 1]]
    /\ disturbed' = (disturbed \/ reading)
    /\ UNCHANGED <<added, hidden, silent, astray, reading, answer>>

Insert ==
    /\ added < MaxEntries
    /\ added' = added + 1
    /\ list' = <<added + 1>> \o list
    /\ disturbed' = (disturbed \/ reading)
    /\ UNCHANGED <<hidden, silent, astray, reading, answer>>

Stray ==
    /\ reading /\ astray
    /\ disturbed' = TRUE
    /\ UNCHANGED <<list, added, hidden, silent, astray, reading, answer>>

Next == Look \/ LookFails \/ TornLook \/ Append1 \/ Remove \/ Insert \/ Stray

Spec == Init /\ [][Next]_vars

=============================================================================
