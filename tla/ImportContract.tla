--------------------------- MODULE ImportContract ---------------------------
(***************************************************************************)
(* What an import promises about a Beatport account, without saying how:   *)
(* playlists are only ever appended to; a run asks for a track at most     *)
(* once, never for one it found in its target, and claims to have added    *)
(* only tracks it asked for that its target holds.                         *)
(***************************************************************************)
EXTENDS Naturals, Sequences

CONSTANTS Tracks, InitialContents

VARIABLES
    lists,      \* the account's playlists
    target,     \* the playlist the run writes to, 0 when it has none
    known,      \* the tracks the run found in it
    asked,      \* the tracks the run asked Beatport to append
    claimed     \* the tracks the run reports as added

vars == <<lists, target, known, asked, claimed>>

Contents(list) == {list[k] : k \in DOMAIN list}

Init ==
    /\ lists \in {<<c>> : c \in InitialContents}
    /\ target = 0
    /\ known = {} /\ asked = {} /\ claimed = {}

(* A new run forgets everything an earlier one knew.                       *)
Begin ==
    /\ target' \in {0} \cup DOMAIN lists
    /\ known' = {} /\ asked' = {} /\ claimed' = {}
    /\ UNCHANGED lists

Look ==
    /\ target # 0 /\ asked = {}
    /\ known' = Contents(lists[target])
    /\ UNCHANGED <<lists, target, asked, claimed>>

(* The run may fail to learn that its new playlist exists.                 *)
Create ==
    /\ target = 0
    /\ lists' = Append(lists, <<>>)
    /\ target' \in {0, Len(lists) + 1}
    /\ UNCHANGED <<known, asked, claimed>>

Ask(t) ==
    /\ target # 0
    /\ t \notin known \cup asked
    /\ asked' = asked \cup {t}
    /\ \/ UNCHANGED <<lists, claimed>>
       \/ /\ lists' = [lists EXCEPT ![target] = Append(@, t)]
          /\ claimed' \in {claimed, claimed \cup {t}}
    /\ UNCHANGED <<target, known>>

Claim(t) ==
    /\ t \in asked /\ t \in Contents(lists[target])
    /\ claimed' = claimed \cup {t}
    /\ UNCHANGED <<lists, target, known, asked>>

(* A late append of any run, or of another client.                         *)
Grow ==
    /\ \E l \in DOMAIN lists, t \in Tracks :
          lists' = [lists EXCEPT ![l] = Append(@, t)]
    /\ UNCHANGED <<target, known, asked, claimed>>

Next ==
    \/ Begin \/ Look \/ Create \/ Grow
    \/ \E t \in Tracks : Ask(t) \/ Claim(t)

Spec == Init /\ [][Next]_vars

=============================================================================
