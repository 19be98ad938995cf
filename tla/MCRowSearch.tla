----------------------------- MODULE MCRowSearch -----------------------------
(***************************************************************************)
(* Model checking of RowSearch: two passes, the first with two queries,    *)
(* two valid IDs and an invalid one, scores on either side of and exactly  *)
(* at the thresholds and the margin: a clear winner, one exactly at the    *)
(* margin, a close race, a tie (won by the Extended Mix, the second valid  *)
(* ID), one merely plausible, and none.                                    *)
(***************************************************************************)
EXTENDS RowSearch, TLC

TwoPasses == <<<<"all", "one">>, <<"title">>>>
SomeIDs == {0, 1, 2}
TheSecond == {2}
Table(first, second) == 0 :> 2 @@ 1 :> first @@ 2 :> second
SomeTables == {Table(4, 1), Table(6, 4), Table(4, 5), Table(4, 4), Table(2, 1), Table(1, 1)}
SomeResults == {{}, {0}, {2}, {0, 1, 2}}

=============================================================================
