------------------------------ MODULE MCPaging ------------------------------
(***************************************************************************)
(* Model checking of Paging: pages of two, so that three pages exist, one  *)
(* of them partly filled, exactly filled or emptied by the removals; the   *)
(* limit of pages is out of reach, as 10000 pages of 50 or 100 tracks are. *)
(***************************************************************************)
EXTENDS Paging

SmallPages == 2
ThreePages == 2 * SmallPages + 1
OutOfReach == 2 * MaxEntries
SomeLocal == {{}, {2}, {1, 3}}

=============================================================================
