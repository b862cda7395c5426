------------------------------ MODULE Ranking ------------------------------
(***************************************************************************)
(* The bridge walks several lists in ascending order: the channels of a   *)
(* page that are not pinned, the strips that are not pinned, the strips   *)
(* the lighting desk reports as active.  A walk that has consumed r       *)
(* elements of such a list stands at the element of rank r + 1, so lists  *)
(* in ascending order are modelled as sets and positions as ranks.        *)
(***************************************************************************)
EXTENDS Integers, FiniteSets

\* The position (from 1) of x in the ascending enumeration of S.
Rank(S, x) == Cardinality({y \in S : y <= x})

\* The element at position r of the ascending enumeration of S.
Nth(S, r) == CHOOSE x \in S : Rank(S, x) = r
=============================================================================
