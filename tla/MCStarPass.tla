---------------------------- MODULE MCStarPass -----------------------------
(* Two seasons of two steps, which one fill may reach at once or one at a  *)
(* time.                                                                   *)
EXTENDS StarPass, TLC

CONSTANTS c1, c2

TwoSteps == <<1, 3>>
Bound == 0 :> 2 @@ 1 :> 4
Alike == Permutations({c1, c2})
=============================================================================
