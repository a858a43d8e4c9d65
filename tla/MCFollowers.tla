---------------------------- MODULE MCFollowers ----------------------------
(* A guide of two stages with two conditions, affection of two levels,     *)
(* and two songs.                                                          *)
EXTENDS Followers, TLC

CONSTANTS q1, q2, m1, m2

OnceAndTwice == q1 :> 1 @@ q2 :> 2
TwoLevels == <<0, 2>>
=============================================================================
