------------------------------- MODULE MCCh3 -------------------------------
(* Chapter 3 on three stages of one chapter: a live one, a story, a live   *)
(* one, so that a story lies between two stages that pay.  The last stage  *)
(* takes Lily's second level, and so does a second star of the first.      *)
EXTENDS Ch3, TLC

OneChapter == [s \in 1 .. 3 |-> 1]
TwoGoals == <<1, 1>> :> 1 @@ <<1, 2>> :> 2
TwoLevels == <<0, 1>>
LilyScores == <<10, 20>>
OneProfile == "profile" :> 5
TwoLoadouts ==
  {[music |-> 0, bonus |-> 0, profiles |-> <<>>],
   [music |-> 0, bonus |-> 200, profiles |-> <<"profile", "profile">>]}
StageGoals == <<<<12, 21, 30>>, <<1, 2, 3>>, <<18, 29, 40>>>>
Drops == 0 :> 0 @@ 1 :> 0 @@ 2 :> 1 @@ 3 :> 1
=============================================================================
