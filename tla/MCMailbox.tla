----------------------------- MODULE MCMailbox -----------------------------
(* Two unique items and an event whose mail has the second number and      *)
(* holds the first item.                                                   *)
EXTENDS Mailbox, TLC

CONSTANTS i1, i2, e1

SecondPost == e1 :> 2
PaysItem == e1 :> i1
=============================================================================
