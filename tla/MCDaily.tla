------------------------------ MODULE MCDaily ------------------------------
(* Three days and two achievements of two levels.                           *)
EXTENDS Daily

CONSTANTS a10, a2, m1, e1, r1, none

OneAndTwo == <<1, 2>>
=============================================================================
