-------------------------- MODULE MCPassCalendar ---------------------------
(* Days of two units and offsets one unit apart: less than a day. *)
EXTENDS PassCalendar

CONSTANTS s1, s2

WithinADay == 0 .. 1
=============================================================================
