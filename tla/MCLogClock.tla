------------------------------ MODULE MCLogClock ------------------------------
(***************************************************************************)
(* Clocks on both sides of every limit: a minute is the limit, and what    *)
(* rounding adds to it.                                                    *)
(***************************************************************************)
EXTENDS LogClock

MCSkews == {-150, -120, -119, -61, -60, 0, 60, 61, 119, 120}
===============================================================================
