---------------------------- MODULE MCCalendar ----------------------------
(* Calendar over 800 years: two cycles of 400 years, so that every kind of  *)
(* leap year is passed in both directions from 1970.                        *)
EXTENDS Calendar

=============================================================================
