--------------------------- MODULE MCWindowsService ---------------------------
(* WindowsService for TLC: two calls, two controls.                        *)
EXTENDS WindowsService

CONSTANTS c1, c2

MCCall == {c1, c2}
===============================================================================
