---------------------------- MODULE MCWindowsRun ----------------------------
(* Three processors, two offsets.                                          *)
EXTENDS WindowsRun
=============================================================================
