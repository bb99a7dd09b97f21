------------------------- MODULE MCFanotifyCapture -------------------------
(***************************************************************************)
(* Two files, a process with a pid and one whose pid is reported as 0.     *)
(***************************************************************************)
EXTENDS FanotifyCapture

CONSTANTS f, g

MCWatchedFile == {f, g}
OneFile == {f}
MCPid == {0, 7}
OnePid == {7}
=============================================================================
