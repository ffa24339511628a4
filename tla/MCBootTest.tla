----------------------------- MODULE MCBootTest -----------------------------
(***************************************************************************)
(* One progress marker and two shutdown markers: logs of four lines are    *)
(* long enough for a complete boot and too long to be exported whole.      *)
(* Two units for QMP leave room for a second attempt, and two for the      *)
(* boot for readiness before, at and after the deadline.                   *)
(***************************************************************************)
EXTENDS BootTest

OneStep == <<"linux">>
=============================================================================
