------------------------------ MODULE MCLaunch ------------------------------
(***************************************************************************)
(* The launchers, and the runner that one of them starts.  They share no   *)
(* variable, and one of the two programs is looked at: the other one fails *)
(* before it has done anything.                                            *)
(*                                                                         *)
(* The runner has one read-only and one writable typed mount, a tool that  *)
(* succeeds, exits with 3 or with the code that stands for SIGKILL, and    *)
(* two swaps of what a path names, so that a source can be swapped and     *)
(* swapped back around any call.                                           *)
(***************************************************************************)
EXTENDS DebianLauncher, NamespaceRunner

OneOfEach == <<[source |-> "input", ro |-> TRUE], [source |-> "cache", ro |-> FALSE]>>

VARIABLE program   \* the program that is looked at

LaunchInit ==
    /\ program \in {"launcher", "runner"}
    /\ LauncherInit /\ Init
    /\ IF program = "launcher" THEN sigchld = "default" ELSE ~scratch

LaunchersOver == \A l \in Launchers : lpc[l] \in Over
LaunchNext ==
    \/ /\ program = "launcher" /\ ~Done
       /\ ResetInheritedSignals \/ Fail("mapper")
       /\ UNCHANGED <<launcherVars, program>>
    \/ /\ program = "launcher" /\ Done
       /\ LauncherNext /\ UNCHANGED <<vars, program>>
    \/ /\ program = "runner" /\ ~LaunchersOver
       /\ \E l \in Launchers : lpc[l] = "start" /\ SetupError(l)
       /\ UNCHANGED <<vars, program>>
    \/ /\ program = "runner" /\ LaunchersOver
       /\ Next /\ UNCHANGED <<launcherVars, program>>

LaunchSpec ==
    /\ LaunchInit /\ [][LaunchNext]_<<launcherVars, vars, program>>
    /\ \A l \in Launchers : WF_launcherVars(Step(l))
    /\ WF_vars(MapperNext) /\ WF_vars(MiddleNext) /\ WF_vars(InitNext)
=============================================================================
