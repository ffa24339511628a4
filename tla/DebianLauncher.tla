--------------------------- MODULE DebianLauncher ---------------------------
(***************************************************************************)
(* mkosi/debian/debian_launcher.py: launchers that share one scratch      *)
(* directory authenticate and extract the Debian tools root below it, run *)
(* one tool in that root through the namespace runner and remove their    *)
(* runtime directory.  Each step between two variables of the file system *)
(* is an action of its own; any step may raise, any launcher may be       *)
(* interrupted (KeyboardInterrupt runs the finally blocks but not the     *)
(* "except Exception" one) or killed (runs nothing), and stays dead.      *)
(***************************************************************************)
EXTENDS Naturals

CONSTANTS Launchers,   \* the launcher processes started on one scratch
          NoOne        \* not a launcher

ASSUME LaunchersAssumption == NoOne \notin Launchers

VARIABLES
    lpc,         \* where each launcher is in _launch
    scratch,     \* whether the scratch directory exists
    lock,        \* the launcher that made .in-use, or NoOne when it is absent
    partial,     \* the .partial tree
    root,        \* the root tree
    runtime,     \* the launcher that made .runtime, or NoOne when it is absent
    wasPresent,  \* scratch_was_present of each launcher
    raised,      \* the exception of each launcher, if any: an error, an interrupt,
                 \* or "locked" when the lock could not be removed
    status,      \* exit status: "none" before the exit, "ok", "tool", "setup"
    output       \* whether each launcher's --write-version file was written

launcherVars == <<lpc, scratch, lock, partial, root, runtime, wasPresent,
                  raised, status, output>>

(***************************************************************************)
(* A tree remembers who made it and how far _materialize_root has come.   *)
(***************************************************************************)
Stages == {"empty", "extracted", "validated", "mountpoints", "complete"}
Trees == [by : Launchers, stage : Stages]
NoTree == [by |-> NoOne, stage |-> "empty"]

Before == {"start", "probe", "lookup", "mkdirs", "list", "lock"}
Materializing == {"extract", "validate", "prepare", "mark", "publish"}
Claimed == {"checkroot", "mkpartial"} \cup Materializing
Cleaning == {"rmpartial", "unlock"}
Running == {"mkruntime", "prepareruntime", "tool", "rmruntime"}
Over == {"done", "killed"}
Points == Before \cup Claimed \cup Cleaning \cup {"rmscratch"}
             \cup Running \cup {"output"} \cup Over

LauncherTypeOK ==
    /\ lpc \in [Launchers -> Points]
    /\ scratch \in BOOLEAN
    /\ lock \in Launchers \cup {NoOne}
    /\ partial \in Trees \cup {NoTree}
    /\ root \in Trees \cup {NoTree}
    /\ runtime \in Launchers \cup {NoOne}
    /\ wasPresent \in [Launchers -> BOOLEAN]
    /\ raised \in [Launchers -> {"none", "error", "interrupt", "locked"}]
    /\ status \in [Launchers -> {"none", "ok", "tool", "setup"}]
    /\ output \in [Launchers -> BOOLEAN]

\* The scratch directory may have been made by the caller, but it is empty.
LauncherInit ==
    /\ lpc = [l \in Launchers |-> "start"]
    /\ scratch \in BOOLEAN
    /\ lock = NoOne
    /\ partial = NoTree
    /\ root = NoTree
    /\ runtime = NoOne
    /\ wasPresent = [l \in Launchers |-> FALSE]
    /\ raised = [l \in Launchers |-> "none"]
    /\ status = [l \in Launchers |-> "none"]
    /\ output = [l \in Launchers |-> FALSE]

-----------------------------------------------------------------------------
Goes(l, to) == lpc' = [lpc EXCEPT ![l] = to]

\* An exception leaves the step; the handler at "to" runs next.
Raise(l, to) ==
    /\ Goes(l, to)
    /\ raised' = [raised EXCEPT ![l] = "error"]
    /\ UNCHANGED <<scratch, lock, partial, root, runtime, wasPresent,
                   status, output>>

\* cli turns the exception into _LauncherSetupError, whose exit code is 1.
SetupError(l) ==
    /\ Goes(l, "done")
    /\ raised' = [raised EXCEPT ![l] = "error"]
    /\ status' = [status EXCEPT ![l] = "setup"]
    /\ UNCHANGED <<scratch, lock, partial, root, runtime, wasPresent,
                   output>>

\* A step that changes nothing but the program counter.
Pass(l, to) ==
    /\ Goes(l, to)
    /\ UNCHANGED <<scratch, lock, partial, root, runtime, wasPresent,
                   raised, status, output>>

\* _launch checks the binds and resolves the runfiles before any file is made.
Start(l) ==
    /\ lpc[l] = "start"
    /\ Pass(l, "probe") \/ SetupError(l)

\* _extract_root: scratch_was_present = os.path.lexists(scratch).
Probe(l) ==
    /\ lpc[l] = "probe"
    /\ wasPresent' = [wasPresent EXCEPT ![l] = scratch]
    /\ Goes(l, "lookup")
    /\ UNCHANGED <<scratch, lock, partial, root, runtime, raised,
                   status, output>>

\* _private_scratch looks the directory up a second time ...
Lookup(l) ==
    /\ lpc[l] = "lookup"
    /\ Pass(l, IF scratch THEN "list" ELSE "mkdirs")

\* ... makes it if it was absent, which raises if it no longer is ...
MakeScratch(l) ==
    /\ lpc[l] = "mkdirs"
    /\ \/ /\ ~scratch
          /\ scratch' = TRUE
          /\ Goes(l, "list")
          /\ UNCHANGED <<lock, partial, root, runtime, wasPresent,
                         raised, status, output>>
       \/ SetupError(l)

\* ... and requires that it holds nothing but a lock.
Empty == partial = NoTree /\ root = NoTree /\ runtime = NoOne

ListScratch(l) ==
    /\ lpc[l] = "list"
    /\ IF scratch /\ Empty THEN Pass(l, "lock") ELSE SetupError(l)

\* Mutation: the lock directory is made with exist_ok.
TakeLockExistOk(l) ==
    /\ lpc[l] = "lock"
    /\ IF scratch
         THEN /\ lock' = l
              /\ Goes(l, "checkroot")
              /\ UNCHANGED <<scratch, partial, root, runtime, wasPresent,
                             raised, status, output>>
         ELSE SetupError(l)

\* Mutation: a launcher waits for the lock instead of failing.
TakeLockWaiting(l) ==
    /\ lpc[l] = "lock"
    /\ lock = NoOne
    /\ IF scratch
         THEN /\ lock' = l
              /\ Goes(l, "checkroot")
              /\ UNCHANGED <<scratch, partial, root, runtime, wasPresent,
                             raised, status, output>>
         ELSE SetupError(l)

\* os.mkdir(".in-use") raises if the lock exists or the scratch is gone.
TakeLock(l) ==
    /\ lpc[l] = "lock"
    /\ IF scratch /\ lock = NoOne
         THEN /\ lock' = l
              /\ Goes(l, "checkroot")
              /\ UNCHANGED <<scratch, partial, root, runtime, wasPresent, raised, status, output>>
         ELSE SetupError(l)

\* Mutation: a root that another launcher published is reused.
CheckRootReusing(l) ==
    /\ lpc[l] = "checkroot"
    /\ Pass(l, IF root = NoTree THEN "mkpartial" ELSE "unlock")

CheckRoot(l) ==
    /\ lpc[l] = "checkroot"
    /\ IF root = NoTree THEN Pass(l, "mkpartial") ELSE Raise(l, "unlock")

\* Mutation: os.mkdir of .partial inside the block that removes .partial.
MakePartialGuarded(l) ==
    /\ lpc[l] = "mkpartial"
    /\ \/ /\ partial = NoTree
          /\ partial' = [by |-> l, stage |-> "empty"]
          /\ Goes(l, "extract")
          /\ UNCHANGED <<scratch, lock, root, runtime, wasPresent, raised,
                         status, output>>
       \/ Raise(l, "rmpartial")

\* Mutation: a failed os.mkdir of .partial skips the removal of the lock.
MakePartialKeepingLock(l) ==
    /\ lpc[l] = "mkpartial"
    /\ \/ /\ partial = NoTree
          /\ partial' = [by |-> l, stage |-> "empty"]
          /\ Goes(l, "extract")
          /\ UNCHANGED <<scratch, lock, root, runtime, wasPresent, raised,
                         status, output>>
       \/ Raise(l, "rmscratch")

\* os.mkdir(".partial") is outside the block that removes .partial.
MakePartial(l) ==
    /\ lpc[l] = "mkpartial"
    /\ \/ /\ partial = NoTree
          /\ partial' = [by |-> l, stage |-> "empty"]
          /\ Goes(l, "extract")
          /\ UNCHANGED <<scratch, lock, root, runtime, wasPresent,
                         raised, status, output>>
       \/ Raise(l, "unlock")

\* One step of _materialize_root on the tree at .partial: it succeeds or raises.
Materialize(l, here, stage, next) ==
    /\ lpc[l] = here
    /\ \/ /\ partial' = [partial EXCEPT !.stage = stage]
          /\ Goes(l, next)
          /\ UNCHANGED <<scratch, lock, root, runtime, wasPresent,
                         raised, status, output>>
       \/ Raise(l, "rmpartial")

\* extractor.extract authenticates the archive before it writes any member.
Extract(l) == Materialize(l, "extract", "extracted", "validate")

ValidateRoot(l) == Materialize(l, "validate", "validated", "prepare")

\* Mutation: the tree is published without its completion marker.
PrepareMountpointsUnmarked(l) ==
    Materialize(l, "prepare", "mountpoints", "publish")

PrepareMountpoints(l) == Materialize(l, "prepare", "mountpoints", "mark")

WriteCompletionMarker(l) == Materialize(l, "mark", "complete", "publish")

\* os.replace(partial, root)
Publish(l) ==
    /\ lpc[l] = "publish"
    /\ \/ /\ root = NoTree
          /\ root' = partial
          /\ partial' = NoTree
          /\ Goes(l, "unlock")
          /\ UNCHANGED <<scratch, lock, runtime, wasPresent, raised,
                         status, output>>
       \/ Raise(l, "rmpartial")

\* shutil.rmtree(partial, ignore_errors=True) may leave the tree behind.
RemovePartial(l) ==
    /\ lpc[l] = "rmpartial"
    /\ partial' \in {NoTree, partial}
    /\ Goes(l, "unlock")
    /\ UNCHANGED <<scratch, lock, root, runtime, wasPresent, raised,
                   status, output>>

\* os.rmdir of the lock, which may itself raise and then skips the rest.
Unlock(l) ==
    /\ lpc[l] = "unlock"
    /\ \/ /\ lock' = NoOne
          /\ Goes(l, "rmscratch")
          /\ UNCHANGED <<raised, status>>
       \/ /\ Goes(l, "done")
          /\ raised' = [raised EXCEPT ![l] = "locked"]
          /\ status' = [status EXCEPT ![l] = "setup"]
          /\ UNCHANGED lock
    /\ UNCHANGED <<scratch, partial, root, runtime, wasPresent, output>>

\* os.rmdir(scratch) fails, silently, unless the directory is empty.  The
\* function then raises, or returns the root to _launch, which ends here with
\* --validate-only.
RemoveScratch(l) ==
    /\ lpc[l] = "rmscratch"
    /\ scratch' = (scratch /\ ~(~wasPresent[l] /\ Empty /\ lock = NoOne))
    /\ \/ /\ raised[l] # "none"
          /\ Goes(l, "done")
          /\ status' = [status EXCEPT ![l] = "setup"]
       \/ /\ raised[l] = "none"
          /\ Goes(l, "done")
          /\ status' = [status EXCEPT ![l] = "ok"]
       \/ /\ raised[l] = "none"
          /\ Goes(l, "mkruntime")
          /\ UNCHANGED status
    /\ UNCHANGED <<lock, partial, root, runtime, wasPresent, raised, output>>

-----------------------------------------------------------------------------
\* _run: os.mkdir(".runtime") is outside the block that removes .runtime.
MakeRuntime(l) ==
    /\ lpc[l] = "mkruntime"
    /\ \/ /\ runtime = NoOne
          /\ runtime' = l
          /\ Goes(l, "prepareruntime")
          /\ UNCHANGED <<scratch, lock, partial, root, wasPresent,
                         raised, status, output>>
       \/ SetupError(l)

\* The runtime directories, their mountpoints and a second _validate_root.
PrepareRuntime(l) ==
    /\ lpc[l] = "prepareruntime"
    /\ \/ /\ root # NoTree
          /\ Pass(l, "tool")
       \/ Raise(l, "rmruntime")

\* subprocess.run of the namespace runner with the tool.
RunTool(l) ==
    /\ lpc[l] = "tool"
    /\ \/ \E result \in {"ok", "tool"} :
             /\ status' = [status EXCEPT ![l] = result]
             /\ Goes(l, "rmruntime")
             /\ UNCHANGED <<scratch, lock, partial, root, runtime, wasPresent, raised, output>>
       \/ Raise(l, "rmruntime")

\* Mutation: the root is removed together with the runtime directory.
RemoveRuntimeAndRoot(l) ==
    /\ lpc[l] = "rmruntime"
    /\ runtime' = NoOne
    /\ root' = NoTree
    /\ IF raised[l] # "none"
         THEN /\ Goes(l, "done")
              /\ status' = [status EXCEPT ![l] = "setup"]
         ELSE /\ Goes(l, "output")
              /\ UNCHANGED status
    /\ UNCHANGED <<scratch, lock, partial, wasPresent, raised, output>>
\* shutil.rmtree(runtime, ignore_errors=True)
RemoveRuntime(l) ==
    /\ lpc[l] = "rmruntime"
    /\ runtime' \in {NoOne, runtime}
    /\ IF raised[l] # "none"
         THEN /\ Goes(l, "done")
              /\ status' = [status EXCEPT ![l] = "setup"]
         ELSE /\ Goes(l, "output")
              /\ UNCHANGED status
    /\ UNCHANGED <<scratch, lock, partial, root, wasPresent, raised,
                   output>>

\* --write-version, where given, is written whatever the tool returned.
WriteVersion(l) ==
    /\ lpc[l] = "output"
    /\ \/ /\ output' = [output EXCEPT ![l] = TRUE]
          /\ Goes(l, "done")
          /\ UNCHANGED <<scratch, lock, partial, root, runtime, wasPresent,
                         raised, status>>
       \/ Pass(l, "done")
       \/ SetupError(l)

-----------------------------------------------------------------------------
\* KeyboardInterrupt: the innermost finally block runs and no except block
\* does.  Between the mkdir of .in-use or .runtime and the try that follows it,
\* and inside a finally block, there is none left to run.
HasFinally == {"mkpartial", "rmpartial", "tool"} \cup Materializing

InterruptedAt(here, to) ==
    \/ here \in Claimed \cup Cleaning /\ to = "unlock"
    \/ here \in {"prepareruntime", "tool"} /\ to = "rmruntime"
    \/ here \in Points \ HasFinally /\ to = "done"

Interrupt(l) ==
    /\ lpc[l] \notin Over
    /\ \E to \in {"unlock", "rmruntime", "done"} :
          /\ InterruptedAt(lpc[l], to)
          /\ Goes(l, to)
          /\ status' = IF to = "done" THEN [status EXCEPT ![l] = "setup"]
                                      ELSE status
    /\ raised' = [raised EXCEPT ![l] = "interrupt"]
    /\ UNCHANGED <<scratch, lock, partial, root, runtime, wasPresent,
                   output>>

\* A killed launcher leaves everything it made.
KillLauncher(l) ==
    /\ lpc[l] \notin Over
    /\ Pass(l, "killed")

Step(l) ==
    \/ Start(l) \/ Probe(l) \/ Lookup(l) \/ MakeScratch(l) \/ ListScratch(l)
    \/ TakeLock(l) \/ CheckRoot(l) \/ MakePartial(l)
    \/ Extract(l) \/ ValidateRoot(l) \/ PrepareMountpoints(l)
    \/ WriteCompletionMarker(l) \/ Publish(l)
    \/ RemovePartial(l) \/ Unlock(l) \/ RemoveScratch(l)
    \/ MakeRuntime(l) \/ PrepareRuntime(l) \/ RunTool(l) \/ RemoveRuntime(l)
    \/ WriteVersion(l)

LauncherNext == \E l \in Launchers : Step(l) \/ Interrupt(l) \/ KillLauncher(l)

LauncherSpec == LauncherInit /\ [][LauncherNext]_launcherVars

\* The operating system runs every launcher that has not ended, and the tool
\* that RunTool waits for returns.
LauncherFairSpec == LauncherSpec /\ \A l \in Launchers : WF_launcherVars(Step(l))

-----------------------------------------------------------------------------
(***************************************************************************)
(* Properties                                                              *)
(***************************************************************************)

\* Only the owner of .in-use works on .partial, and the lock it owns keeps the
\* scratch directory in place: os.rmdir by a launcher that failed cannot take
\* it away from the launcher that claimed it next.
ExclusiveClaim ==
    \A l \in Launchers :
        lpc[l] \in Claimed \cup Cleaning => lock = l /\ scratch

\* A root is only ever visible under its final name with its completion marker:
\* authenticated, validated and with all its mountpoints, even when launchers
\* die or fail at any point.
PublishedIsComplete == root # NoTree => root.stage = "complete"

\* A tool only runs in the root that its own launcher extracted, and only one
\* launcher uses the runtime directory.
RunsOwnRoot ==
    \A l \in Launchers :
        /\ lpc[l] \in Running \cup {"output"} => root.by = l /\ scratch
        /\ lpc[l] \in {"prepareruntime", "tool", "rmruntime"} => runtime = l

\* A launcher that ends by itself, successfully or with an error of any of its
\* steps, never leaves .in-use behind: only a killed or interrupted one, or one
\* that cannot remove the directory, can block the launchers that come after it.
LockReleased ==
    \A l \in Launchers :
        lpc[l] = "done" /\ raised[l] \notin {"interrupt", "locked"} => lock # l

\* The scratch directory is sound whoever fails or dies: one launcher has it
\* at a time, what is published is complete, a tool runs in the root of its own
\* launcher, and no error but that of its removal leaves the lock
\* (_extract_root, _run).
ScratchIsSound == ExclusiveClaim /\ PublishedIsComplete /\ RunsOwnRoot /\ LockReleased

\* A tree at .partial is only changed, published or removed by the launcher
\* that made it: a leftover of a dead launcher is never built upon.
OnlyOwnPartial ==
    [][partial # NoTree /\ partial' # partial
         => /\ lpc[partial.by] \in Materializing \cup {"rmpartial"}
            /\ lpc'[partial.by] # lpc[partial.by]]_launcherVars

\* Whatever is killed and whatever is left in the scratch, a launcher that is
\* not killed ends: it fails instead of waiting for the lock.
Termination == \A l \in Launchers : <>(lpc[l] \in Over)

\* The scratch directory behaves like the write-once claim of ScratchClaim.
Abstract == INSTANCE ScratchClaim
    WITH holder <- lock,
         published <- root.by,
         running <- {l \in Launchers : lpc[l] = "tool"}

ImplementsScratchClaim == Abstract!ClaimSpec

(***************************************************************************)
(* The inductive invariant behind the safety properties: who owns the     *)
(* lock, the trees and the runtime directory at each point of _launch.    *)
(***************************************************************************)
StageAt == [extract |-> "empty", validate |-> "extracted",
            prepare |-> "validated", mark |-> "mountpoints",
            publish |-> "complete"]

Owned(l) ==
    /\ lpc[l] \in Claimed \cup Cleaning => lock = l
    /\ lock = l => \/ lpc[l] \in Claimed \cup Cleaning \cup {"killed"}
                   \/ lpc[l] = "done" /\ raised[l] \in {"interrupt", "locked"}
    /\ lpc[l] \in Materializing \cup {"rmpartial"} => partial.by = l
    /\ lpc[l] \in Materializing => partial.stage = StageAt[lpc[l]]
    /\ lpc[l] = "rmpartial" => raised[l] # "none"
    /\ lpc[l] \in {"unlock", "rmscratch"} /\ raised[l] = "none" => root.by = l
    /\ lpc[l] \in Running \cup {"output"} => root.by = l
    /\ lpc[l] \in {"prepareruntime", "tool", "rmruntime"} => runtime = l

LauncherInv ==
    /\ LauncherTypeOK
    /\ \A l \in Launchers : Owned(l)
    /\ root # NoTree => root.stage = "complete"
    /\ lock # NoOne \/ root # NoTree => scratch
=============================================================================
