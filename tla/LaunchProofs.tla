---------------------------- MODULE LaunchProofs ----------------------------
(***************************************************************************)
(* The launchers, for any set of launchers: the scratch claim is           *)
(* exclusive, what is published is complete, and the scratch directory     *)
(* implements ScratchClaim.  Then the namespace runner, through which they *)
(* run a tool, for any list of typed mounts, any set of killable           *)
(* processes, any exit codes and any number of swaps: its invariant has    *)
(* two halves, Handshake speaks of the processes, their pipes and their    *)
(* endings, MountsInOrder of what PID 1 has attached.                      *)
(***************************************************************************)
EXTENDS DebianLauncher, NamespaceRunner, TLAPS

\* The invariant holds before any launcher starts.
LEMMA LauncherBegins == LauncherInit => LauncherInv
  BY LaunchersAssumption
  DEF LauncherInit, LauncherInv, LauncherTypeOK, Owned, Points, Before, Claimed, Materializing,
      Cleaning, Running, NoTree, Trees

\* Every step of _launch preserves it, whether it succeeds or raises.
LEMMA StepIInv ==
  ASSUME LauncherInv, NEW l \in Launchers, Step(l)
  PROVE  LauncherInv'
<1> USE LaunchersAssumption
    DEF LauncherInv, LauncherTypeOK, Owned, StageAt, Trees, Stages, NoTree, Points, Before,
        Claimed, Materializing, Cleaning, Running, Over, Goes
<1>1. CASE Start(l)
  BY <1>1 DEF Start, Pass, SetupError
<1>2. CASE Probe(l)
  BY <1>2 DEF Probe
<1>3. CASE Lookup(l)
  BY <1>3 DEF Lookup, Pass
<1>4. CASE MakeScratch(l)
  <2>1. CASE /\ scratch' = TRUE
              /\ Goes(l, "list")
              /\ UNCHANGED <<lock, partial, root, runtime, wasPresent, raised,
                             status, output>>
    <3>1. scratch' \in BOOLEAN /\ scratch'
      BY <2>1, Zenon
    <3>2. /\ lpc' = [lpc EXCEPT ![l] = "list"]
          /\ UNCHANGED <<lock, partial, root, runtime, wasPresent, raised,
                         status, output>>
      BY Zenon, <2>1
    <3> HIDE <2>1
    <3>3. lpc[l] = "mkdirs"
      BY <1>4, Zenon DEF MakeScratch
    <3> QED
      BY <3>1, <3>2, <3>3
  <2>2. CASE SetupError(l)
    BY <1>4, <2>2 DEF MakeScratch, SetupError
  <2> QED
    BY <1>4, <2>1, <2>2, Zenon DEF MakeScratch
<1>5. CASE ListScratch(l)
  BY <1>5 DEF ListScratch, Pass, SetupError
<1>6. CASE TakeLock(l)
  BY <1>6 DEF TakeLock, SetupError
<1>7. CASE CheckRoot(l)
  BY <1>7 DEF CheckRoot, Pass, Raise
<1>8. CASE MakePartial(l)
  BY <1>8 DEF MakePartial, Raise
<1>9. CASE Extract(l)
  BY <1>9 DEF Extract, Materialize, Raise
<1>10. CASE ValidateRoot(l)
  BY <1>10 DEF ValidateRoot, Materialize, Raise
<1>11. CASE PrepareMountpoints(l)
  BY <1>11 DEF PrepareMountpoints, Materialize, Raise
<1>12. CASE WriteCompletionMarker(l)
  BY <1>12 DEF WriteCompletionMarker, Materialize, Raise
<1>13. CASE Publish(l)
  BY <1>13 DEF Publish, Raise
<1>14. CASE RemovePartial(l)
  BY <1>14 DEF RemovePartial
<1>15. CASE Unlock(l)
  BY <1>15 DEF Unlock
<1>16. CASE RemoveScratch(l)
  BY <1>16 DEF RemoveScratch, Empty
<1>17. CASE MakeRuntime(l)
  BY <1>17 DEF MakeRuntime, SetupError
<1>18. CASE PrepareRuntime(l)
  BY <1>18 DEF PrepareRuntime, Pass, Raise
<1>19. CASE RunTool(l)
  BY <1>19 DEF RunTool, Raise
<1>20. CASE RemoveRuntime(l)
  BY <1>20 DEF RemoveRuntime
<1>21. CASE WriteVersion(l)
  <2>1. output' \in [Launchers -> BOOLEAN]
    BY <1>21, Zenon DEF WriteVersion, Pass, SetupError
  <2> QED
    BY <1>21, <2>1 DEF WriteVersion, Pass, SetupError
<1> HIDE DEF LauncherInv
<1> QED
  BY <1>1, <1>2, <1>3, <1>4, <1>5, <1>6, <1>7, <1>8, <1>9, <1>10, <1>11, <1>12, <1>13, <1>14, <1>15, <1>16, <1>17, <1>18, <1>19, <1>20, <1>21, Zenon DEF Step

\* So does dying in any of the ways a launcher can die.
LEMMA DieIInv ==
  ASSUME LauncherInv, NEW l \in Launchers, Interrupt(l) \/ KillLauncher(l)
  PROVE  LauncherInv'
<1> USE LaunchersAssumption
    DEF LauncherInv, LauncherTypeOK, Owned, StageAt, Trees, Stages, NoTree, Points, Before,
        Claimed, Materializing, Cleaning, Running, Over, Goes
<1>1. CASE Interrupt(l)
  <2>1. PICK to \in {"unlock", "rmruntime", "done"} :
          /\ InterruptedAt(lpc[l], to) /\ lpc' = [lpc EXCEPT ![l] = to]
          /\ status' = IF to = "done" THEN [status EXCEPT ![l] = "setup"] ELSE status
    BY <1>1, Zenon DEF Interrupt
  <2>2. /\ raised' = [raised EXCEPT ![l] = "interrupt"]
        /\ UNCHANGED <<scratch, lock, partial, root, runtime, wasPresent, output>>
    BY <1>1, Zenon DEF Interrupt
  <2>3. LauncherTypeOK'
    BY <2>1, <2>2
  <2>4. ASSUME NEW m \in Launchers PROVE Owned(m)'
    <3>1. CASE m # l
      BY <2>1, <2>2, <3>1
    <3>2. CASE m = l
      BY <2>1, <2>2, <3>2 DEF InterruptedAt, HasFinally
    <3> QED
      BY <3>1, <3>2, Zenon
  <2> HIDE DEF Owned, LauncherTypeOK
  <2> QED
    BY <2>2, <2>3, <2>4
<1>2. CASE KillLauncher(l)
  BY <1>2 DEF KillLauncher, Pass
<1> HIDE DEF LauncherInv
<1> QED
  BY <1>1, <1>2

\* LauncherInv is an invariant of the launchers, whatever fails and whoever dies.
THEOREM LauncherInductive == LauncherSpec => []LauncherInv
<1>1. LauncherInv /\ [LauncherNext]_launcherVars => LauncherInv'
  <2> SUFFICES ASSUME LauncherInv, [LauncherNext]_launcherVars
               PROVE  LauncherInv'
    OBVIOUS
  <2>1. CASE UNCHANGED launcherVars
    BY <2>1, Zenon DEF launcherVars, LauncherInv, LauncherTypeOK, Owned
  <2>2. CASE LauncherNext
    BY <2>2, StepIInv, DieIInv DEF LauncherNext
  <2> QED
    BY <2>1, <2>2
<1> QED
  BY <1>1, LauncherBegins, PTL DEF LauncherSpec

\* Every variable of the launchers keeps its type.
THEOREM LauncherTypeCorrect == LauncherSpec => []LauncherTypeOK
  BY LauncherInductive, PTL DEF LauncherInv

\* Only the owner of .in-use works in the scratch directory, and it stays there
\* as long as it is owned (debian_launcher.py, _extract_root).
THEOREM ExclusiveClaimHolds == LauncherSpec => []ExclusiveClaim
<1>1. LauncherInv => ExclusiveClaim
  BY LaunchersAssumption DEF LauncherInv, Owned, ExclusiveClaim
<1> QED
  BY <1>1, LauncherInductive, PTL

\* A root is complete from the moment it has its final name (os.replace in
\* _extract_root).
THEOREM PublishedIsCompleteHolds == LauncherSpec => []PublishedIsComplete
  BY LauncherInductive, PTL DEF LauncherInv, PublishedIsComplete

\* A launcher runs its tool in the root and the runtime directory it made.
THEOREM RunsOwnRootHolds == LauncherSpec => []RunsOwnRoot
<1>1. ASSUME LauncherInv, NEW l \in Launchers, root.by = l
      PROVE  scratch
  <2>1. root # NoTree
    BY <1>1, LaunchersAssumption DEF NoTree
  <2> QED
    BY <1>1, <2>1 DEF LauncherInv
<1>2. LauncherInv => RunsOwnRoot
  BY <1>1, Zenon DEF LauncherInv, Owned, RunsOwnRoot
<1> QED
  BY <1>2, LauncherInductive, PTL

\* Errors never leave the lock behind (the finally block of _extract_root).
THEOREM LockReleasedHolds == LauncherSpec => []LockReleased
<1>1. LauncherInv => LockReleased
  BY DEF LauncherInv, Owned, LockReleased, Claimed, Materializing, Cleaning
<1> QED
  BY <1>1, LauncherInductive, PTL

\* The four together: the scratch directory is sound for any launchers.
THEOREM ScratchIsSoundHolds == LauncherSpec => []ScratchIsSound
  BY ExclusiveClaimHolds, PublishedIsCompleteHolds, RunsOwnRootHolds, LockReleasedHolds, PTL DEF ScratchIsSound

\* Nobody touches a .partial tree but the launcher that made it: os.mkdir of
\* .partial raises on a leftover before the block that would remove it.
THEOREM OnlyOwnPartialHolds == LauncherSpec => OnlyOwnPartial
<1> DEFINE Own == partial # NoTree /\ partial' # partial
                    => /\ lpc[partial.by] \in Materializing \cup {"rmpartial"}
                       /\ lpc'[partial.by] # lpc[partial.by]
<1>1. ASSUME LauncherInv, [LauncherNext]_launcherVars
      PROVE  Own
  <2>1. CASE UNCHANGED launcherVars
    BY <2>1 DEF launcherVars
  <2>2. ASSUME NEW l \in Launchers, Step(l) \/ Interrupt(l) \/ KillLauncher(l)
        PROVE  Own
    <3> USE DEF Goes, Materializing
    <3>1. CASE MakePartial(l)
      BY <3>1 DEF MakePartial, Raise
    <3>2. CASE Extract(l) \/ ValidateRoot(l) \/ PrepareMountpoints(l)
               \/ WriteCompletionMarker(l) \/ Publish(l) \/ RemovePartial(l)
      <4>1. /\ lpc[l] \in Materializing \cup {"rmpartial"} => partial.by = l
            /\ partial \in Trees \cup {NoTree} /\ lpc \in [Launchers -> Points]
        BY <1>1, Zenon DEF LauncherInv, LauncherTypeOK, Owned
      <4> QED
        BY <3>2, <4>1, Zenon DEF Trees, Extract, ValidateRoot, PrepareMountpoints,
           WriteCompletionMarker, Materialize, Publish, RemovePartial, Raise
    <3>3. CASE UNCHANGED partial
      BY <3>3
    <3> QED
      BY <2>2, <3>1, <3>2, <3>3, Zenon DEF Step, Start, Probe, Lookup, MakeScratch,
         ListScratch, TakeLock, CheckRoot, Unlock, RemoveScratch, MakeRuntime,
         PrepareRuntime, RunTool, RemoveRuntime, WriteVersion, Interrupt, KillLauncher,
         Pass, SetupError, Raise
  <2> QED
    BY <1>1, <2>1, <2>2 DEF LauncherNext
<1>2. LauncherInv /\ [LauncherNext]_launcherVars => [Own]_launcherVars
  BY <1>1
<1> QED
  BY <1>2, LauncherInductive, PTL DEF LauncherSpec, OnlyOwnPartial

\* The shared scratch directory, with all its failures, implements the
\* write-once claim that ScratchClaim specifies.
THEOREM Refinement == LauncherSpec => ImplementsScratchClaim
<1>1. LauncherInit => Abstract!ClaimInit
  BY DEF LauncherInit, Abstract!ClaimInit, NoTree
<1>2. ASSUME LauncherInv, [LauncherNext]_launcherVars
      PROVE  [Abstract!ClaimNext]_(Abstract!claimVars)
  <2> DEFINE running == {k \in Launchers : lpc[k] = "tool"}
  <2> USE DEF Goes
  <2>1. CASE UNCHANGED launcherVars
    BY <2>1 DEF launcherVars, Abstract!claimVars
  <2>2. ASSUME NEW l \in Launchers, Step(l) \/ Interrupt(l) \/ KillLauncher(l)
        PROVE  [Abstract!ClaimNext]_(Abstract!claimVars)
    <3>1. CASE TakeLock(l) /\ lock' = l
      <4>1. lock = NoOne /\ root' = root /\ running' = running
        BY <1>2, <3>1, LaunchersAssumption
           DEF TakeLock, SetupError, LauncherInv, LauncherTypeOK, Owned, Claimed, Cleaning,
               Materializing
      <4> QED
        BY <3>1, <4>1 DEF Abstract!ClaimNext, Abstract!Claim
    <3>2. CASE Unlock(l)
      <4>0. /\ lock = l /\ lock' \in {NoOne, lock} /\ root' = root
            /\ lpc \in [Launchers -> Points]
        BY <1>2, <3>2, Zenon DEF Unlock, LauncherInv, LauncherTypeOK, Owned, Cleaning
      <4>1. running' = running
        BY <3>2, <4>0, Zenon DEF Unlock
      <4>2. CASE lock' = NoOne
        BY <4>0, <4>1, <4>2 DEF Abstract!ClaimNext, Abstract!Release
      <4>3. CASE lock' = lock
        BY <4>0, <4>1, <4>3 DEF Abstract!claimVars
      <4> QED
        BY <4>0, <4>2, <4>3
    <3>3. CASE Publish(l) /\ lpc'[l] = "unlock"
      <4>1. /\ lock = l /\ lock' = lock /\ root.by = NoOne /\ root'.by = l
            /\ running' = running
        BY <1>2, <3>3 DEF Publish, Raise, LauncherInv, LauncherTypeOK, Owned, Claimed,
             Materializing, NoTree
      <4> QED
        BY <4>1 DEF Abstract!ClaimNext, Abstract!Publish
    <3>4. CASE PrepareRuntime(l) /\ lpc'[l] = "tool"
      <4>1. root.by = l /\ running' = running \cup {l}
            /\ UNCHANGED <<lock, root>>
        BY <1>2, <3>4 DEF PrepareRuntime, Pass, Raise, LauncherInv, LauncherTypeOK, Owned,
             Running
      <4> QED
        BY <4>1 DEF Abstract!ClaimNext, Abstract!StartTool
    <3>5. CASE lpc[l] = "tool"
      <4>1. /\ l \in running /\ running' = running \ {l}
            /\ UNCHANGED <<lock, root>>
        <5>1. lpc \in [Launchers -> Points]
          BY <1>2 DEF LauncherInv, LauncherTypeOK
        <5>2. RunTool(l) \/ Interrupt(l) \/ KillLauncher(l)
          BY <2>2, <3>5, Zenon DEF Step, Start, Probe, Lookup, MakeScratch, ListScratch,
             TakeLock, CheckRoot, MakePartial, Extract, ValidateRoot,
             PrepareMountpoints, WriteCompletionMarker, Materialize, Publish,
             RemovePartial, Unlock, RemoveScratch, MakeRuntime, PrepareRuntime,
             RemoveRuntime, WriteVersion
        <5> QED
          BY <3>5, <5>1, <5>2, Zenon DEF RunTool, Interrupt, KillLauncher, Pass, Raise
      <4> QED
        BY <4>1 DEF Abstract!ClaimNext, Abstract!EndTool
    <3>6. CASE /\ UNCHANGED <<lock, root>>
               /\ lpc[l] # "tool" /\ lpc'[l] # "tool"
               /\ \A k \in Launchers : k # l => lpc'[k] = lpc[k]
      <4>1. running' = running
        BY <3>6
      <4> QED
        BY <3>6, <4>1 DEF Abstract!claimVars
    <3>7. \/ TakeLock(l) /\ lock' = l
          \/ Unlock(l)
          \/ Publish(l) /\ lpc'[l] = "unlock"
          \/ PrepareRuntime(l) /\ lpc'[l] = "tool"
          \/ lpc[l] = "tool"
          \/ /\ UNCHANGED <<lock, root>>
             /\ lpc[l] # "tool" /\ lpc'[l] # "tool"
             /\ \A k \in Launchers : k # l => lpc'[k] = lpc[k]
      <4>0. lpc \in [Launchers -> Points]
        BY <1>2 DEF LauncherInv, LauncherTypeOK
      <4> USE <4>0
      <4>1. CASE Start(l) \/ Probe(l) \/ Lookup(l)
        BY <4>1, Zenon DEF Start, Probe, Lookup, Pass, SetupError, Raise
      <4>2. CASE MakeScratch(l) \/ ListScratch(l)
        BY <4>2, Zenon DEF MakeScratch, ListScratch, Pass, SetupError, Raise
      <4>3. CASE TakeLock(l)
        BY <4>3, Zenon DEF TakeLock, Pass, SetupError, Raise
      <4>4. CASE CheckRoot(l) \/ MakePartial(l)
        BY <4>4, Zenon DEF CheckRoot, MakePartial, Pass, SetupError, Raise
      <4>5. CASE Extract(l) \/ ValidateRoot(l) \/ PrepareMountpoints(l) \/ WriteCompletionMarker(l)
        BY <4>5, Zenon DEF Extract, ValidateRoot, PrepareMountpoints,
             WriteCompletionMarker, Materialize, Pass, SetupError, Raise
      <4>6. CASE Publish(l)
        BY <4>6, Zenon DEF Publish, Pass, SetupError, Raise
      <4>7. CASE RemovePartial(l) \/ Unlock(l) \/ RemoveScratch(l)
        BY <4>7, Zenon DEF RemovePartial, RemoveScratch, Pass, SetupError, Raise
      <4>8. CASE MakeRuntime(l) \/ PrepareRuntime(l)
        BY <4>8, Zenon DEF MakeRuntime, PrepareRuntime, Pass, SetupError, Raise
      <4>9. CASE RunTool(l) \/ RemoveRuntime(l) \/ WriteVersion(l)
        BY <4>9, Zenon DEF RunTool, RemoveRuntime, WriteVersion, Pass, SetupError, Raise
      <4>10. CASE Interrupt(l) \/ KillLauncher(l)
        BY <4>10, Zenon DEF Interrupt, KillLauncher, Pass, SetupError, Raise
      <4> QED
        BY <2>2, <4>1, <4>2, <4>3, <4>4, <4>5, <4>6, <4>7, <4>8, <4>9, <4>10, Zenon DEF Step
    <3> QED
      BY Zenon, <3>1, <3>2, <3>3, <3>4, <3>5, <3>6, <3>7
  <2> QED
    BY <1>2, <2>1, <2>2 DEF LauncherNext
<1> QED
  BY <1>1, <1>2, LauncherInductive, PTL
     DEF LauncherSpec, ImplementsScratchClaim, Abstract!ClaimSpec

-----------------------------------------------------------------------------
\* The namespace runner.

\* The facts about the constants that the proofs use.
LEMMA MountFacts ==
  /\ Len(TypedMounts) \in Nat
  /\ 1 \in MountIndices /\ MaxSwaps \in Nat
  /\ \A i \in MountIndices : i \in Nat /\ Source(i) \in Sources
  BY RunnerAssumption DEF RunnerAssumption, MountIndices, Sources

\* The invariant holds when main starts.
LEMMA InitIInv == Init => IInv
<1> SUFFICES ASSUME Init PROVE Handshake /\ MountsInOrder
  BY DEF IInv
<1>1. Handshake
  BY DEF Init, Handshake, TypeProcesses, Located, Mapped, Ended, Acknowledged, AllMaps,
        MapperLocations, MiddleLocations, InitLocations, MapperCalls, MiddleCalls,
        MountCalls, RootCalls, Calls, Locations, Procs, PipeEnds, Endings, Alive,
        Signal, SIGKILL, SIGPIPE, processVars, pipeVars, identityVars, At, Goto, End,
        Mirrored
<1>2. MountsInOrder
  BY MountFacts, RunnerAssumption DEF Init, RunnerAssumption, MountsInOrder, TypeMounts, AtMount, AtRoot, ToolConfined, Confined,
        NeverWritable, BoundIsValidated, AllAttached, Attached, MountCalls, NoMount, Detached, MountStates, Objects, MountIndices, FirstTyped, mountVars, rootVars, outsideVars, Alive, Procs
<1> QED
  BY <1>1, <1>2

\* The GID map is the last of the three files.
LEMMA GidMapIsLast ==
  ASSUME Handshake, WriteGidMap
  PROVE  maps' = AllMaps
<1>1. pc["mapper"] = "mapgid" /\ maps' = maps \cup {"gid"}
  BY DEF WriteGidMap, WriteMap, At
<1>2. {"uid", "setgroups"} \subseteq maps
  BY <1>1 DEF Handshake, Mapped
<1>3. maps \subseteq AllMaps
  BY DEF Handshake, TypeProcesses, AllMaps
<1> QED
  BY <1>1, <1>2, <1>3, Zenon DEF AllMaps

\* A process that ends leaves the others where they are.
LEMMA EndKeeps ==
  ASSUME Handshake, NEW p \in Procs, NEW how \in Endings, pc[p] # "unborn", End(p, how),
         UNCHANGED <<ready, ack, sigchld, maps, isRoot>>
  PROVE  TypeProcesses' /\ Located' /\ Mapped'
<1>1. /\ pc \in [Procs -> Locations] /\ pc' = [pc EXCEPT ![p] = "ended"]
      /\ ending \in [Procs -> Endings \cup {Alive}] /\ ending' = [ending EXCEPT ![p] = how]
      /\ held \in [Procs -> SUBSET PipeEnds] /\ held' = [held EXCEPT ![p] = {}]
  BY DEF Handshake, TypeProcesses, End
<1>2. TypeProcesses'
  <2>1. pc' \in [Procs -> Locations]
    BY <1>1 DEF Locations
  <2>2. ending' \in [Procs -> Endings \cup {Alive}] /\ held' \in [Procs -> SUBSET PipeEnds]
    BY <1>1
  <2> QED
    BY <2>1, <2>2 DEF Handshake, TypeProcesses
<1>3. \A q \in Procs : /\ pc'[q] = IF q = p THEN "ended" ELSE pc[q]
                       /\ ending'[q] = IF q = p THEN how ELSE ending[q]
  BY <1>1
<1> USE <1>3
<1>4. {"mapper", "middle", "init"} = Procs /\ how # Alive
  BY DEF Procs, Endings, Alive, Signal, SIGKILL, SIGPIPE
<1> USE <1>4
<1>5. Located'
  <2>1. \A q \in Procs : pc'[q] = "ended" <=> ending'[q] # Alive
    BY DEF Handshake, Located
  <2>2. pc'["mapper"] \in MapperLocations /\ pc'["middle"] \in MiddleLocations /\ pc'["init"] \in InitLocations
    BY Zenon DEF Handshake, Located, MapperLocations, MiddleLocations, InitLocations
  <2> QED
    BY <2>1, <2>2, Zenon DEF Handshake, Located
<1>6. Mapped'
  BY DEF Handshake, Mapped, Acknowledged
<1> QED
  BY <1>2, <1>5, <1>6

\* What a process mirrors is an ending.
LEMMA MirroredType ==
  ASSUME NEW how \in Endings \cup {Alive}, how # Alive
  PROVE  Mirrored(how) \in Endings
  BY DEF Mirrored, Endings, Signal

\* The mapper ends as the middle process did.
LEMMA MapperWaits ==
  ASSUME Handshake, WaitFor("mapper", "middle")
  PROVE  Handshake'
<1>1. /\ pc["mapper"] = "wait" /\ ending["middle"] # Alive /\ End("mapper", Mirrored(ending["middle"]))
      /\ UNCHANGED <<ready, ack, sigchld, maps, isRoot>>
  BY DEF WaitFor, At, pipeVars, identityVars
<1> USE <1>1
<1>2. {"mapper", "middle", "init"} = Procs
  BY DEF Procs
<1>3. Mirrored(ending["middle"]) \in Endings
  BY <1>2, MirroredType DEF Handshake, TypeProcesses
<1>4. TypeProcesses' /\ Located' /\ Mapped'
  BY <1>2, <1>3, EndKeeps
<1>5. /\ pc["middle"] = "ended" /\ pc'["mapper"] = "ended" /\ ending'["mapper"] = Mirrored(ending["middle"])
      /\ pc'["middle"] = pc["middle"] /\ pc'["init"] = pc["init"]
      /\ ending'["middle"] = ending["middle"] /\ ending'["init"] = ending["init"]
  BY <1>2, Zenon DEF Handshake, TypeProcesses, Located, End
<1>6. Ended'
  BY <1>5 DEF Handshake, Ended, Mirrored, Acknowledged
<1> QED
  BY <1>4, <1>6 DEF Handshake

\* The middle process ends as PID 1 did.
LEMMA MiddleWaits ==
  ASSUME Handshake, WaitFor("middle", "init")
  PROVE  Handshake'
<1>1. /\ pc["middle"] = "wait" /\ ending["init"] # Alive /\ End("middle", Mirrored(ending["init"]))
      /\ UNCHANGED <<ready, ack, sigchld, maps, isRoot>>
  BY DEF WaitFor, At, pipeVars, identityVars
<1> USE <1>1
<1>2. {"mapper", "middle", "init"} = Procs
  BY DEF Procs
<1>3. Mirrored(ending["init"]) \in Endings
  BY <1>2, MirroredType DEF Handshake, TypeProcesses
<1>4. TypeProcesses' /\ Located' /\ Mapped'
  BY <1>2, <1>3, EndKeeps
<1>5. /\ pc["init"] = "ended" /\ pc'["middle"] = "ended" /\ ending'["middle"] = Mirrored(ending["init"])
      /\ pc'["init"] = pc["init"] /\ pc'["mapper"] = pc["mapper"]
      /\ ending'["init"] = ending["init"] /\ ending'["mapper"] = ending["mapper"]
  BY <1>2, Zenon DEF Handshake, TypeProcesses, Located, End
<1>6. Ended'
  BY <1>5 DEF Handshake, Located, Mapped, Ended, Mirrored, Acknowledged
<1> QED
  BY <1>4, <1>6 DEF Handshake

\* However PID 1 ends, the others have not seen it yet.
LEMMA InitEnds ==
  ASSUME Handshake, NEW how \in Endings, pc["init"] \notin {"unborn", "ended"},
         End("init", how), UNCHANGED <<ready, ack, sigchld, maps, isRoot>>
  PROVE  Handshake'
<1>1. {"mapper", "middle", "init"} = Procs
  BY DEF Procs
<1>2. TypeProcesses' /\ Located' /\ Mapped'
  BY <1>1, EndKeeps
<1>3. /\ pc'["middle"] = pc["middle"] /\ pc'["mapper"] = pc["mapper"]
      /\ ending'["middle"] = ending["middle"] /\ ending'["mapper"] = ending["mapper"]
  BY <1>1 DEF Handshake, TypeProcesses, End
<1>4. Ended'
  BY <1>3 DEF Handshake, Ended, Mirrored, Acknowledged
<1> QED
  BY <1>2, <1>4 DEF Handshake

\* PID 1 moves on, and the others stay where they are.
LEMMA InitMoves ==
  ASSUME Handshake, NEW l \in RootCalls \cup MountCalls \cup {"tool"},
         pc["init"] \in RootCalls \cup MountCalls, pc' = [pc EXCEPT !["init"] = l],
         UNCHANGED <<ending, held, ready, ack, sigchld, maps, isRoot>>
  PROVE  Handshake'
<1>1. {"mapper", "middle", "init"} = Procs
  BY DEF Procs
<1>2. l \in Locations \ {"unborn", "ended"} /\ pc["init"] \notin {"unborn", "ended"}
  BY DEF Locations, Calls, RootCalls, MountCalls
<1> USE <1>2
<1>3. /\ pc \in [Procs -> Locations] /\ pc' \in [Procs -> Locations]
      /\ pc'["init"] = l /\ pc'["middle"] = pc["middle"] /\ pc'["mapper"] = pc["mapper"]
  BY <1>1 DEF Handshake, TypeProcesses
<1> USE <1>3
<1>4. TypeProcesses'
  BY DEF Handshake, TypeProcesses
<1>5. Located'
  BY <1>1, Zenon DEF Handshake, Located, InitLocations
<1>6. Mapped'
  BY Zenon DEF Handshake, Mapped, Acknowledged
<1>7. Ended'
  BY DEF Handshake, Ended, Mirrored, Acknowledged
<1> QED
  BY <1>4, <1>5, <1>6, <1>7, Zenon DEF Handshake

\* A process that gives up does so before it waits: PID 1 does not exist yet when
\* one of the others does, and the mapper has not acknowledged.
LEMMA GivesUp ==
  ASSUME Handshake, NEW p \in Procs, NEW how \in {1, Signal(SIGPIPE)},
         pc[p] \notin {"unborn", "wait", "ended"}, End(p, how),
         UNCHANGED <<ready, ack, sigchld, maps, isRoot>>
  PROVE  Handshake'
<1>1. {"mapper", "middle", "init"} = Procs /\ how \in Endings
  BY DEF Procs, Endings, SIGPIPE
<1>2. TypeProcesses' /\ Located' /\ Mapped'
  BY <1>1, EndKeeps
<1>3. \A q \in Procs : /\ pc'[q] = IF q = p THEN "ended" ELSE pc[q]
                       /\ ending'[q] = IF q = p THEN how ELSE ending[q]
  BY DEF Handshake, TypeProcesses, End
<1>4. CASE p = "init"
  BY <1>1, <1>4, InitEnds
<1>5. CASE p = "middle"
  <2>1. pc["init"] = "unborn"
    BY <1>5, Zenon DEF Handshake, Located
  <2>2. Ended'
    BY <1>1, <1>3, <1>5, <2>1 DEF Handshake, Ended, Mirrored, Acknowledged
  <2> QED
    BY <1>2, <2>2 DEF Handshake
<1>6. CASE p = "mapper"
  <2>1. ~Acknowledged
    BY <1>6 DEF Handshake, Mapped
  <2>2. pc["init"] = "unborn"
    BY <2>1 DEF Handshake, Mapped, Acknowledged
  <2>3. Ended'
    BY <1>1, <1>3, <1>6, <2>1, <2>2 DEF Handshake, Ended, Mirrored, Acknowledged
  <2> QED
    BY <1>2, <2>3 DEF Handshake
<1> QED
  BY <1>1, <1>4, <1>5, <1>6

\* A call that fails makes its process give up.
LEMMA FailKeeps ==
  ASSUME Handshake, NEW p \in Procs, Fail(p)
  PROVE  Handshake'
<1>1. pc[p] \in Calls /\ End(p, 1) /\ UNCHANGED <<ready, ack, sigchld, maps, isRoot>>
  BY DEF Fail, pipeVars, identityVars
<1>2. pc[p] \notin {"unborn", "wait", "ended"}
  BY <1>1 DEF Calls, MapperCalls, MiddleCalls, RootCalls, MountCalls
<1> QED
  BY <1>1, <1>2, GivesUp

\* The mapper moves on before its acknowledgement: the middle process is not past
\* readack, and there is no PID 1.
LEMMA MapperMoves ==
  ASSUME Handshake,
         NEW l \in {"groups", "readready", "mapuid", "denygroups", "mapgid", "sendack"},
         pc["mapper"] \notin {"wait", "ended"}, pc' = [pc EXCEPT !["mapper"] = l],
         l = "groups" \/ pc["mapper"] # "signals", l = "groups" => pc["mapper"] = "signals",
         UNCHANGED <<ending, ack, isRoot>>, held' \in [Procs -> SUBSET PipeEnds],
         ready' \in {"empty", "byte"}, sigchld' = sigchld \/ sigchld' = "default",
         l = "groups" => sigchld' = "default", maps \subseteq maps', maps' \subseteq AllMaps,
         l = "denygroups" => "uid" \in maps', l = "mapgid" => {"uid", "setgroups"} \subseteq maps',
         l = "sendack" => maps' = AllMaps
  PROVE  Handshake'
<1>1. {"mapper", "middle", "init"} = Procs
  BY DEF Procs
<1>2. ~Acknowledged
  BY DEF Handshake, Mapped
<1>3. pc["init"] = "unborn"
  BY <1>2, Zenon DEF Handshake, Mapped, Acknowledged
<1>4. l \in Locations /\ l \in MapperLocations
  BY DEF Locations, Calls, MapperCalls, MapperLocations
<1>5. pc'["mapper"] = l /\ pc'["middle"] = pc["middle"] /\ pc'["init"] = "unborn"
  BY <1>1, <1>3, Zenon DEF Handshake, TypeProcesses
<1>6. TypeProcesses'
  BY <1>4, Zenon DEF Handshake, TypeProcesses, AllMaps
<1>7. Located'
  BY <1>1, <1>3, <1>4, <1>5, Zenon DEF Handshake, Located
<1>8. Mapped'
  BY <1>2, <1>3, <1>5, Zenon DEF Handshake, Mapped, Acknowledged
<1>9. Ended'
  BY <1>3, <1>5, Zenon DEF Handshake, Ended
<1> QED
  BY <1>6, <1>7, <1>8, <1>9, Zenon DEF Handshake

\* The steps of map_child_identity_and_exit keep the handshake in order.
LEMMA MapperHandshake ==
  ASSUME Handshake, MapperNext
  PROVE  Handshake'
<1>0. {"mapper", "middle", "init"} = Procs /\ held \in [Procs -> SUBSET PipeEnds]
      /\ ready \in {"empty", "byte"} /\ maps \subseteq AllMaps
      /\ pc \in [Procs -> Locations]
  BY DEF Handshake, TypeProcesses, AllMaps, Procs
<1>1. CASE ResetInheritedSignals
  BY <1>0, <1>1, MapperMoves, Zenon DEF ResetInheritedSignals, At, Goto, pipeVars
<1>2. CASE ForkMiddle
  <2>1. /\ pc["mapper"] = "groups" /\ pc["middle"] = "unborn" /\ pc["init"] = "unborn"
        /\ sigchld = "default" /\ UNCHANGED <<ending, ready, ack, sigchld, maps, isRoot>>
    BY <1>2, Zenon DEF ForkMiddle, At, pipeVars, identityVars, Handshake, Located
  <2> USE <2>1
  <2>2. /\ pc' \in [Procs -> Locations] /\ held' \in [Procs -> SUBSET PipeEnds]
        /\ pc'["mapper"] = "mapperends" /\ pc'["middle"] = "middleends" /\ pc'["init"] = "unborn"
    BY <1>0, <1>2, Zenon DEF ForkMiddle, Locations
  <2>3. TypeProcesses'
    BY <2>2, Zenon DEF Handshake, TypeProcesses
  <2>4. Located'
    BY <1>0, <2>2, Zenon DEF Handshake, Located, MapperLocations, MiddleLocations
  <2>5. Mapped' /\ Ended'
    BY <2>2, Zenon DEF Handshake, Mapped, Ended, Acknowledged
  <2> QED
    BY <2>3, <2>4, <2>5 DEF Handshake
<1>3. CASE MapperCloses
  <2>1. held' \in [Procs -> SUBSET PipeEnds]
    BY <1>0, <1>3 DEF MapperCloses
  <2> QED
    BY <1>0, <1>3, <2>1, MapperMoves, Zenon DEF MapperCloses, At, Goto, pipeVars, identityVars
<1>4. CASE ReadReady
  <2>1. pc["mapper"] = "readready" /\ UNCHANGED <<ack, sigchld, maps, isRoot>>
    BY <1>4 DEF ReadReady, At, identityVars
  <2>2. CASE ready = "byte"
    BY <1>0, <1>4, <2>1, <2>2, MapperMoves, Zenon DEF ReadReady, Goto
  <2>3. CASE ready # "byte"
    BY <1>0, <1>4, <2>1, <2>3, GivesUp, Zenon DEF ReadReady
  <2> QED
    BY <2>2, <2>3
<1>5. CASE WriteUidMap
  <2>1. maps' = maps \cup {"uid"}
    BY <1>5 DEF WriteUidMap, WriteMap
  <2>2. maps' \subseteq AllMaps
    BY <1>0, <2>1 DEF AllMaps
  <2> QED
    BY <1>0, <1>5, <2>1, <2>2, MapperMoves, Zenon DEF WriteUidMap, WriteMap, At, Goto, pipeVars
<1>6. CASE DenySetgroups
  <2>1. maps' = maps \cup {"setgroups"} /\ "uid" \in maps
    BY <1>6 DEF DenySetgroups, WriteMap, At, Handshake, Mapped
  <2>2. maps' \subseteq AllMaps
    BY <1>0, <2>1 DEF AllMaps
  <2> QED
    BY <1>0, <1>6, <2>1, <2>2, MapperMoves, Zenon DEF DenySetgroups, WriteMap, At, Goto, pipeVars
<1>7. CASE WriteGidMap
  <2>1. maps' = AllMaps
    BY <1>7, GidMapIsLast
  <2> QED
    BY <1>0, <1>7, <2>1, MapperMoves, Zenon DEF WriteGidMap, WriteMap, At, Goto, pipeVars
<1>8. CASE SendAck
  <2>1. pc["mapper"] = "sendack" /\ UNCHANGED <<ready, sigchld, maps, isRoot>>
    BY <1>8 DEF SendAck, At, identityVars
  <2>2. CASE ~\E q \in Procs : "ackR" \in held[q]
    BY <1>0, <1>8, <2>1, <2>2, GivesUp, Zenon DEF SendAck
  <2>3. CASE \E q \in Procs : "ackR" \in held[q]
    <3>1. /\ ack' = "byte" /\ pc' = [pc EXCEPT !["mapper"] = "wait"] /\ ending' = ending
          /\ held' = [held EXCEPT !["mapper"] = {}]
      BY <1>8, <2>3 DEF SendAck, Goto
    <3> USE <3>1
    <3>2. /\ pc' \in [Procs -> Locations] /\ held' \in [Procs -> SUBSET PipeEnds]
          /\ pc'["mapper"] = "wait" /\ pc'["middle"] = pc["middle"] /\ pc'["init"] = pc["init"]
      BY <1>0 DEF Locations
    <3>3. TypeProcesses'
      BY <2>1, <3>2, Zenon DEF Handshake, TypeProcesses
    <3>4. Located'
      BY <1>0, <2>1, <3>2, Zenon DEF Handshake, Located, MapperLocations
    <3>5. Mapped' /\ Ended'
      BY <2>1, <3>2 DEF Handshake, Mapped, Ended, Acknowledged, Mirrored
    <3> QED
      BY <3>3, <3>4, <3>5 DEF Handshake
  <2> QED
    BY <2>2, <2>3
<1>9. CASE WaitFor("mapper", "middle")
  BY <1>9, MapperWaits
<1>10. CASE Fail("mapper")
  BY <1>0, <1>10, FailKeeps
<1> QED
  BY <1>1, <1>2, <1>3, <1>4, <1>5, <1>6, <1>7, <1>8, <1>9, <1>10, Zenon DEF MapperNext

\* The middle process moves on before PID 1 exists.
LEMMA MiddleMoves ==
  ASSUME Handshake, NEW l \in {"unshareuser", "sendready", "readack", "setids", "unshare"},
         pc["middle"] \in {"middleends", "unshareuser", "sendready", "readack", "setids"},
         pc' = [pc EXCEPT !["middle"] = l],
         UNCHANGED <<ending, sigchld, maps>>, held' \in [Procs -> SUBSET PipeEnds],
         ready' \in {"empty", "byte"}, ack' = ack \/ ack' = "empty",
         isRoot' = isRoot \/ isRoot' = "yes", l = "unshare" => isRoot' = "yes",
         pc["middle"] = "setids" => l = "unshare",
         l \in {"setids", "unshare"} => Acknowledged, isRoot' # isRoot => l = "unshare",
         ack' # ack => l = "setids"
  PROVE  Handshake'
<1>1. {"mapper", "middle", "init"} = Procs
  BY DEF Procs
<1>2. pc["init"] = "unborn"
  BY Zenon DEF Handshake, Located
<1>3. l \in Locations /\ l \in MiddleLocations
  BY DEF Locations, Calls, MiddleCalls, MiddleLocations
<1>4. pc'["middle"] = l /\ pc'["mapper"] = pc["mapper"] /\ pc'["init"] = "unborn"
  BY <1>1, <1>2, Zenon DEF Handshake, TypeProcesses
<1> USE <1>4
<1>5. TypeProcesses'
  BY <1>3, Zenon DEF Handshake, TypeProcesses
<1>6. Located'
  BY <1>1, <1>2, <1>3, Zenon DEF Handshake, Located
<1>7. Acknowledged' <=> Acknowledged
  BY Zenon DEF Handshake, TypeProcesses, Acknowledged
<1>8. Mapped'
  BY <1>2, <1>7, Zenon DEF Handshake, Mapped
<1>9. Ended'
  BY <1>2, <1>7 DEF Handshake, Ended, Mirrored
<1> QED
  BY <1>5, <1>6, <1>8, <1>9, Zenon DEF Handshake

\* So do those of enter_mapped_user_namespace and run_child.
LEMMA MiddleHandshake ==
  ASSUME Handshake, MiddleNext
  PROVE  Handshake'
<1>0. {"mapper", "middle", "init"} = Procs /\ held \in [Procs -> SUBSET PipeEnds]
      /\ ready \in {"empty", "byte"} /\ pc \in [Procs -> Locations]
  BY DEF Handshake, TypeProcesses, Procs
<1>1. CASE MiddleCloses
  <2>1. held' \in [Procs -> SUBSET PipeEnds]
    BY <1>0, <1>1 DEF MiddleCloses
  <2> QED
    BY <1>0, <1>1, <2>1, MiddleMoves, Zenon DEF MiddleCloses, At, Goto, pipeVars, identityVars
<1>2. CASE UnshareUser
  BY <1>0, <1>2, MiddleMoves, Zenon DEF UnshareUser, At, Goto, pipeVars, identityVars
<1>3. CASE SendReady
  <2>1. pc["middle"] = "sendready" /\ UNCHANGED <<ack, sigchld, maps, isRoot>>
    BY <1>3 DEF SendReady, At, identityVars
  <2>2. CASE \E q \in Procs : "readyR" \in held[q]
    BY <1>0, <1>3, <2>1, <2>2, MiddleMoves, Zenon DEF SendReady, Goto
  <2>3. CASE ~\E q \in Procs : "readyR" \in held[q]
    BY <1>0, <1>3, <2>1, <2>3, GivesUp, Zenon DEF SendReady
  <2> QED
    BY <2>2, <2>3
<1>4. CASE ReadAck
  <2>1. pc["middle"] = "readack" /\ UNCHANGED <<ready, sigchld, maps, isRoot>>
    BY <1>4 DEF ReadAck, At, identityVars
  <2>2. CASE ack = "byte"
    BY <1>0, <1>4, <2>1, <2>2, MiddleMoves, Zenon DEF ReadAck, Goto, Acknowledged
  <2>3. CASE ack # "byte"
    BY <1>0, <1>4, <2>1, <2>3, GivesUp, Zenon DEF ReadAck
  <2> QED
    BY <2>2, <2>3
<1>5. CASE BecomeRoot
  <2>1. held' \in [Procs -> SUBSET PipeEnds]
    BY <1>0, <1>5 DEF BecomeRoot
  <2> QED
    BY <1>0, <1>5, <2>1, MiddleMoves, Zenon DEF BecomeRoot, At, Goto, pipeVars, Acknowledged
<1>6. CASE UnshareAndFork
  <2>1. /\ pc["middle"] = "unshare" /\ pc["init"] = "unborn" /\ isRoot = "yes"
        /\ UNCHANGED <<ending, held, ready, ack, sigchld, maps, isRoot>>
    BY <1>6, Zenon DEF UnshareAndFork, At, pipeVars, identityVars, Handshake, Located, Mapped
  <2>2. /\ pc' \in [Procs -> Locations]
        /\ pc'["mapper"] = pc["mapper"] /\ pc'["middle"] = "wait" /\ pc'["init"] = "uts"
    BY <1>0, <1>6, Zenon DEF UnshareAndFork, Locations, Calls, RootCalls
  <2>3. TypeProcesses'
    BY <2>1, <2>2, Zenon DEF Handshake, TypeProcesses
  <2>4. Located'
    BY <1>0, <2>1, <2>2, Zenon DEF Handshake, Located, MiddleLocations, InitLocations, RootCalls
  <2>5. Mapped' /\ Ended'
    BY <2>1, <2>2, Zenon DEF Handshake, Mapped, Ended, Acknowledged, Mirrored
  <2> QED
    BY <2>3, <2>4, <2>5 DEF Handshake
<1>7. CASE WaitFor("middle", "init")
  BY <1>7, MiddleWaits
<1>8. CASE Fail("middle")
  BY <1>0, <1>8, FailKeeps
<1> QED
  BY <1>1, <1>2, <1>3, <1>4, <1>5, <1>6, <1>7, <1>8, Zenon DEF MiddleNext

\* PID 1 only moves on or ends; the other two processes do not move.
LEMMA InitHandshake ==
  ASSUME Handshake, InitNext
  PROVE  Handshake'
<1>1. CASE RootNext
  <2>1. PICK l \in RootCalls \cup MountCalls \cup {"tool"} :
            /\ pc["init"] \in RootCalls
            /\ pc' = [pc EXCEPT !["init"] = l]
            /\ UNCHANGED <<ending, held, pipeVars, identityVars>>
    BY <1>1, Zenon DEF RootNext, SetHostname, MakePrivate, MakeOldRoot, ProtectRoot, ReopenRoot,
        MountFilesystems, ProtectRootAgain, PivotRoot, DetachOldRoot, ReopenToClean,
        RemoveOldRoot, ProtectRootFinally, ExecTool, Remount, RootStep, AfterMounts,
        At, Goto, RootCalls, MountCalls
  <2> QED
    BY <2>1, InitMoves, Zenon DEF pipeVars, identityVars
<1>2. CASE MountNext
  <2>1. PICK l \in RootCalls \cup MountCalls :
            /\ pc["init"] \in MountCalls
            /\ pc' = [pc EXCEPT !["init"] = l]
            /\ UNCHANGED <<ending, held, pipeVars, identityVars>>
    BY <1>2, Zenon DEF MountNext, Inspect, OpenTree, VerifyPinned, ProtectDetached, Attach,
        MountStep, AfterAttach, AfterMounts, At, Goto, RootCalls, MountCalls
  <2> QED
    BY <2>1, InitMoves, Zenon DEF pipeVars, identityVars
<1>3. CASE ToolExits
  <2>1. PICK code \in ToolCodes : End("init", code)
    BY <1>3 DEF ToolExits
  <2>2. pc["init"] = "tool" /\ UNCHANGED <<ready, ack, sigchld, maps, isRoot>>
    BY <1>3 DEF ToolExits, At, pipeVars, identityVars
  <2>3. code \in Endings
    BY RunnerAssumption DEF RunnerAssumption, Endings
  <2> QED
    BY <2>1, <2>2, <2>3, InitEnds
<1>4. CASE Fail("init")
  BY <1>4, FailKeeps DEF Procs
<1> QED
  BY <1>1, <1>2, <1>3, <1>4 DEF InitNext

\* Killing a process is one of the endings that the invariant allows for.
LEMMA KillHandshake ==
  ASSUME Handshake, NEW p \in Procs, Kill(p)
  PROVE  Handshake'
<1> DEFINE how == Signal(SIGKILL)
<1>1. {"mapper", "middle", "init"} = Procs /\ how \in Endings
  BY DEF Procs, Endings, SIGKILL
<1> HIDE DEF how
<1>2. /\ pc[p] \notin {"unborn", "ended"} /\ End(p, how)
      /\ UNCHANGED <<ready, ack, sigchld, maps, isRoot>>
  BY DEF Kill, pipeVars, identityVars, how
<1> USE <1>2
<1>3. TypeProcesses' /\ Located' /\ Mapped'
  BY <1>1, EndKeeps
<1>4. \A q \in Procs : /\ pc'[q] = IF q = p THEN "ended" ELSE pc[q]
                       /\ ending'[q] = IF q = p THEN how ELSE ending[q]
  BY DEF Handshake, TypeProcesses, End
<1>5. CASE p = "init"
  BY <1>1, <1>5, InitEnds
<1>6. CASE p # "init"
  <2>1. Ended'
    BY <1>1, <1>4, <1>6 DEF Handshake, Ended, Mirrored, Acknowledged, how
  <2> QED
    BY <1>3, <2>1 DEF Handshake
<1> QED
  BY <1>5, <1>6

\* A step that leaves the mounts alone keeps them in order if PID 1 stays where it
\* is, is forked, or ends without claiming a success that is not the tool's.
LEMMA MountFrame ==
  ASSUME MountsInOrder, UNCHANGED <<mountVars, rootVars>>,
         object' \in [Sources -> Objects], swaps' \in 0..MaxSwaps,
         isRoot' = isRoot \/ isRoot' = "yes",
         \/ pc'["init"] = pc["init"] /\ ending'["init"] = ending["init"]
         \/ pc["init"] = "unborn" /\ pc'["init"] = "uts" /\ ending'["init"] = ending["init"]
         \/ pc'["init"] = "ended" /\ (ending'["init"] = 0 => pc["init"] = "tool")
  PROVE  MountsInOrder'
<1>1. /\ UNCHANGED <<current, expected, pinned, mounted, rootFlag, hostRoot, oldRoot>>
      /\ \A i : Attached(i)' = Attached(i)
  BY DEF mountVars, rootVars, Attached
<1>2. TypeMounts' /\ NeverWritable' /\ BoundIsValidated'
  BY <1>1, Zenon DEF MountsInOrder, TypeMounts, NeverWritable, BoundIsValidated, Attached
<1>3. AtMount'
  BY <1>1 DEF MountsInOrder, AtMount, MountCalls, Attached
<1>4. AtRoot' /\ ToolConfined'
  BY <1>1 DEF MountsInOrder, AtRoot, AllAttached, Attached, ToolConfined, Confined
<1> QED
  BY <1>2, <1>3, <1>4, Zenon DEF MountsInOrder

\* The mounts that are attached stay so while the root and the next one are prepared.
LEMMA RootFrame ==
  ASSUME MountsInOrder, UNCHANGED <<object, swaps, mounted>>, current' \in MountIndices,
         expected' \in Objects, pinned' \in MountStates, rootFlag' \in {"ro", "rw"}, hostRoot' \in {"visible", "old", "gone"}, oldRoot' \in {"absent", "exists"}
  PROVE  /\ TypeMounts' /\ NeverWritable' /\ BoundIsValidated'
         /\ AllAttached' = AllAttached /\ \A i : Attached(i)' = Attached(i)
<1>1. TypeMounts' /\ NeverWritable' /\ BoundIsValidated'
  BY Zenon DEF MountsInOrder, TypeMounts, NeverWritable, BoundIsValidated, Attached
<1> QED
  BY <1>1, Zenon DEF AllAttached, Attached

\* The calls on the root: run_namespace_init, prepare_extracted_root, enter_root.
LEMMA RootMounts ==
  ASSUME Handshake, MountsInOrder, RootNext
  PROVE  MountsInOrder'
<1>1. pc \in [Procs -> Locations] /\ "init" \in Procs /\ Alive = -1
      /\ (pc["init"] # "ended" => ending["init"] = Alive) /\ (pc["init"] # "unborn" => isRoot = "yes")
  BY Zenon DEF Handshake, TypeProcesses, Located, Mapped, Procs, Alive
<1> USE <1>1
<1>7. CASE MountFilesystems
  <2>1. /\ pc["init"] = "filesystems" /\ ending'["init"] = ending["init"] /\ isRoot' = isRoot
        /\ pc'["init"] = IF Len(TypedMounts) > 0 THEN "inspect" ELSE "ro2"
        /\ current' = IF Len(TypedMounts) > 0 THEN 5 ELSE current
        /\ UNCHANGED <<object, swaps, expected, pinned, mounted, rootFlag, hostRoot, oldRoot>>
    BY <1>7, MountFacts DEF MountFilesystems, RootStep, AfterMounts, At, Goto, FirstTyped,
       identityVars, outsideVars, rootVars
  <2> USE <2>1
  <2>2. current = 4 /\ \A i \in 1..4 : Attached(i)
    BY Zenon DEF MountsInOrder, AtMount
  <2>3. TypeMounts' /\ NeverWritable' /\ BoundIsValidated'
    BY MountFacts DEF MountsInOrder, TypeMounts, NeverWritable, BoundIsValidated, Attached,
       Readonly, MountIndices
  <2>4. AtMount'
    <3>1. \A i \in 1..4 : Attached(i)'
      BY <2>2, Zenon DEF Attached
    <3>2. \A i \in 1..(5 - 1) : i \in 1..4
      OBVIOUS
    <3>3. (pc'["init"] = "inspect" /\ current' = 5) \/ pc'["init"] = "ro2"
      BY Zenon
    <3> HIDE <2>1
    <3> QED
      BY <3>1, <3>2, <3>3, Zenon DEF AtMount, MountCalls
  <2>5. Len(TypedMounts) = 0 => AllAttached'
    BY <2>2 DEF AllAttached, Attached, MountIndices
  <2>6. AtRoot' /\ ToolConfined'
    BY <2>5, MountFacts DEF AtRoot, ToolConfined
  <2> QED
    BY <2>3, <2>4, <2>6, Zenon DEF MountsInOrder
<1>3. CASE MakePrivate
  <2>1. /\ pc["init"] = "private" /\ pc'["init"] = "inspect" /\ ending'["init"] = -1
        /\ UNCHANGED <<object, swaps, current, expected, pinned, mounted, rootFlag, hostRoot, oldRoot>>
    BY <1>3 DEF MakePrivate, RootStep, At, Goto, outsideVars, mountVars, rootVars
  <2>2. TypeMounts' /\ NeverWritable' /\ BoundIsValidated'
    BY <2>1, RootFrame, Zenon DEF MountsInOrder, TypeMounts
  <2>3. AtMount' /\ AtRoot' /\ ToolConfined'
    BY <2>1 DEF MountsInOrder, AtMount, AtRoot, ToolConfined, MountCalls
  <2> QED
    BY <2>2, <2>3, Zenon DEF MountsInOrder
<1>6. CASE ReopenRoot
  <2>1. /\ pc["init"] = "rw1" /\ pc'["init"] = "inspect" /\ ending'["init"] = -1
        /\ rootFlag' = "rw" /\ current' = 2 /\ 2 \in MountIndices
        /\ UNCHANGED <<object, swaps, expected, pinned, mounted, hostRoot, oldRoot>>
    BY <1>6, MountFacts DEF ReopenRoot, RootStep, At, Goto, outsideVars, MountIndices
  <2>2. TypeMounts' /\ NeverWritable' /\ BoundIsValidated'
    BY <2>1, RootFrame, Zenon DEF MountsInOrder, TypeMounts
  <2>3. Attached(1)'
    BY <2>1, Zenon DEF MountsInOrder, AtMount, Attached
  <2>4. AtMount' /\ AtRoot' /\ ToolConfined'
    BY <2>1, <2>3 DEF AtMount, AtRoot, ToolConfined, MountCalls
  <2> QED
    BY <2>2, <2>4, Zenon DEF MountsInOrder
<1>9. CASE PivotRoot
  <2>1. /\ pc["init"] = "pivot" /\ pc'["init"] = "detach" /\ ending'["init"] = -1 /\ hostRoot' = "old"
        /\ UNCHANGED <<object, swaps, current, expected, pinned, mounted, rootFlag, oldRoot>>
    BY <1>9 DEF PivotRoot, RootStep, At, Goto, outsideVars, mountVars
  <2>2. TypeMounts' /\ NeverWritable' /\ BoundIsValidated' /\ AllAttached'
    BY <2>1, RootFrame, Zenon DEF MountsInOrder, TypeMounts, AtRoot
  <2>3. AtMount' /\ AtRoot' /\ ToolConfined'
    BY <2>1, <2>2 DEF AtMount, AtRoot, ToolConfined, MountCalls
  <2> QED
    BY <2>2, <2>3, Zenon DEF MountsInOrder
<1>11. CASE ReopenToClean
  <2>1. /\ pc["init"] = "rw2" /\ pc'["init"] = "rmoldroot" /\ ending'["init"] = -1 /\ rootFlag' = "rw"
        /\ UNCHANGED <<object, swaps, current, expected, pinned, mounted, hostRoot, oldRoot>>
    BY <1>11 DEF ReopenToClean, Remount, RootStep, At, Goto, outsideVars, mountVars
  <2>2. TypeMounts' /\ NeverWritable' /\ BoundIsValidated' /\ AllAttached'
    BY <2>1, RootFrame, Zenon DEF MountsInOrder, TypeMounts, AtRoot
  <2>3. AtMount' /\ AtRoot' /\ ToolConfined'
    BY <2>1, <2>2 DEF MountsInOrder, AtMount, AtRoot, ToolConfined, MountCalls
  <2> QED
    BY <2>2, <2>3, Zenon DEF MountsInOrder
<1> USE MountFacts DEF MountsInOrder, TypeMounts, AtMount, AtRoot, ToolConfined, Confined,
        NeverWritable, BoundIsValidated, AllAttached, Attached, MountCalls, NoMount, Detached, MountStates, Objects, MountIndices, FirstTyped, mountVars, rootVars, outsideVars, RootCalls, At, Goto
<1>2. CASE SetHostname
  BY <1>2, Zenon DEF SetHostname, RootStep, identityVars
<1>4. CASE MakeOldRoot
  BY <1>4, Zenon DEF MakeOldRoot, RootStep, identityVars
<1>5. CASE ProtectRoot
  BY <1>5, Zenon DEF ProtectRoot, RootStep, Remount, identityVars
<1>8. CASE ProtectRootAgain
  BY <1>8, Zenon DEF ProtectRootAgain, RootStep, Remount, identityVars
<1>10. CASE DetachOldRoot
  BY <1>10, Zenon DEF DetachOldRoot, RootStep, identityVars
<1>12. CASE RemoveOldRoot
  BY <1>12, Zenon DEF RemoveOldRoot, RootStep, identityVars
<1>13. CASE ProtectRootFinally
  BY <1>13, Zenon DEF ProtectRootFinally, RootStep, Remount, identityVars
<1>14. CASE ExecTool
  BY <1>14, Zenon DEF ExecTool, RootStep, identityVars
<1> HIDE DEF MountsInOrder
<1> QED
  BY <1>2, <1>3, <1>4, <1>5, <1>6, <1>7, <1>8, <1>9, <1>10, <1>11, <1>12, <1>13, <1>14, Zenon DEF RootNext

\* The calls for one mount: pin_mount_path and bind_mount_fd.
LEMMA MountMounts ==
  ASSUME Handshake, MountsInOrder, MountNext
  PROVE  MountsInOrder'
<1>1. pc \in [Procs -> Locations] /\ "init" \in Procs /\ Alive = -1
      /\ (pc["init"] # "ended" => ending["init"] = Alive) /\ (pc["init"] # "unborn" => isRoot = "yes")
  BY Zenon DEF Handshake, TypeProcesses, Located, Mapped, Procs, Alive
<1>6. CASE Attach
  <2> DEFINE after == AfterAttach(current)
  <2>1. /\ pc["init"] = "attach" /\ pc'["init"] = after /\ ending'["init"] = ending["init"]
        /\ isRoot' = isRoot /\ mounted' = [mounted EXCEPT ![current] = pinned]
        /\ current' = IF after = "inspect" THEN current + 1 ELSE current
        /\ UNCHANGED <<object, swaps, expected, pinned, rootFlag, hostRoot, oldRoot>>
    BY <1>1, <1>6, Zenon DEF Attach, MountStep, At, Goto, identityVars, outsideVars, rootVars
  <2> USE <2>1
  <2>2. \/ current = 1 /\ after = "mkoldroot"
        \/ current \in {2, 3} /\ after = "inspect"
        \/ current = 4 /\ after = "filesystems"
        \/ current > 4 /\ current < 4 + Len(TypedMounts) /\ after = "inspect"
        \/ current = 4 + Len(TypedMounts) /\ after = "ro2"
    BY MountFacts DEF MountsInOrder, TypeMounts, MountIndices, AfterAttach, AfterMounts
  <2> HIDE DEF after
  <2>3. /\ current \in MountIndices /\ mounted \in [MountIndices -> MountStates]
        /\ pinned \in MountStates /\ pinned.object # Detached
        /\ \A i \in 1..(current - 1) : Attached(i)
    BY Zenon DEF MountsInOrder, TypeMounts, AtMount, MountCalls
  <2> USE <2>3
  <2>4. \A i \in MountIndices : mounted'[i] = IF i = current THEN pinned ELSE mounted[i]
    OBVIOUS
  <2>5. \A i \in 1..current : Attached(i)'
    BY <2>4, MountFacts DEF Attached, MountIndices
  <2>6. TypeMounts'
    BY <2>2, MountFacts DEF MountsInOrder, TypeMounts, MountIndices
  <2>7. NeverWritable' /\ BoundIsValidated'
    BY <2>4, Zenon DEF MountsInOrder, AtMount, NeverWritable, BoundIsValidated, Attached, Readonly
  <2>8. AtMount'
    BY <2>2, <2>5, MountFacts DEF AtMount, Attached, MountCalls, MountIndices
  <2>9. AtRoot' /\ ToolConfined'
    BY <1>1, <2>2, <2>5, MountFacts DEF AtRoot, ToolConfined, AllAttached, MountIndices
  <2> QED
    BY <2>6, <2>7, <2>8, <2>9, Zenon DEF MountsInOrder
<1>7. object[Source(current)] \in Objects /\ 0 \in Objects /\ Detached \notin Objects
  <2>1. Source(current) \in Sources /\ object \in [Sources -> Objects]
    BY MountFacts, Zenon DEF MountsInOrder, TypeMounts
  <2>2. 0 \in Objects /\ Detached \notin Objects
    BY MountFacts DEF Objects, Detached
  <2> QED
    BY <2>1, <2>2, Zenon
<1>2. CASE Inspect
  <2>1. /\ pc["init"] = "inspect" /\ pc'["init"] = "open" /\ ending'["init"] = -1
        /\ expected' = IF current < FirstTyped THEN object[Source(current)] ELSE 0
        /\ UNCHANGED <<object, swaps, current, pinned, mounted, rootFlag, hostRoot, oldRoot>>
    BY <1>1, <1>2 DEF Inspect, MountStep, At, Goto, outsideVars, rootVars
  <2>2. expected' \in Objects /\ (current >= FirstTyped => expected' = 0)
    <3>1. current \in Nat /\ FirstTyped \in Nat
      BY MountFacts, Zenon DEF MountsInOrder, TypeMounts, FirstTyped
    <3>2. current >= FirstTyped => ~(current < FirstTyped)
      BY <3>1
    <3> QED
      BY <1>7, <2>1, <3>2, Zenon
  <2>3. TypeMounts' /\ NeverWritable' /\ BoundIsValidated'
    BY <2>1, <2>2, RootFrame, Zenon DEF MountsInOrder, TypeMounts
  <2>4. \A i \in 1..(current - 1) : Attached(i)'
    BY <2>1, Zenon DEF MountsInOrder, AtMount, MountCalls, Attached
  <2>5. AtMount' /\ AtRoot' /\ ToolConfined'
    BY <2>1, <2>2, <2>4 DEF AtMount, AtRoot, ToolConfined, MountCalls
  <2> QED
    BY <2>3, <2>5, Zenon DEF MountsInOrder
<1>3. CASE OpenTree
  <2>1. /\ pc["init"] = "open" /\ pc'["init"] = "verify" /\ ending'["init"] = -1
        /\ pinned' = [object |-> object[Source(current)], flag |-> "rw"]
        /\ UNCHANGED <<object, swaps, current, expected, mounted, rootFlag, hostRoot, oldRoot>>
    BY <1>1, <1>3 DEF OpenTree, MountStep, At, Goto, outsideVars, rootVars
  <2>2. pinned' \in MountStates /\ pinned'.object # Detached
    BY <1>7, <2>1 DEF MountStates
  <2>3. TypeMounts' /\ NeverWritable' /\ BoundIsValidated'
    BY <2>1, <2>2, RootFrame, Zenon DEF MountsInOrder, TypeMounts
  <2>4. /\ \A i \in 1..(current - 1) : Attached(i)'
        /\ current >= FirstTyped => expected = 0
    BY <2>1, Zenon DEF MountsInOrder, AtMount, MountCalls, Attached
  <2>5. AtMount' /\ AtRoot' /\ ToolConfined'
    BY <2>1, <2>2, <2>4 DEF AtMount, AtRoot, ToolConfined, MountCalls
  <2> QED
    BY <2>3, <2>5, Zenon DEF MountsInOrder
<1> USE MountFacts DEF MountsInOrder, TypeMounts, AtMount, AtRoot, ToolConfined, Confined,
        NeverWritable, BoundIsValidated, AllAttached, Attached, MountCalls, NoMount, Detached, MountStates, Objects, MountIndices, FirstTyped, mountVars, rootVars, outsideVars, RootCalls, At, Goto
<1>4. CASE VerifyPinned
  BY <1>1, <1>4, Zenon DEF VerifyPinned, MountStep, identityVars
<1>5. CASE ProtectDetached
  BY <1>1, <1>5, Zenon DEF ProtectDetached, MountStep, identityVars
<1> HIDE DEF MountsInOrder
<1> QED
  BY <1>2, <1>3, <1>4, <1>5, <1>6, Zenon DEF MountNext

\* A step that none of the processes takes.
LEMMA HandshakeFrame ==
  ASSUME Handshake, UNCHANGED <<pc, ending, held, ready, ack, sigchld, maps, isRoot>>
  PROVE  Handshake'
<1>1. TypeProcesses' /\ Located'
  BY Zenon DEF Handshake, TypeProcesses, Located
<1>2. Mapped' /\ Ended'
  BY DEF Handshake, Mapped, Ended, Acknowledged, Mirrored
<1> QED
  BY <1>1, <1>2 DEF Handshake

\* Every step preserves the invariant.
LEMMA NextIInv ==
  ASSUME IInv, [Next]_vars
  PROVE  IInv'
<1> USE DEF IInv
<1>1. /\ pc \in [Procs -> Locations] /\ ending \in [Procs -> Endings \cup {Alive}]
      /\ object \in [Sources -> Objects] /\ swaps \in 0..MaxSwaps /\ MaxSwaps \in Nat
      /\ {"mapper", "middle", "init"} \subseteq Procs /\ Signal(SIGKILL) # 0
  BY RunnerAssumption DEF Handshake, TypeProcesses, MountsInOrder, TypeMounts, Procs,
     Signal, SIGKILL, RunnerAssumption
<1>2. CASE MapperNext
  <2>1. /\ UNCHANGED <<mountVars, rootVars, outsideVars, isRoot>>
        /\ pc'["init"] = pc["init"] /\ ending'["init"] = ending["init"]
    BY <1>1, <1>2, Zenon DEF MapperNext, ResetInheritedSignals, ForkMiddle, MapperCloses, ReadReady,
       WriteUidMap, DenySetgroups, WriteGidMap, WriteMap, SendAck, WaitFor, Fail, Goto, End,
       identityVars
  <2> QED
    BY <1>1, <1>2, <2>1, MapperHandshake, MountFrame, Zenon DEF outsideVars
<1>3. CASE MiddleNext
  <2>1. /\ UNCHANGED <<mountVars, rootVars, outsideVars>>
        /\ isRoot' = isRoot \/ isRoot' = "yes"
        /\ ending'["init"] = ending["init"]
        /\ \/ pc'["init"] = pc["init"]
           \/ pc["init"] = "unborn" /\ pc'["init"] = "uts"
    <3>1. pc["middle"] = "unshare" => pc["init"] = "unborn"
      BY DEF Handshake, Located
    <3> QED
      BY <1>1, <1>3, <3>1, Zenon DEF MiddleNext, MiddleCloses, UnshareUser, SendReady, ReadAck,
         BecomeRoot, UnshareAndFork, WaitFor, Fail, Goto, End, At, identityVars
  <2> QED
    BY <1>1, <1>3, <2>1, MiddleHandshake, MountFrame, Zenon DEF outsideVars
<1>4. CASE InitNext
  <2>1. CASE RootNext
    BY <1>4, <2>1, InitHandshake, RootMounts
  <2>2. CASE MountNext
    BY <1>4, <2>2, InitHandshake, MountMounts
  <2>3. CASE ToolExits \/ Fail("init")
    <3>1. /\ UNCHANGED <<mountVars, rootVars, outsideVars, isRoot>>
          /\ pc'["init"] = "ended" /\ (ending'["init"] = 0 => pc["init"] = "tool")
      BY <1>1, <2>3, SMTT(60) DEF ToolExits, Fail, End, At, identityVars
    <3> QED
      BY <1>1, <1>4, <3>1, InitHandshake, MountFrame, Zenon DEF outsideVars
  <2> QED
    BY <1>4, <2>1, <2>2, <2>3 DEF InitNext
<1>5. ASSUME NEW p \in Procs, Kill(p)
      PROVE  IInv'
  <2>1. /\ UNCHANGED <<mountVars, rootVars, outsideVars, isRoot>>
        /\ \/ pc'["init"] = pc["init"] /\ ending'["init"] = ending["init"]
           \/ pc'["init"] = "ended" /\ ending'["init"] # 0
    BY <1>1, <1>5, Zenon DEF Kill, End, identityVars
  <2> QED
    BY <1>1, <1>5, <2>1, KillHandshake, MountFrame, Zenon DEF outsideVars
<1>6. ASSUME NEW s \in Sources, Swap(s)
      PROVE  IInv'
  <2>1. object' \in [Sources -> Objects] /\ swaps' \in 0..MaxSwaps
    BY <1>1, <1>6 DEF Swap, Objects
  <2>2. UNCHANGED <<processVars, pipeVars, identityVars, mountVars, rootVars>>
    BY <1>6, SMTT(60) DEF Swap
  <2>3. Handshake'
    BY <2>2, HandshakeFrame DEF processVars, pipeVars, identityVars
  <2> QED
    BY <2>1, <2>2, <2>3, MountFrame, Zenon DEF processVars, identityVars
<1>7. CASE UNCHANGED vars
  <2>1. Handshake'
    BY <1>7, HandshakeFrame DEF vars, processVars, pipeVars, identityVars
  <2> QED
    BY <1>1, <1>7, <2>1, MountFrame, Zenon DEF vars, processVars, identityVars, outsideVars
<1> QED
  BY <1>2, <1>3, <1>4, <1>5, <1>6, <1>7, Zenon DEF Next, Terminated

\* The invariant of the runner, whatever fails, is killed or is swapped.
THEOREM InductiveInvariant == Spec => []IInv
<1>1. IInv /\ [Next]_vars => IInv'
  BY NextIInv
<1> QED
  BY <1>1, InitIInv, PTL DEF Spec

\* Every variable of the runner keeps its type.
THEOREM TypeCorrect == Spec => []TypeOK
<1>1. IInv => TypeOK
  BY DEF IInv, Handshake, MountsInOrder, TypeOK
<1> QED
  BY <1>1, InductiveInvariant, PTL

\* The tool runs, and has succeeded, only inside the complete confinement that
\* run_namespace_init sets up.
THEOREM ToolConfinedHolds == Spec => []ToolConfined
<1>1. IInv => ToolConfined
  BY DEF IInv, MountsInOrder
<1> QED
  BY <1>1, InductiveInvariant, PTL

\* enter_mapped_user_namespace becomes root only with all identity maps written.
THEOREM MappedBeforeRootHolds == Spec => []MappedBeforeRoot
<1>1. IInv => MappedBeforeRoot
  BY DEF IInv, Handshake, Mapped, Acknowledged, AllMaps, MappedBeforeRoot
<1> QED
  BY <1>1, InductiveInvariant, PTL

\* bind_mount_fd never attaches a writable clone at a read-only destination.
THEOREM NeverWritableHolds == Spec => []NeverWritable
<1>1. IInv => NeverWritable
  BY DEF IInv, MountsInOrder
<1> QED
  BY <1>1, InductiveInvariant, PTL

\* pin_mount_path only lets the object through that the launcher validated.
THEOREM BoundIsValidatedHolds == Spec => []BoundIsValidated
<1>1. IInv => BoundIsValidated
  BY DEF IInv, MountsInOrder
<1> QED
  BY <1>1, InductiveInvariant, PTL

\* The confinement as a whole, for any list of mounts and any failures.
THEOREM ConfinementHolds == Spec => []Confinement
  BY ToolConfinedHolds, MappedBeforeRootHolds, NeverWritableHolds, BoundIsValidatedHolds, PTL
     DEF Confinement

\* Exit status 0 of the runner is exit status 0 of the tool.
THEOREM SuccessIsToolSuccessHolds == Spec => []SuccessIsToolSuccess
<1>1. IInv => SuccessIsToolSuccess
  <2> SUFFICES ASSUME IInv, ending["mapper"] = 0
               PROVE  ending["init"] = 0
    BY DEF SuccessIsToolSuccess
  <2> USE DEF IInv, Handshake, TypeProcesses, Located, Ended, Mirrored, Alive, Signal,
              SIGKILL, SIGPIPE, Procs, Endings
  <2>1. pc["middle"] = "ended" /\ ending["middle"] = 0
    OBVIOUS
  <2> QED
    BY <2>1
<1> QED
  BY <1>1, InductiveInvariant, PTL

\* wait_for_exit_status carries the tool's status through both processes.
THEOREM StatusMirroredHolds == Spec => []StatusMirrored
<1>1. IInv => StatusMirrored
  BY DEF IInv, Handshake, TypeProcesses, Located, Mapped, Ended, Acknowledged, Mirrored,
     Alive, Signal, SIGKILL, SIGPIPE, Procs, Endings, StatusMirrored
<1> QED
  BY <1>1, InductiveInvariant, PTL

\* The runner reports the status of the tool, whichever call failed.
THEOREM StatusIsTheToolsHolds == Spec => []StatusIsTheTools
  BY SuccessIsToolSuccessHolds, StatusMirroredHolds, PTL DEF StatusIsTheTools

\* A runner that ended by itself leaves no tool running and none to be started.
THEOREM NothingLeftBehindHolds == Spec => []NothingLeftBehind
<1>1. IInv => NothingLeftBehind
  BY DEF IInv, Handshake, TypeProcesses, Located, Mapped, Ended, Acknowledged,
     Alive, Signal, SIGKILL, Procs, NothingLeftBehind
<1> QED
  BY <1>1, InductiveInvariant, PTL
=============================================================================
