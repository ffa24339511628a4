-------------------------- MODULE NamespaceRunner ---------------------------
(***************************************************************************)
(* mkosi/debian/namespace_runner.c: the process that the launcher starts  *)
(* stays outside as the identity mapper; its child, the middle process,   *)
(* enters a user namespace, has its identity mapped through two pipes and *)
(* unshares the other namespaces; the child of that one is PID 1 there,   *)
(* pins and attaches every mount, pivots into the extracted root and      *)
(* executes the tool.  Exit statuses are mirrored back.  Any call may     *)
(* fail, the processes in Killable may be killed, and whoever owns the    *)
(* sources may make a path name another object between any two steps.     *)
(***************************************************************************)
EXTENDS Integers, Sequences

CONSTANTS
    TypedMounts,   \* sequence of [source, ro]: the --ro-bind and --rw-bind groups
    Killable,      \* the processes that may be killed from outside
    ToolCodes,     \* the exit codes of the tool
    MaxSwaps       \* bound: how often a path is made to name another object

Procs == {"mapper", "middle", "init"}

\* Locations at which a call may fail, which ends the process with status 1.
MapperCalls == {"groups", "mapuid", "denygroups", "mapgid"}
MiddleCalls == {"unshareuser", "setids", "unshare"}
MountCalls == {"inspect", "open", "verify", "protect", "attach"}
RootCalls == {"uts", "private", "mkoldroot", "ro1", "rw1", "filesystems",
              "ro2", "pivot", "detach", "rw2", "rmoldroot", "ro3", "exec"}
Calls == MapperCalls \cup MiddleCalls \cup MountCalls \cup RootCalls
Locations == Calls \cup {"signals", "mapperends", "readready", "sendack",
                         "middleends", "sendready", "readack", "wait",
                         "tool", "unborn", "ended"}

ASSUME RunnerAssumption ==
    /\ TypedMounts \in Seq([source : STRING, ro : BOOLEAN])
    /\ Killable \subseteq Procs
    /\ ToolCodes \subseteq 0..255
    /\ MaxSwaps \in Nat

\* The mounts in the order in which they are attached: the extracted root,
\* the runtime directories, and the typed mounts of the command line.
RuntimeDirectories == <<"workspace", "outputs", "home">>
FirstTyped == 5
MountIndices == 1..(4 + Len(TypedMounts))
Source(i) == IF i = 1 THEN "root"
             ELSE IF i < FirstTyped THEN RuntimeDirectories[i - 1]
             ELSE TypedMounts[i - 4].source
Readonly(i) == i >= FirstTyped /\ TypedMounts[i - 4].ro
Sources == {Source(i) : i \in MountIndices}

VARIABLES
    pc,         \* where each process is
    ending,     \* how each process ended: its exit code, or Signal(s)
    held,       \* the pipe ends that each process has open
    ready,      \* whether a byte is in the ready pipe
    ack,        \* whether a byte is in the acknowledgement pipe
    sigchld,    \* the disposition that the mapper inherited or has set
    maps,       \* which files of /proc/<middle> the mapper has written
    isRoot,     \* whether the middle process became namespace root
    object,     \* the object that each path names; 0 is the one that was validated
    swaps,      \* how many times a path was made to name another object
    current,    \* the index of the mount in progress
    expected,   \* the identity that the mount in progress must have
    pinned,     \* the detached clone in progress
    mounted,    \* the attached mounts
    rootFlag,   \* "ro" or "rw": the flag of the mount of the extracted root
    hostRoot,   \* "visible", then "old" from pivot_root on, then "gone"
    oldRoot     \* whether the mountpoint of the old root "exists" or is "absent"

processVars == <<pc, ending, held>>
pipeVars == <<ready, ack>>
identityVars == <<sigchld, maps, isRoot>>
outsideVars == <<object, swaps>>
mountVars == <<current, expected, pinned, mounted>>
rootVars == <<rootFlag, hostRoot, oldRoot>>
vars == <<processVars, pipeVars, identityVars, outsideVars, mountVars, rootVars>>

Alive == -1
Signal(s) == 1000 + s
SIGKILL == 9
SIGPIPE == 13
PipeEnds == {"readyR", "readyW", "ackR", "ackW"}
Endings == 0..255 \cup {Signal(s) : s \in 1..64}
Objects == 0..MaxSwaps
Detached == -1
NoMount == [object |-> Detached, flag |-> "rw"]
MountStates == [object : Objects \cup {Detached}, flag : {"ro", "rw"}]

TypeProcesses ==
    /\ pc \in [Procs -> Locations]
    /\ ending \in [Procs -> Endings \cup {Alive}]
    /\ held \in [Procs -> SUBSET PipeEnds]
    /\ ready \in {"empty", "byte"}
    /\ ack \in {"empty", "byte"}
    /\ sigchld \in {"default", "ignored"}
    /\ maps \in SUBSET {"uid", "setgroups", "gid"}
    /\ isRoot \in {"no", "yes"}
TypeMounts ==
    /\ object \in [Sources -> Objects]
    /\ swaps \in 0..MaxSwaps
    /\ current \in MountIndices
    /\ expected \in Objects
    /\ pinned \in MountStates
    /\ mounted \in [MountIndices -> MountStates]
    /\ rootFlag \in {"ro", "rw"}
    /\ hostRoot \in {"visible", "old", "gone"}
    /\ oldRoot \in {"absent", "exists"}
\* Every variable has its type.
TypeOK == TypeProcesses /\ TypeMounts

Init ==
    /\ pc = [p \in Procs |-> IF p = "mapper" THEN "signals" ELSE "unborn"]
    /\ ending = [p \in Procs |-> Alive]
    /\ held = [p \in Procs |-> {}]
    /\ ready = "empty"
    /\ ack = "empty"
    /\ sigchld \in {"default", "ignored"}
    /\ maps = {}
    /\ isRoot = "no"
    /\ object = [s \in Sources |-> 0]
    /\ swaps = 0
    /\ current = 1
    /\ expected = 0
    /\ pinned = NoMount
    /\ mounted = [i \in MountIndices |-> NoMount]
    /\ rootFlag = "rw"
    /\ hostRoot = "visible"
    /\ oldRoot = "absent"

-----------------------------------------------------------------------------
\* Processes.

At(p, l) == pc[p] = l
Goto(p, l) == pc' = [pc EXCEPT ![p] = l] /\ UNCHANGED ending

\* A process that ends, by itself or by a signal, closes its pipe ends.
End(p, how) ==
    /\ pc' = [pc EXCEPT ![p] = "ended"]
    /\ ending' = [ending EXCEPT ![p] = how]
    /\ held' = [held EXCEPT ![p] = {}]

\* fail and fail_errno: the call at this location failed.
Fail(p) ==
    /\ pc[p] \in Calls
    /\ End(p, 1)
    /\ UNCHANGED <<pipeVars, identityVars, outsideVars, mountVars, rootVars>>

\* A process is killed from outside.  The death of PID 1 ends the tool with
\* its namespace, but the death of the others leaves their children running.
Kill(p) ==
    /\ p \in Killable
    /\ pc[p] \notin {"unborn", "ended"}
    /\ End(p, Signal(SIGKILL))
    /\ UNCHANGED <<pipeVars, identityVars, outsideVars, mountVars, rootVars>>

\* The owner of a source makes its path name a new object, or the old one again.
Swap(s) ==
    /\ swaps < MaxSwaps
    /\ swaps' = swaps + 1
    /\ \E o \in {0, swaps + 1} : object' = [object EXCEPT ![s] = o]
    /\ UNCHANGED <<processVars, pipeVars, identityVars, mountVars, rootVars>>

\* read_byte: the byte arrives, or no process can write it any more, which
\* read reports as the end of the file.
CanRead(pipe, end) == pipe = "byte" \/ \A q \in Procs : end \notin held[q]

\* Mutation: only the exit code is looked at, so a signal counts as success.
MirroredExitOnly(how) == IF how >= 1000 THEN 0 ELSE how
\* wait_for_exit_status: the exit code, or 128 plus the signal.  Without the
\* default disposition of SIGCHLD waitpid finds no child, which is a failure.
Mirrored(how) == IF sigchld = "ignored" THEN 1
                 ELSE IF how >= 1000 THEN 128 + (how - 1000) ELSE how
\* Mutation: waitpid is not called again when a signal interrupts it.
WaitForUninterrupted(p, child) ==
    /\ At(p, "wait")
    /\ \/ ending[child] # Alive /\ End(p, Mirrored(ending[child]))
       \/ ending[child] = Alive /\ End(p, 1)
    /\ UNCHANGED <<pipeVars, identityVars, outsideVars, mountVars, rootVars>>
WaitFor(p, child) ==
    /\ At(p, "wait")
    /\ ending[child] # Alive
    /\ End(p, Mirrored(ending[child]))
    /\ UNCHANGED <<pipeVars, identityVars, outsideVars, mountVars, rootVars>>

-----------------------------------------------------------------------------
\* The mapper and the middle process: the identity handshake.

\* Mutation: the inherited disposition stays.
ResetKeepsSignals ==
    /\ At("mapper", "signals")
    /\ Goto("mapper", "groups")
    /\ UNCHANGED <<held, pipeVars, identityVars, outsideVars, mountVars, rootVars>>
ResetInheritedSignals ==
    /\ At("mapper", "signals")
    /\ sigchld' = "default"
    /\ Goto("mapper", "groups")
    /\ UNCHANGED <<held, pipeVars, maps, isRoot, outsideVars, mountVars, rootVars>>

\* map_current_identity: the groups are dropped, the pipes are made and both
\* processes have both ends of each.
ForkMiddle ==
    /\ At("mapper", "groups")
    /\ pc' = [pc EXCEPT !["mapper"] = "mapperends", !["middle"] = "middleends"]
    /\ held' = [held EXCEPT !["mapper"] = PipeEnds, !["middle"] = PipeEnds]
    /\ UNCHANGED <<ending, pipeVars, identityVars, outsideVars, mountVars, rootVars>>

MapperCloses ==
    /\ At("mapper", "mapperends")
    /\ held' = [held EXCEPT !["mapper"] = @ \ {"readyW", "ackR"}]
    /\ Goto("mapper", "readready")
    /\ UNCHANGED <<pipeVars, identityVars, outsideVars, mountVars, rootVars>>

ReadReady ==
    /\ At("mapper", "readready")
    /\ CanRead(ready, "readyW")
    /\ IF ready = "byte"
       THEN ready' = "empty" /\ Goto("mapper", "mapuid") /\ UNCHANGED held
       ELSE End("mapper", 1) /\ UNCHANGED ready
    /\ UNCHANGED <<ack, identityVars, outsideVars, mountVars, rootVars>>

\* The files of /proc/<middle> can be written while the middle process runs.
WriteMap(here, file, next) ==
    /\ At("mapper", here)
    /\ ~At("middle", "ended")
    /\ maps' = maps \cup {file}
    /\ Goto("mapper", next)
    /\ UNCHANGED <<held, pipeVars, sigchld, isRoot, outsideVars, mountVars, rootVars>>
\* Mutation: the child is acknowledged right after its UID map is written.
WriteUidMapAcknowledges ==
    /\ At("mapper", "mapuid")
    /\ ~At("middle", "ended")
    /\ maps' = maps \cup {"uid"}
    /\ ack' = "byte"
    /\ Goto("mapper", "denygroups")
    /\ UNCHANGED <<held, ready, sigchld, isRoot, outsideVars, mountVars, rootVars>>
WriteUidMap == WriteMap("mapuid", "uid", "denygroups")
DenySetgroups == WriteMap("denygroups", "setgroups", "mapgid")
WriteGidMap == WriteMap("mapgid", "gid", "sendack")

\* write_byte: without a reader SIGPIPE ends the writer.
SendAck ==
    /\ At("mapper", "sendack")
    /\ IF \E q \in Procs : "ackR" \in held[q]
       THEN /\ ack' = "byte"
            /\ Goto("mapper", "wait")
            /\ held' = [held EXCEPT !["mapper"] = {}]
       ELSE End("mapper", Signal(SIGPIPE)) /\ UNCHANGED ack
    /\ UNCHANGED <<ready, identityVars, outsideVars, mountVars, rootVars>>

\* Mutation: the middle process keeps its copies of the mapper's ends.
MiddleKeepsEnds ==
    /\ At("middle", "middleends")
    /\ Goto("middle", "unshareuser")
    /\ UNCHANGED <<held, pipeVars, identityVars, outsideVars, mountVars, rootVars>>
MiddleCloses ==
    /\ At("middle", "middleends")
    /\ held' = [held EXCEPT !["middle"] = @ \ {"readyR", "ackW"}]
    /\ Goto("middle", "unshareuser")
    /\ UNCHANGED <<pipeVars, identityVars, outsideVars, mountVars, rootVars>>

UnshareUser ==
    /\ At("middle", "unshareuser")
    /\ Goto("middle", "sendready")
    /\ UNCHANGED <<held, pipeVars, identityVars, outsideVars, mountVars, rootVars>>

SendReady ==
    /\ At("middle", "sendready")
    /\ IF \E q \in Procs : "readyR" \in held[q]
       THEN ready' = "byte" /\ Goto("middle", "readack") /\ UNCHANGED held
       ELSE End("middle", Signal(SIGPIPE)) /\ UNCHANGED ready
    /\ UNCHANGED <<ack, identityVars, outsideVars, mountVars, rootVars>>

ReadAck ==
    /\ At("middle", "readack")
    /\ CanRead(ack, "ackW")
    /\ IF ack = "byte"
       THEN ack' = "empty" /\ Goto("middle", "setids") /\ UNCHANGED held
       ELSE End("middle", 1) /\ UNCHANGED ack
    /\ UNCHANGED <<ready, identityVars, outsideVars, mountVars, rootVars>>

\* setresgid and setresuid, after which the middle process closes its ends.
BecomeRoot ==
    /\ At("middle", "setids")
    /\ isRoot' = "yes"
    /\ held' = [held EXCEPT !["middle"] = {}]
    /\ Goto("middle", "unshare")
    /\ UNCHANGED <<pipeVars, sigchld, maps, outsideVars, mountVars, rootVars>>

\* run_child: the other namespaces, and PID 1 of the new PID namespace.
UnshareAndFork ==
    /\ At("middle", "unshare")
    /\ pc' = [pc EXCEPT !["middle"] = "wait", !["init"] = "uts"]
    /\ UNCHANGED <<ending, held, pipeVars, identityVars, outsideVars, mountVars, rootVars>>

-----------------------------------------------------------------------------
\* PID 1: one action per call that changes a mount, in the order of
\* run_namespace_init, prepare_extracted_root and enter_root.

RootStep(here, next) ==
    /\ At("init", here)
    /\ Goto("init", next)
    /\ UNCHANGED <<held, pipeVars, identityVars, outsideVars>>

SetHostname == RootStep("uts", "private") /\ UNCHANGED <<mountVars, rootVars>>
MakePrivate == RootStep("private", "inspect") /\ UNCHANGED <<mountVars, rootVars>>
MakeOldRoot ==
    /\ RootStep("mkoldroot", "ro1")
    /\ rootFlag = "rw"
    /\ oldRoot' = "exists"
    /\ UNCHANGED <<mountVars, rootFlag, hostRoot>>
Remount(here, flag, next) ==
    /\ RootStep(here, next)
    /\ rootFlag' = flag
    /\ UNCHANGED <<mountVars, hostRoot, oldRoot>>
ProtectRoot == Remount("ro1", "ro", "rw1")
ReopenRoot ==
    /\ RootStep("rw1", "inspect")
    /\ rootFlag' = "rw"
    /\ current' = 2
    /\ UNCHANGED <<expected, pinned, mounted, hostRoot, oldRoot>>
\* The next typed mount, or the end of bind_typed_mounts.
AfterMounts(i) == IF i < 4 + Len(TypedMounts) THEN "inspect" ELSE "ro2"
MountFilesystems ==
    /\ RootStep("filesystems", AfterMounts(4))
    /\ current' = IF Len(TypedMounts) > 0 THEN FirstTyped ELSE current
    /\ UNCHANGED <<expected, pinned, mounted, rootVars>>
ProtectRootAgain == Remount("ro2", "ro", "pivot")
PivotRoot ==
    /\ RootStep("pivot", "detach")
    /\ hostRoot' = "old"
    /\ UNCHANGED <<mountVars, rootFlag, oldRoot>>
DetachOldRoot ==
    /\ RootStep("detach", "rw2")
    /\ hostRoot' = "gone"
    /\ UNCHANGED <<mountVars, rootFlag, oldRoot>>
ReopenToClean == Remount("rw2", "rw", "rmoldroot")
\* rmdir refuses a mountpoint that is still in use.
RemoveOldRoot ==
    /\ RootStep("rmoldroot", "ro3")
    /\ rootFlag = "rw"
    /\ hostRoot = "gone"
    /\ oldRoot' = "absent"
    /\ UNCHANGED <<mountVars, rootFlag, hostRoot>>
\* Mutation: the root that was opened for the clean-up is not closed again.
ProtectRootFinallyNot == Remount("ro3", "rw", "exec")
ProtectRootFinally == Remount("ro3", "ro", "exec")
\* close_non_stdio_fds, the working directory, the environment and execv.
ExecTool == RootStep("exec", "tool") /\ UNCHANGED <<mountVars, rootVars>>

\* pin_mount_path and bind_mount_fd, for the mount in progress.
MountStep(here, next) ==
    /\ At("init", here)
    /\ Goto("init", next)
    /\ UNCHANGED <<held, pipeVars, identityVars, outsideVars, rootVars>>

\* Only the paths of the launcher's own directories are inspected here; a
\* typed mount carries the identity that the launcher validated.
Inspect ==
    /\ MountStep("inspect", "open")
    /\ expected' = IF current < FirstTyped THEN object[Source(current)] ELSE 0
    /\ UNCHANGED <<current, pinned, mounted>>
OpenTree ==
    /\ MountStep("open", "verify")
    /\ pinned' = [object |-> object[Source(current)], flag |-> "rw"]
    /\ UNCHANGED <<current, expected, mounted>>
\* Mutation: the clone is not compared with what was validated.
VerifyNothing == MountStep("verify", "protect") /\ UNCHANGED mountVars
\* verify_pinned_tree and verify_pinned_source: otherwise the call fails.
VerifyPinned ==
    /\ pinned.object = expected
    /\ MountStep("verify", "protect")
    /\ UNCHANGED mountVars
\* Mutation: the attribute is left for after the attachment.
ProtectLater == MountStep("protect", "attach") /\ UNCHANGED mountVars
ProtectDetached ==
    /\ MountStep("protect", "attach")
    /\ pinned' = [pinned EXCEPT !.flag = IF Readonly(current) THEN "ro" ELSE "rw"]
    /\ UNCHANGED <<current, expected, mounted>>
\* The clone is attached; the loop goes on to the next mount of its list.
AfterAttach(i) == IF i = 1 THEN "mkoldroot"
                  ELSE IF i < 4 THEN "inspect"
                  ELSE IF i = 4 THEN "filesystems"
                  ELSE AfterMounts(i)
Attach ==
    /\ MountStep("attach", AfterAttach(current))
    /\ mounted' = [mounted EXCEPT ![current] = pinned]
    /\ current' = IF AfterAttach(current) = "inspect" THEN current + 1 ELSE current
    /\ UNCHANGED <<expected, pinned>>
\* The tool ends by itself; it is PID 1, so its namespace ends with it.
ToolExits ==
    /\ At("init", "tool")
    /\ \E code \in ToolCodes : End("init", code)
    /\ UNCHANGED <<pipeVars, identityVars, outsideVars, mountVars, rootVars>>

-----------------------------------------------------------------------------
MapperNext == \/ ResetInheritedSignals \/ ForkMiddle \/ MapperCloses \/ ReadReady
              \/ WriteUidMap \/ DenySetgroups \/ WriteGidMap \/ SendAck
              \/ WaitFor("mapper", "middle") \/ Fail("mapper")
MiddleNext == \/ MiddleCloses \/ UnshareUser \/ SendReady \/ ReadAck \/ BecomeRoot
              \/ UnshareAndFork \/ WaitFor("middle", "init") \/ Fail("middle")
RootNext == \/ SetHostname \/ MakePrivate \/ MakeOldRoot \/ ProtectRoot \/ ReopenRoot
            \/ MountFilesystems \/ ProtectRootAgain \/ PivotRoot \/ DetachOldRoot
            \/ ReopenToClean \/ RemoveOldRoot \/ ProtectRootFinally \/ ExecTool
MountNext == Inspect \/ OpenTree \/ VerifyPinned \/ ProtectDetached \/ Attach
InitNext == RootNext \/ MountNext \/ ToolExits \/ Fail("init")

\* Every process that was started has ended.
Done == \A p \in Procs : pc[p] \in {"unborn", "ended"}
Terminated == Done /\ UNCHANGED vars

Next == \/ MapperNext \/ MiddleNext \/ InitNext
        \/ \E p \in Procs : Kill(p)
        \/ \E s \in Sources : Swap(s)
        \/ Terminated

Spec == Init /\ [][Next]_vars
\* The kernel schedules every process, and the tool ends eventually.
FairSpec == Spec /\ WF_vars(MapperNext) /\ WF_vars(MiddleNext) /\ WF_vars(InitNext)

-----------------------------------------------------------------------------
\* The confinement that namespace_runner.c sets up before it executes the tool.
Attached(i) == mounted[i].object # Detached
Confined ==
    /\ rootFlag = "ro" /\ hostRoot = "gone" /\ oldRoot = "absent"
    /\ isRoot = "yes"
    /\ \A i \in MountIndices : Attached(i)

\* The tool only ever runs, and only ever has succeeded, with its root
\* read-only, the host root detached and every mount of the command line
\* attached, whatever failed or was killed on the way (run_namespace_init).
ToolConfined == pc["init"] = "tool" \/ ending["init"] = 0 => Confined

\* The process becomes namespace root only after the mapper, another process,
\* has written all of its identity maps (enter_mapped_user_namespace).
MappedBeforeRoot == isRoot = "yes" => maps = {"uid", "setgroups", "gid"}

\* A read-only destination is never writable, not even briefly: no attached
\* read-only mount lacks the attribute (bind_mount_fd).
NeverWritable ==
    \A i \in MountIndices : Attached(i) /\ Readonly(i) => mounted[i].flag = "ro"

\* What a typed mount shows the tool is the object that the launcher validated,
\* whenever its path is made to name another one (pin_mount_path).
BoundIsValidated ==
    \A i \in MountIndices : Attached(i) /\ i >= FirstTyped => mounted[i].object = 0

\* The confinement is whole at every moment that matters: root only with its
\* maps, the tool only in the finished root, and only validated mounts with the
\* protection they were asked for (run_namespace_init).
Confinement == ToolConfined /\ MappedBeforeRoot /\ NeverWritable /\ BoundIsValidated

\* The runner reports success only if the tool was executed and succeeded,
\* whichever process failed or was killed (wait_for_exit_status).
SuccessIsToolSuccess == ending["mapper"] = 0 => ending["init"] = 0

\* Once both ends of the chain have ended, the runner's status is the exit code
\* of the tool or 128 plus its signal, unless a process between was killed.
\* An exit code above 128 reads like a signal: the status does not tell them
\* apart.
StatusMirrored ==
    /\ ending["init"] # Alive
    /\ ending["mapper"] \notin {Alive, Signal(SIGKILL)}
    /\ ending["middle"] # Signal(SIGKILL)
    => ending["mapper"] = IF ending["init"] >= 1000
                          THEN ending["init"] - 1000 + 128 ELSE ending["init"]

\* The status of the runner is what happened to the tool (wait_for_exit_status).
StatusIsTheTools == SuccessIsToolSuccess /\ StatusMirrored

\* When the runner has ended by itself, no tool runs or will be started, so the
\* launcher may remove the runtime directories (map_child_identity_and_exit).
\* Nothing is said of a killed process: PID 1 does not ask to die with its
\* parent, so the mapper mirrors the death of a killed middle process while the
\* tool runs on.
NothingLeftBehind ==
    /\ ending["mapper"] \notin {Alive, Signal(SIGKILL)}
    /\ ending["middle"] # Signal(SIGKILL)
    => pc["init"] \in {"unborn", "ended"}

\* No process waits forever for a byte or for an exit: whichever call fails and
\* whichever process is killed, all of them end (read_byte sees the end of the
\* file because every process closed the ends that are not its own).
EveryProcessEnds == <>Done

-----------------------------------------------------------------------------
(***************************************************************************)
(* The inductive invariant behind the properties above.                   *)
(***************************************************************************)
MapperLocations == MapperCalls \cup {"signals", "mapperends", "readready",
                                     "sendack", "wait", "ended"}
MiddleLocations == MiddleCalls \cup {"unborn", "middleends", "sendready",
                                     "readack", "wait", "ended"}
InitLocations == MountCalls \cup RootCalls \cup {"unborn", "tool", "ended"}
AllMaps == {"uid", "setgroups", "gid"}

Located ==
    /\ pc["mapper"] \in MapperLocations
    /\ pc["middle"] \in MiddleLocations
    /\ pc["init"] \in InitLocations
    /\ \A p \in Procs : pc[p] = "ended" <=> ending[p] # Alive
    /\ pc["middle"] = "unborn" => pc["init"] = "unborn"
    /\ pc["init"] # "unborn" => pc["middle"] \in {"wait", "ended"}
    /\ pc["middle"] = "wait" => pc["init"] # "unborn"
    /\ pc["mapper"] \notin {"signals", "ended"} => sigchld = "default"
    /\ pc["middle"] # "unborn" =>
         /\ sigchld = "default"
         /\ pc["mapper"] \notin {"signals", "groups"}

\* The middle process passes readack only on the byte that the mapper sends
\* when its maps are complete; from then on the mapper only waits.
Acknowledged == \/ ack = "byte"
                \/ pc["middle"] \in {"setids", "unshare", "wait"}
                \/ isRoot = "yes"
Mapped ==
    /\ pc["mapper"] = "denygroups" => "uid" \in maps
    /\ pc["mapper"] = "mapgid" => {"uid", "setgroups"} \subseteq maps
    /\ pc["mapper"] = "sendack" => maps = AllMaps
    /\ Acknowledged => maps = AllMaps /\ pc["mapper"] \in {"wait", "ended"}
    /\ pc["init"] # "unborn" \/ pc["middle"] = "unshare" => isRoot = "yes"

\* How a process can have ended.
Ended ==
    /\ pc["middle"] = "ended" =>
         \/ ending["middle"] = Signal(SIGKILL)
         \/ pc["init"] = "unborn" /\ ending["middle"] \in {1, Signal(SIGPIPE)}
         \/ pc["init"] = "ended" /\ ending["middle"] = Mirrored(ending["init"])
    /\ pc["mapper"] = "ended" =>
         \/ ending["mapper"] = Signal(SIGKILL)
         \/ ~Acknowledged /\ pc["init"] = "unborn"
              /\ ending["mapper"] \in {1, Signal(SIGPIPE)}
         \/ pc["middle"] = "ended" /\ ending["mapper"] = Mirrored(ending["middle"])

\* What is attached, pinned and protected at every point of PID 1.
AllAttached == \A i \in MountIndices : Attached(i)
AtMount ==
    /\ pc["init"] \in {"unborn", "uts", "private", "mkoldroot", "ro1", "rw1"}
         => current = 1
    /\ pc["init"] \in {"mkoldroot", "ro1", "rw1"} => Attached(1)
    /\ pc["init"] = "filesystems" => current = 4 /\ \A i \in 1..4 : Attached(i)
    /\ pc["init"] \in MountCalls => \A i \in 1..(current - 1) : Attached(i)
    /\ pc["init"] \in {"open", "verify", "protect", "attach"} /\ current >= FirstTyped
         => expected = 0
    /\ pc["init"] \in {"verify", "protect", "attach"} => pinned.object # Detached
    /\ pc["init"] \in {"protect", "attach"} => pinned.object = expected
    /\ pc["init"] = "attach" /\ Readonly(current) => pinned.flag = "ro"
AtRoot ==
    /\ pc["init"] \in {"ro2", "pivot", "detach", "rw2", "rmoldroot", "ro3", "exec"}
         => AllAttached
    /\ pc["init"] \in {"rw2", "rmoldroot", "ro3", "exec"} => hostRoot = "gone"
    /\ pc["init"] \in {"ro3", "exec"} => oldRoot = "absent"
    /\ pc["init"] = "exec" => rootFlag = "ro"

Handshake == TypeProcesses /\ Located /\ Mapped /\ Ended
MountsInOrder == /\ TypeMounts /\ AtMount /\ AtRoot
                 /\ ToolConfined /\ NeverWritable /\ BoundIsValidated
IInv == Handshake /\ MountsInOrder
=============================================================================
