-------------------------- MODULE KernelPreflight ---------------------------
(***************************************************************************)
(* mkosi/private/kernel_preflight.c: the probe that qualifies a host.  The *)
(* parent checks what it can read, then forks a child that walks through   *)
(* the namespace setup of an image action, one step after the other, while *)
(* the parent writes its identity maps.  The child sends what it passed    *)
(* through a pipe; the parent prints a line for each check and a verdict.  *)
(* Any call may be refused by the kernel, and processes may be killed.     *)
(***************************************************************************)
EXTENDS Integers, FiniteSets, Sequences

CONSTANTS
    Killable,      \* the processes that may be killed from outside
    Dispositions   \* of SIGCHLD, which the parent inherits and never resets

Procs == {"parent", "child", "probe"}

ASSUME PreflightAssumption ==
    /\ Killable \subseteq Procs
    /\ Dispositions \subseteq {"default", "ignored"}

\* child_setup_steps: what each step of the child adds to its checks.
UnshareUser == 1
AwaitMapping == 2
BecomeRoot == 3
SurviveExec == 5
ProbeMounts == 8
PassedChecks == <<
    {"user_namespace"}, {"id_mapping"}, {"root_transition"},
    {"namespace_capabilities"}, {"capability_exec"}, {"mount_namespace"},
    {}, {"fd_mount_api"}, {"tmpfs_workspace", "pivot_root_workspace"},
    {"bind_mount"}, {"pivot_root"}, {"old_root_detach"}>>
Steps == 1..12
NamespaceChecks == UNION {PassedChecks[i] : i \in Steps}
HostChecks == {"linux_kernel", "procfs_namespaces", "initial_privilege",
               "max_user_namespaces", "unprivileged_userns_clone"}
Checks == HostChecks \cup NamespaceChecks \cup {"namespace_setup"}

\* The operations of check_fd_mount_api, in the order of fd_mount_steps: only
\* the directory is made read-only.
Operations == <<"setup", "open_tree_directory", "fstat_directory", "mount_setattr",
                "move_mount_directory", "open_tree_file", "fstat_file", "move_mount_file">>
OperationNames == {Operations[i] : i \in 1..8}
\* The errors that report_fd_mount_failure tells apart; 0 is recorded as EIO.
Errors == {"ENOSYS_EINVAL", "EPERM_EACCES", "EIO_other"}
Categories == {"unpreserved", "fixture", "compatibility", "policy", "unexpected"}

VARIABLES
    pc,         \* where each process is
    held,       \* the pipe ends that each process has open
    sigchld,    \* the inherited disposition
    ready,      \* "none" or the byte in the ready pipe
    ack,        \* "none" or the byte in the acknowledgement pipe
    sent,       \* whether the result is in the result pipe
    maps,       \* which files of /proc/<child> the parent has written
    step,       \* the step of the child
    checks,     \* the checks that the child has passed
    done,       \* the steps whose calls all succeeded
    operation,  \* the index of the fd mount operation in progress
    fdMount,    \* the fd mount failure that the child recorded
    survived,   \* whether the exec'd process still had the capabilities
    got,        \* the result that the parent has received
    passed,     \* the checks with a PASS line
    failed,     \* the checks with a FAIL line
    category,   \* how the fd mount failure was reported
    verdict,    \* the end of the parent
    trouble     \* whether a process was killed, or a call refused whose result
                \* is looked at (that of the ambient capability is not)

processVars == <<pc, held, sigchld>>
pipeVars == <<ready, ack, sent>>
childVars == <<step, checks, done, operation, fdMount, survived>>
reportVars == <<got, passed, failed, category, verdict>>
vars == <<processVars, pipeVars, maps, childVars, reportVars, trouble>>

PipeEnds == {"readyR", "readyW", "ackR", "ackW", "resultR", "resultW"}
ParentPlaces == {"linux", "procfs", "privilege", "sysctl", "start", "ends",
                 "readready", "setgroups", "gid", "uid", "acknowledge",
                 "receive", "wait", "report", "ended"}
ChildPlaces == {"unborn", "ends", "step", "readack", "waitprobe", "send", "ended"}
ProbePlaces == {"unborn", "verify", "ended"}
NoFailure == [operation |-> "none", error |-> "none"]
Failures == [operation : OperationNames \cup {"none"}, error : Errors \cup {"none"}]
NoResult == [checks |-> {}, fdMount |-> NoFailure]

\* Every variable has its type.
TypeOK ==
    /\ pc \in [Procs -> ParentPlaces \cup ChildPlaces \cup ProbePlaces]
    /\ held \in [Procs -> SUBSET PipeEnds]
    /\ sigchld \in Dispositions
    /\ ready \in {"none", "R"}
    /\ ack \in {"none", "A", "F"}
    /\ sent \in {"no", "yes"}
    /\ maps \in SUBSET {"setgroups", "gid", "uid"}
    /\ step \in Steps \cup {13}
    /\ checks \in SUBSET NamespaceChecks
    /\ done \in SUBSET Steps
    /\ operation \in 1..8
    /\ fdMount \in Failures
    /\ survived \in {"unknown", "yes", "no"}
    /\ got \in [checks : SUBSET NamespaceChecks, fdMount : Failures]
    /\ passed \in SUBSET Checks
    /\ failed \in SUBSET Checks
    /\ category \in Categories \cup {"none"}
    /\ verdict \in {"none", "pass", "fail", "SIGPIPE", "killed"}
    /\ trouble \in {"no", "yes"}

Init ==
    /\ pc = [p \in Procs |-> IF p = "parent" THEN "linux" ELSE "unborn"]
    /\ held = [p \in Procs |-> {}]
    /\ sigchld \in Dispositions
    /\ ready = "none"
    /\ ack = "none"
    /\ sent = "no"
    /\ maps = {}
    /\ step = 1
    /\ checks = {}
    /\ done = {}
    /\ operation = 1
    /\ fdMount = NoFailure
    /\ survived = "unknown"
    /\ got = NoResult
    /\ passed = {}
    /\ failed = {}
    /\ category = "none"
    /\ verdict = "none"
    /\ trouble = "no"

-----------------------------------------------------------------------------
\* Processes and pipes.

At(p, l) == pc[p] = l
Goto(p, l) == pc' = [pc EXCEPT ![p] = l]
\* A process that ends closes its pipe ends.
End(p) ==
    /\ pc' = [pc EXCEPT ![p] = "ended"]
    /\ held' = [held EXCEPT ![p] = {}]
Open(end) == \E q \in Procs : end \in held[q]
Refused == trouble' = "yes"

Kill(p) ==
    /\ p \in Killable
    /\ pc[p] \notin {"unborn", "ended"}
    /\ End(p)
    /\ verdict' = IF p = "parent" THEN "killed" ELSE verdict
    /\ trouble' = "yes"
    /\ UNCHANGED <<sigchld, pipeVars, maps, childVars, got, passed, failed, category>>

-----------------------------------------------------------------------------
\* The checks that the parent makes by itself.

\* One PASS or FAIL line, after which the parent goes on in either case.
Line(here, check, ok, next) ==
    /\ At("parent", here)
    /\ Goto("parent", next)
    /\ IF ok THEN passed' = passed \cup {check} /\ UNCHANGED <<failed, trouble>>
             ELSE failed' = failed \cup {check} /\ Refused /\ UNCHANGED passed
    /\ UNCHANGED <<held, sigchld, pipeVars, maps, childVars, got, category, verdict>>

CheckLinuxKernel ==
    \E identity \in {"unreadable", "other", "Linux"} :
        Line("linux", "linux_kernel", identity = "Linux", "procfs")

\* Both namespace handles must be there; the first that is missing is reported.
CheckProcfsNamespaces ==
    \E handles \in SUBSET {"user", "mnt"} :
        Line("procfs", "procfs_namespaces", handles = {"user", "mnt"}, "privilege")

\* check_initial_privilege: a file that cannot be read counts as privileged,
\* but a prctl that fails counts as an ambient capability that is not set.  Root
\* of a user namespace is not host root, but an empty mapping is unknown.
Unprivileged(mapping, root, capabilities, ambient) ==
    /\ mapping \notin {"unreadable", "empty"}
    /\ capabilities # "unreadable"
    /\ ~(mapping = "outside0" /\ root)
    /\ capabilities # "sysadmin"
    /\ ambient # "set"
CheckPrivilege ==
    \E mapping \in {"unreadable", "empty", "outside0", "mapped"},
       capabilities \in {"unreadable", "sysadmin", "none"},
       root \in BOOLEAN, ambient \in {"refused", "unset", "set"} :
        Line("privilege", "initial_privilege",
             Unprivileged(mapping, root, capabilities, ambient), "sysctl")

\* check_sysctl: two lines, or only a FAIL line when the path does not fit.
\* unprivileged_userns_clone may be missing.
CheckSysctl ==
    /\ At("parent", "sysctl")
    /\ Goto("parent", "start")
    /\ \E max \in {"toolong", "unreadable", "zero", "positive"},
          clone \in {"missing", "unreadable", "zero", "positive"} :
        LET printed == {"max_user_namespaces"} \cup
                       (IF max = "toolong" THEN {} ELSE {"unprivileged_userns_clone"})
            good == (IF max = "positive" THEN {"max_user_namespaces"} ELSE {}) \cup
                    (IF clone \in {"missing", "positive"}
                     THEN {"unprivileged_userns_clone"} ELSE {})
        IN /\ passed' = passed \cup (printed \cap good)
           /\ failed' = failed \cup (printed \ good)
           /\ trouble' = IF printed \subseteq good THEN trouble ELSE "yes"
    /\ UNCHANGED <<held, sigchld, pipeVars, maps, childVars, got, category, verdict>>

-----------------------------------------------------------------------------
\* actual_namespace_setup: the parent.

\* prctl, the three pipes and fork; when one of them fails the setup is not
\* started and no namespace check passes.
StartSetup ==
    /\ At("parent", "start")
    /\ pc' = [pc EXCEPT !["parent"] = "ends", !["child"] = "ends"]
    /\ held' = [held EXCEPT !["parent"] = PipeEnds, !["child"] = PipeEnds]
    /\ UNCHANGED <<sigchld, pipeVars, maps, childVars, reportVars, trouble>>
CannotStart ==
    /\ At("parent", "start")
    /\ Goto("parent", "report")
    /\ failed' = failed \cup {"namespace_setup"}
    /\ Refused
    /\ UNCHANGED <<held, sigchld, pipeVars, maps, childVars, got, passed, category, verdict>>

\* Mutation: the parent keeps the child's ends of the pipes open.
ParentKeepsEnds ==
    /\ At("parent", "ends")
    /\ Goto("parent", "readready")
    /\ UNCHANGED <<held, sigchld, pipeVars, maps, childVars, reportVars, trouble>>
ParentCloses ==
    /\ At("parent", "ends")
    /\ Goto("parent", "readready")
    /\ held' = [held EXCEPT !["parent"] = @ \ {"readyW", "ackR", "resultW"}]
    /\ UNCHANGED <<sigchld, pipeVars, maps, childVars, reportVars, trouble>>

\* The handshake is over: the parent closes its ends of those two pipes.
LeaveHandshake ==
    /\ Goto("parent", "receive")
    /\ held' = [held EXCEPT !["parent"] = @ \ {"readyR", "ackW"}]
ReadReady ==
    /\ At("parent", "readready")
    /\ \/ ready = "R" /\ ready' = "none" /\ Goto("parent", "setgroups") /\ UNCHANGED held
       \/ ready = "none" /\ ~Open("readyW") /\ LeaveHandshake /\ UNCHANGED ready
    /\ UNCHANGED <<sigchld, ack, sent, maps, childVars, reportVars, trouble>>

\* One file of /proc/<child>, which can only be written while the child runs.
WriteFile(file, next) ==
    /\ At("parent", file)
    /\ ~At("child", "ended")
    /\ maps' = maps \cup {file}
    /\ Goto("parent", next)
    /\ UNCHANGED <<held, sigchld, pipeVars, childVars, reportVars, trouble>>
DenySetgroups == WriteFile("setgroups", "gid")
WriteGidMap == WriteFile("gid", "uid")
WriteUidMap == WriteFile("uid", "acknowledge")
\* Without a reader, the write of the acknowledgement ends the parent.
Acknowledge(byte) ==
    /\ IF Open("ackR") THEN ack' = byte /\ LeaveHandshake /\ UNCHANGED verdict
                       ELSE End("parent") /\ verdict' = "SIGPIPE" /\ UNCHANGED ack
    /\ UNCHANGED <<sigchld, ready, sent, maps, childVars, got, passed, failed, category>>
\* Mutation: the child is told of success whether or not the maps were written.
MappingFailedUnnoticed ==
    /\ \E file \in {"setgroups", "gid", "uid"} : At("parent", file)
    /\ Refused
    /\ Acknowledge("A")
MappingFailed ==
    /\ \E file \in {"setgroups", "gid", "uid"} : At("parent", file)
    /\ Refused
    /\ Acknowledge("F")
\* Mutation: the answer of a failure is sent in either case.
MappingWrittenDenied ==
    /\ At("parent", "acknowledge")
    /\ Acknowledge("F")
    /\ UNCHANGED trouble
MappingWritten ==
    /\ At("parent", "acknowledge")
    /\ Acknowledge("A")
    /\ UNCHANGED trouble

\* Mutation: the parent does not wait for the end of the file.
ReceiveAtDeath ==
    /\ At("parent", "receive")
    /\ sent = "yes" \/ At("child", "ended")
    /\ got' = IF sent = "yes" THEN [checks |-> checks, fdMount |-> fdMount] ELSE NoResult
    /\ Goto("parent", "wait")
    /\ held' = [held EXCEPT !["parent"] = {}]
    /\ UNCHANGED <<sigchld, pipeVars, maps, childVars, passed, failed, category, verdict, trouble>>
\* receive_setup_result: all of the result, or nothing when the pipe ends first.
ReceiveResult ==
    /\ At("parent", "receive")
    /\ sent = "yes" \/ ~Open("resultW")
    /\ got' = IF sent = "yes" THEN [checks |-> checks, fdMount |-> fdMount] ELSE NoResult
    /\ Goto("parent", "wait")
    /\ held' = [held EXCEPT !["parent"] = {}]
    /\ UNCHANGED <<sigchld, pipeVars, maps, childVars, passed, failed, category, verdict, trouble>>

\* wait_for_child, whose result the parent ignores: without the default
\* disposition it returns an error, but only after the child has ended.
WaitForChild ==
    /\ At("parent", "wait")
    /\ At("child", "ended")
    /\ Goto("parent", "report")
    /\ UNCHANGED <<held, sigchld, pipeVars, maps, childVars, reportVars, trouble>>

\* report_fd_mount_failure.
Classify(failure) ==
    IF failure.operation = "none" \/ failure.error = "none" THEN "unpreserved"
    ELSE IF failure.operation = "setup" THEN "fixture"
    ELSE IF failure.error = "ENOSYS_EINVAL" THEN "compatibility"
    ELSE IF failure.error = "EPERM_EACCES" THEN "policy"
    ELSE "unexpected"

\* Mutation: the failure to start the setup and the host checks are not counted.
ReportNamespaceOnly ==
    /\ At("parent", "report")
    /\ passed' = passed \cup got.checks
    /\ failed' = failed \cup (NamespaceChecks \ got.checks)
    /\ category' = IF "fd_mount_api" \in got.checks THEN "none" ELSE Classify(got.fdMount)
    /\ verdict' = IF got.checks = NamespaceChecks THEN "pass" ELSE "fail"
    /\ End("parent")
    /\ UNCHANGED <<sigchld, pipeVars, maps, childVars, got, trouble>>
\* report_namespace_checks, and the verdict of the whole probe.
Report ==
    /\ At("parent", "report")
    /\ passed' = passed \cup got.checks
    /\ failed' = failed \cup (NamespaceChecks \ got.checks)
    /\ category' = IF "fd_mount_api" \in got.checks THEN "none" ELSE Classify(got.fdMount)
    /\ verdict' = IF failed' = {} THEN "pass" ELSE "fail"
    /\ End("parent")
    /\ UNCHANGED <<sigchld, pipeVars, maps, childVars, got, trouble>>

-----------------------------------------------------------------------------
\* child_namespace_setup: the child.

ChildCloses ==
    /\ At("child", "ends")
    /\ Goto("child", "step")
    /\ held' = [held EXCEPT !["child"] = @ \ {"readyR", "ackW", "resultR"}]
    /\ UNCHANGED <<sigchld, pipeVars, maps, childVars, reportVars, trouble>>

\* A step succeeds, its checks pass and the next one begins.
Pass ==
    /\ done' = done \cup {step}
    /\ checks' = checks \cup PassedChecks[step]
    /\ step' = step + 1
    /\ Goto("child", IF step = 12 THEN "send" ELSE "step")
\* A step fails: the loop ends with the checks of the steps before it.
Break == Goto("child", "send") /\ UNCHANGED <<step, checks, done>>

\* Every step but the handshake and the mount probe is a fixed list of calls;
\* the kernel lets the child become root only once both maps are there.
StepSucceeds ==
    /\ At("child", "step")
    /\ step \notin {AwaitMapping, SurviveExec, ProbeMounts}
    /\ step = BecomeRoot => {"uid", "gid"} \subseteq maps
    /\ Pass
    /\ UNCHANGED <<held, sigchld, pipeVars, maps, operation, fdMount, survived,
                   reportVars, trouble>>
StepFails ==
    /\ At("child", "step")
    /\ step \notin {AwaitMapping, ProbeMounts}
    /\ Break
    /\ Refused
    /\ UNCHANGED <<held, sigchld, pipeVars, maps, operation, fdMount, survived, reportVars>>

\* await_identity_mapping: tell the parent, then wait for its answer.
SendReady ==
    /\ At("child", "step") /\ step = AwaitMapping
    /\ IF Open("readyR") THEN ready' = "R" /\ Goto("child", "readack") /\ UNCHANGED held
                         ELSE End("child") /\ UNCHANGED ready
    /\ UNCHANGED <<sigchld, ack, sent, maps, childVars, reportVars, trouble>>
ReadAck ==
    /\ At("child", "readack")
    /\ ack # "none" \/ ~Open("ackW")
    /\ ack' = "none"
    /\ IF ack = "A" THEN Pass ELSE Break
    /\ UNCHANGED <<held, sigchld, ready, sent, maps, operation, fdMount, survived,
                   reportVars, trouble>>

\* check_capability_exec: a child of the child executes this program again and
\* inspects its own capabilities.  It has a copy of every open pipe end.
ForkProbe ==
    /\ At("child", "step") /\ step = SurviveExec
    /\ pc' = [pc EXCEPT !["child"] = "waitprobe", !["probe"] = "verify"]
    /\ held' = [held EXCEPT !["probe"] = held["child"]]
    /\ UNCHANGED <<sigchld, pipeVars, maps, childVars, reportVars, trouble>>
ProbeVerifies ==
    /\ At("probe", "verify")
    /\ \E outcome \in {"yes", "no"} :
        /\ survived' = outcome
        /\ trouble' = IF outcome = "yes" THEN trouble ELSE "yes"
    /\ End("probe")
    /\ UNCHANGED <<sigchld, pipeVars, maps, step, checks, done, operation, fdMount, reportVars>>
\* Without the default disposition of SIGCHLD waitpid finds no child and fails.
WaitForProbe ==
    /\ At("child", "waitprobe")
    /\ At("probe", "ended")
    /\ IF survived = "yes" /\ sigchld = "default" THEN Pass ELSE Break
    /\ UNCHANGED <<held, sigchld, pipeVars, maps, operation, fdMount, survived,
                   reportVars, trouble>>

\* check_fd_mount_api: one operation succeeds, the last of them ends the step.
OperationSucceeds ==
    /\ At("child", "step") /\ step = ProbeMounts
    /\ IF operation < 8
       THEN operation' = operation + 1 /\ UNCHANGED <<pc, step, checks, done>>
       ELSE Pass /\ UNCHANGED operation
    /\ UNCHANGED <<held, sigchld, pipeVars, maps, fdMount, survived, reportVars, trouble>>
\* Mutation: the failure is returned but not recorded.
OperationFailsSilently ==
    /\ At("child", "step") /\ step = ProbeMounts
    /\ Break
    /\ Refused
    /\ UNCHANGED <<held, sigchld, pipeVars, maps, operation, fdMount, survived, reportVars>>
\* record_fd_mount_failure, and no operation after the one that failed.
OperationFails ==
    /\ At("child", "step") /\ step = ProbeMounts
    /\ \E error \in Errors :
        fdMount' = [operation |-> Operations[operation], error |-> error]
    /\ Break
    /\ Refused
    /\ UNCHANGED <<held, sigchld, pipeVars, maps, operation, survived, reportVars>>

\* run_setup_child_and_exit: the result, unless no process can read it.
SendResult ==
    /\ At("child", "send")
    /\ sent' = IF Open("resultR") THEN "yes" ELSE "no"
    /\ End("child")
    /\ UNCHANGED <<sigchld, ready, ack, maps, childVars, reportVars, trouble>>

-----------------------------------------------------------------------------
HostStep == CheckLinuxKernel \/ CheckProcfsNamespaces \/ CheckPrivilege \/ CheckSysctl
MapStep == DenySetgroups \/ WriteGidMap \/ WriteUidMap \/ MappingFailed \/ MappingWritten
ParentStep == \/ HostStep \/ StartSetup \/ CannotStart \/ ParentCloses \/ ReadReady
              \/ MapStep \/ ReceiveResult \/ WaitForChild \/ Report
ChildStep == \/ ChildCloses \/ StepSucceeds \/ StepFails \/ SendReady \/ ReadAck
             \/ ForkProbe \/ WaitForProbe \/ OperationSucceeds \/ OperationFails
             \/ SendResult
Next == ParentStep \/ ChildStep \/ ProbeVerifies \/ \E p \in Procs : Kill(p)

Spec == Init /\ [][Next]_vars
\* Every process runs on unless it waits; nobody has to be killed.
FairSpec ==
    /\ Spec
    /\ WF_vars(ParentStep)
    /\ WF_vars(ChildStep)
    /\ WF_vars(ProbeVerifies)

-----------------------------------------------------------------------------
\* A PASS line is the truth: the calls of that step, and of every step before
\* it, have succeeded, and the child was told that all maps were written only
\* when they were.
ReportIsHonest ==
    \A c \in passed \cap NamespaceChecks : \E i \in done :
        /\ c \in PassedChecks[i]
        /\ 1..i \subseteq done
        /\ i >= AwaitMapping => maps = {"setgroups", "gid", "uid"}

\* The host is qualified only when every check has printed PASS and every step
\* of the namespace setup, the ones without a check included, was done.
QualifiedMeansAll ==
    verdict = "pass" =>
        /\ passed = HostChecks \cup NamespaceChecks
        /\ done = Steps
        /\ trouble = "no"

\* The host is not refused without a reason: a call failed, a process was
\* killed, or the disposition of SIGCHLD was not the default one, with which the
\* probe of the capabilities counts as failed whatever it found.
NoFalseAlarm == verdict = "fail" => trouble = "yes" \/ sigchld = "ignored"

\* A failure of the mount probe is reported with its own operation; without
\* one the report says that none was preserved.
FailureIsLocated ==
    verdict \in {"pass", "fail"} /\ "fd_mount_api" \in failed =>
        IF step = ProbeMounts /\ sent = "yes"
        THEN /\ got.fdMount.operation = Operations[operation]
             /\ category # "unpreserved"
        ELSE category = "unpreserved"

\* The report is true as a whole: its PASS lines, its verdict either way and
\* the place of a failure (report_namespace_checks, report_fd_mount_failure).
ReportIsTrue == ReportIsHonest /\ QualifiedMeansAll /\ NoFalseAlarm /\ FailureIsLocated

\* When the parent prints its verdict neither the child nor the process that
\* checks the capabilities is still running, whoever was killed.
NothingLeftRunning ==
    verdict \in {"pass", "fail"} =>
        \A p \in {"child", "probe"} : pc[p] \in {"unborn", "ended"}

\* Whatever is refused or killed, no process waits for ever.
EveryProcessEnds == <>[](\A p \in Procs : pc[p] \in {"unborn", "ended"})

=============================================================================
