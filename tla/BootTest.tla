------------------------------ MODULE BootTest ------------------------------
(***************************************************************************)
(* mkosi/private/boot_test.py: one boot of an image in QEMU.  The driver  *)
(* prepares the scratch directory, starts QEMU, performs the QMP          *)
(* handshake, polls the serial log for markers, waits for the shutdown,   *)
(* stops QEMU and exports the logs.  Beside it run the guest, which       *)
(* writes markers to the log, QEMU, which may exit, hang, ignore SIGTERM  *)
(* or be stuck in the kernel, the clock, and an interrupt of the driver.  *)
(* The calls between two waits take no time; a sleep lasts one unit.      *)
(***************************************************************************)
EXTENDS Integers, Sequences, FiniteSets

CONSTANTS
    Progress,          \* progress_markers, in order
    ShutdownMarkers,   \* shutdown_markers
    OtherMarkers,      \* other lines that the guest may write
    Modes,             \* which of "shutdown", "stop" and "failure" are tried
    QmpTimeout, BootTimeout, ShutdownTimeout,   \* the three deadlines
    StopTimeout,       \* the timeout of each wait of _stop_process
    CleanupMargin,     \* _CLEANUP_MARGIN_SECONDS
    Limit,             \* how many lines of a log are exported
    MaxSerial          \* bound: lines that the guest writes

ASSUME BootAssumption ==
    /\ IsFiniteSet(ShutdownMarkers) /\ ShutdownMarkers # {}
    /\ Modes \subseteq {"shutdown", "stop", "failure"}
    /\ {QmpTimeout, BootTimeout, ShutdownTimeout, StopTimeout} \subseteq Nat \ {0}
    /\ CleanupMargin \in Nat /\ CleanupMargin >= 4 * StopTimeout + 1
    /\ Limit \in Nat /\ MaxSerial \in Nat

VARIABLES
    mode,       \* the kind of test: stop_after_readiness, expected_failure_marker
    pc,         \* where the driver is
    spent,      \* the time since QMP initialization was complete
    left,       \* the time left until the deadline of the loop that the driver is in
    rest,       \* the time left of the wait that the driver is in
    limit,      \* the timeout of every receive of the current QMP connection
    reply,      \* which QMP reply is awaited: 1 greeting, 2 capabilities, 3 query-kvm
    qmp,        \* "pending", or "ready" once QMP initialization is complete
    qemu,       \* "absent", "running" or "exited"
    code,       \* the exit status of QEMU
    serial,     \* the markers in the serial log
    seen,       \* how much of the serial log the last observation covers
    back,       \* where _stop_process returns to
    failure,    \* the diagnostic that is being raised, or "none"
    exported    \* what became of the serial log in the test outputs

driverVars == <<mode, limit, reply, qmp, back>>
guestVars == <<qemu, code, serial>>
logVars == <<seen, exported>>
vars == <<pc, spent, left, rest, failure, driverVars, guestVars, logVars>>

Ready == "ready"
Failed == "failed"
Markers == {Progress[i] : i \in DOMAIN Progress} \cup ShutdownMarkers
           \cup OtherMarkers \cup {Ready, Failed}
\* The progress markers are a list.
ASSUME ProgressAssumption == Progress \in Seq(Markers)
Failures == {"none", "KERNEL_PREFLIGHT", "VARIABLES", "SHARE_FAILURE",
             "QEMU_EXEC_FAILURE", "QEMU_INITIALIZATION_FAILURE",
             "EXITED_BEFORE_READINESS", "READINESS_TIMEOUT", "READY_BEFORE_FAILURE",
             "NOT_TERMINATED", "EXIT_STATUS", "NO_SHUTDOWN_MARKERS",
             "KILL_DEADLINE", "INTERRUPTED"}
Waits == {"connect", "receive", "retry", "sleep", "await", "terminated", "killed"}
Locations == Waits \cup {"preflight", "variables", "shares", "start", "qmp",
                         "observe", "decide", "poll", "expired", "status", "markers",
                         "stop", "ensure", "export", "done"}

\* What stands for the lines that _bounded_content leaves out.
Omitted == "omitted"
\* A log is exported, or "<log unavailable>" in its place; nothing is without a
\* directory for the outputs, and an error ends the export.
Exports == [as : {"nothing", "log", "unavailable", "failed"}, log : Seq(Markers \cup {Omitted})]
NoExport == [as |-> "nothing", log |-> <<>>]

\* Every variable has its type.
TypeOK ==
    /\ mode \in Modes
    /\ pc \in Locations
    /\ spent \in Nat
    /\ left \in 0..(QmpTimeout + BootTimeout)
    /\ rest \in 0..(QmpTimeout + ShutdownTimeout + StopTimeout)
    /\ limit \in 0..QmpTimeout
    /\ reply \in 1..3
    /\ qmp \in {"pending", "ready"}
    /\ qemu \in {"absent", "running", "exited"}
    /\ code \in {0, 1}
    /\ serial \in Seq(Markers) /\ Len(serial) <= MaxSerial
    /\ seen \in 0..Len(serial)
    /\ back \in {"ensure", "export"}
    /\ failure \in Failures
    /\ exported \in Exports

Init ==
    /\ mode \in Modes
    /\ pc = "preflight"
    /\ spent = 0 /\ left = 0 /\ rest = 0
    /\ limit = 0 /\ reply = 1 /\ qmp = "pending"
    /\ qemu = "absent" /\ code = 0
    /\ serial = <<>> /\ seen = 0
    /\ back = "ensure"
    /\ failure = "none"
    /\ exported = NoExport

-----------------------------------------------------------------------------
\* What the serial log shows.

\* bytes.find: the first position of m in s from position i on, or 0.
Find(s, m, i) ==
    LET found == {j \in i..Len(s) : s[j] = m}
    IN  IF found = {} THEN 0 ELSE CHOOSE j \in found : \A k \in found : j <= k

\* Mutation: every marker is searched for from the start of the log.
AfterUnordered(s) ==
    IF \A k \in DOMAIN Progress : Find(s, Progress[k], 1) # 0
    THEN 1 ELSE 0
\* _ordered_progress: the position after the last progress marker in order,
\* or 0 if one of them is missing.
After(s) ==
    LET after[k \in 0..Len(Progress)] ==
            IF k = 0 THEN 1
            ELSE IF after[k - 1] = 0 THEN 0
            ELSE LET f == Find(s, Progress[k], after[k - 1])
                 IN  IF f = 0 THEN 0 ELSE f + 1
    IN  after[Len(Progress)]
\* _observe: readiness_offset and failure_offset, 0 for -1.
ReadinessOffset(s) == IF After(s) = 0 THEN 0 ELSE Find(s, Ready, After(s))
FailureOffset(s) == Find(s, Failed, 1)
Observed == SubSeq(serial, 1, seen)

\* _bounded_content: the beginning and the end of a log that is too long.
Bounded(s) ==
    LET kept == Limit - 1
        head == kept \div 2
    IN  IF Len(s) <= Limit THEN s
        ELSE IF Limit <= 1 THEN SubSeq(s, 1, Limit)
        ELSE SubSeq(s, 1, head) \o <<Omitted>> \o SubSeq(s, Len(s) - (kept - head) + 1, Len(s))

\* _has_clean_shutdown.
HasCleanShutdown(s) == \A m \in ShutdownMarkers : Find(s, m, 1) # 0

-----------------------------------------------------------------------------
\* The driver before QEMU runs.

Goto(l) == pc' = l
\* A diagnostic is raised: the finally clauses that are open run next.
Raise(reason, finally) == failure' = reason /\ Goto(finally)
\* The wait that the driver was in, if any, is over.
NoWait == rest' = 0 /\ UNCHANGED <<spent, left>>
Wait(l, time) == Goto(l) /\ rest' = time

\* run_kernel_preflight, the copy of the variables, _share_arguments: each
\* goes on to the next or raises, and then the outer finally clause runs.
Prepare(here, reason, next) ==
    /\ pc = here
    /\ \/ Goto(next) /\ UNCHANGED failure
       \/ Raise(reason, "export")
    /\ NoWait
    /\ UNCHANGED <<driverVars, guestVars, logVars>>
RunKernelPreflight == Prepare("preflight", "KERNEL_PREFLIGHT", "variables")
CopyVariables == Prepare("variables", "VARIABLES", "shares")
PrepareShares == Prepare("shares", "SHARE_FAILURE", "start")

StartQemu ==
    /\ pc = "start"
    /\ \/ /\ qemu' = "running"
          /\ left' = QmpTimeout
          /\ Goto("qmp")
          /\ UNCHANGED failure
       \/ /\ Raise("QEMU_EXEC_FAILURE", "export")
          /\ UNCHANGED <<qemu, left>>
    /\ UNCHANGED <<spent, rest, driverVars, code, serial, logVars>>

-----------------------------------------------------------------------------
\* The QMP handshake.

AtLeastOne(a) == IF a > 1 THEN a ELSE 1

\* The head of the loop of _qmp_handshake.
TryQmp ==
    /\ pc = "qmp"
    /\ IF left = 0 \/ qemu = "exited"
       THEN Raise("QEMU_INITIALIZATION_FAILURE", "ensure") /\ UNCHANGED rest
       ELSE Wait("connect", AtLeastOne(left)) /\ UNCHANGED failure
    /\ UNCHANGED <<spent, left, driverVars, guestVars, logVars>>

\* An attempt failed: its connection is closed, and the loop sleeps.
Retry ==
    /\ Wait("retry", 1)
    /\ limit' = 0 /\ reply' = 1

\* The connection is made once QEMU listens; every receive then has the time
\* that is left now as its own timeout.
Connect ==
    /\ pc = "connect"
    /\ qemu = "running"
    /\ limit' = AtLeastOne(left)
    /\ Wait("receive", limit')
    /\ UNCHANGED <<spent, left, failure, mode, reply, qmp, back, guestVars, logVars>>
ConnectFails ==
    /\ pc = "connect"
    /\ Retry
    /\ UNCHANGED <<spent, left, failure, mode, qmp, back, guestVars, logVars>>

\* A reply in time; the one to query-kvm completes the initialization, and the
\* deadline for readiness starts to run.
Receive ==
    /\ pc = "receive"
    /\ qemu = "running"
    /\ \/ /\ reply < 3
          /\ reply' = reply + 1
          /\ Wait("receive", limit)
          /\ UNCHANGED <<qmp, left, spent, limit>>
       \/ /\ reply = 3
          /\ qmp' = "ready"
          /\ spent' = 0 /\ left' = BootTimeout
          /\ rest' = 0 /\ limit' = 0 /\ reply' = 1
          /\ Goto("observe")
    /\ UNCHANGED <<failure, mode, back, guestVars, logVars>>
\* An asynchronous event before the reply: the loop receives again, with the
\* whole timeout, however long it has been doing so.
ReceiveEvent ==
    /\ pc = "receive"
    /\ qemu = "running"
    /\ reply = 3
    /\ Wait("receive", limit)
    /\ UNCHANGED <<spent, left, failure, mode, limit, reply, qmp, back, guestVars, logVars>>
\* A reply that is not what was expected, the end of the stream, or a timeout.
ReceiveFails ==
    /\ pc = "receive"
    /\ Retry
    /\ UNCHANGED <<spent, left, failure, mode, qmp, back, guestVars, logVars>>

Slept(here, next) ==
    /\ pc = here
    /\ rest = 0
    /\ Goto(next)
    /\ NoWait
    /\ UNCHANGED <<failure, driverVars, guestVars, logVars>>
RetryQmp == Slept("retry", "qmp")

-----------------------------------------------------------------------------
\* The markers on the serial console.

Observe ==
    /\ pc = "observe"
    /\ seen' = Len(serial)
    /\ Goto("decide")
    /\ NoWait
    /\ UNCHANGED <<failure, driverVars, guestVars, exported>>

\* What _await_readiness concludes from its observation alone.
ExpectedFailureFirst ==
    LET f == FailureOffset(Observed)
        r == ReadinessOffset(Observed)
    IN  f # 0 /\ (r = 0 \/ f < r)
IsReady == ReadinessOffset(Observed) # 0
StopWith(next) == Goto("stop") /\ back' = next
Decide ==
    /\ pc = "decide"
    /\ \/ /\ mode = "failure" /\ ExpectedFailureFirst
          /\ StopWith("ensure")
          /\ UNCHANGED <<rest, failure>>
       \/ /\ mode = "failure" /\ ~ExpectedFailureFirst /\ IsReady
          /\ Raise("READY_BEFORE_FAILURE", "ensure")
          /\ UNCHANGED <<rest, back>>
       \/ /\ mode = "stop" /\ IsReady
          /\ StopWith("ensure")
          /\ UNCHANGED <<rest, failure>>
       \/ /\ mode = "shutdown" /\ IsReady
          /\ Wait("await", ShutdownTimeout)
          /\ UNCHANGED <<failure, back>>
       \/ /\ ~IsReady /\ (mode = "failure" => ~ExpectedFailureFirst)
          /\ Goto("poll")
          /\ UNCHANGED <<rest, failure, back>>
    /\ UNCHANGED <<spent, left, mode, limit, reply, qmp, guestVars, logVars>>

\* The process is polled after the log was read.
Poll ==
    /\ pc = "poll"
    /\ IF qemu = "exited"
       THEN Raise("EXITED_BEFORE_READINESS", "ensure")
       ELSE Goto("expired") /\ UNCHANGED failure
    /\ NoWait
    /\ UNCHANGED <<driverVars, guestVars, logVars>>

\* Mutation: the deadline is never looked at.
NeverExpires ==
    /\ pc = "expired"
    /\ Wait("sleep", 1)
    /\ UNCHANGED <<spent, left, failure, driverVars, guestVars, logVars>>
\* Mutation: the last unit of the deadline is not waited for.
CheckDeadlineEarly ==
    /\ pc = "expired"
    /\ IF left <= 1
       THEN Raise("READINESS_TIMEOUT", "ensure") /\ UNCHANGED rest
       ELSE Wait("sleep", 1) /\ UNCHANGED failure
    /\ UNCHANGED <<spent, left, driverVars, guestVars, logVars>>
CheckDeadline ==
    /\ pc = "expired"
    /\ IF left = 0
       THEN Raise("READINESS_TIMEOUT", "ensure") /\ UNCHANGED rest
       ELSE Wait("sleep", 1) /\ UNCHANGED failure
    /\ UNCHANGED <<spent, left, driverVars, guestVars, logVars>>
ObserveAgain == Slept("sleep", "observe")

-----------------------------------------------------------------------------
\* The shutdown.

\* _await_clean_shutdown.
AwaitExit ==
    /\ pc = "await"
    /\ \/ /\ qemu = "exited"
          /\ Goto("status")
          /\ UNCHANGED <<failure, back>>
       \/ /\ qemu = "running" /\ rest = 0
          /\ failure' = "NOT_TERMINATED"
          /\ StopWith("ensure")
    /\ NoWait
    /\ UNCHANGED <<mode, limit, reply, qmp, guestVars, logVars>>
CheckStatus ==
    /\ pc = "status"
    /\ IF code # 0
       THEN Raise("EXIT_STATUS", "ensure")
       ELSE Goto("markers") /\ UNCHANGED failure
    /\ NoWait
    /\ UNCHANGED <<driverVars, guestVars, logVars>>
CheckShutdownMarkers ==
    /\ pc = "markers"
    /\ IF HasCleanShutdown(serial)
       THEN Goto("ensure") /\ UNCHANGED failure
       ELSE Raise("NO_SHUTDOWN_MARKERS", "ensure")
    /\ NoWait
    /\ UNCHANGED <<driverVars, guestVars, logVars>>

\* _stop_process: poll, SIGTERM, SIGKILL, each with a timeout.
Stop ==
    /\ pc = "stop"
    /\ IF qemu = "exited"
       THEN Goto(back) /\ UNCHANGED rest
       ELSE Wait("terminated", StopTimeout)
    /\ UNCHANGED <<spent, left, failure, driverVars, guestVars, logVars>>
\* Mutation: the process is waited for without a timeout.
TerminateForever ==
    /\ pc = "terminated"
    /\ qemu = "exited" /\ Goto(back) /\ rest' = 0
    /\ UNCHANGED <<spent, left, failure, driverVars, guestVars, logVars>>
Terminate ==
    /\ pc = "terminated"
    /\ \/ qemu = "exited" /\ Goto(back) /\ rest' = 0
       \/ qemu = "running" /\ rest = 0 /\ Wait("killed", StopTimeout)
    /\ UNCHANGED <<spent, left, failure, driverVars, guestVars, logVars>>
\* Only _ensure_stopped looks at the result of _stop_process.
Kill ==
    /\ pc = "killed"
    /\ qemu = "exited" \/ rest = 0
    /\ Goto(back)
    /\ failure' = IF qemu = "running" /\ back = "export" THEN "KILL_DEADLINE" ELSE failure
    /\ NoWait
    /\ UNCHANGED <<driverVars, guestVars, logVars>>

\* Mutation: an interrupted or failed boot does not stop QEMU.
EnsureNothing ==
    /\ pc = "ensure"
    /\ Goto("export")
    /\ NoWait
    /\ UNCHANGED <<failure, driverVars, guestVars, logVars>>
\* The inner finally clause: _ensure_stopped.
EnsureStopped ==
    /\ pc = "ensure"
    /\ IF qemu = "running" THEN StopWith("export") ELSE Goto("export") /\ UNCHANGED back
    /\ NoWait
    /\ UNCHANGED <<failure, mode, limit, reply, qmp, guestVars, logVars>>

Ended(export) ==
    /\ pc = "export"
    /\ exported' \in export
    /\ Goto("done")
    /\ NoWait
    /\ UNCHANGED <<failure, driverVars, guestVars, seen>>
NotALog == {NoExport, [as |-> "unavailable", log |-> <<>>], [as |-> "failed", log |-> <<>>]}
\* Mutation: the last observation is exported instead of the log.
ExportObserved == Ended({[as |-> "log", log |-> Bounded(Observed)]} \cup NotALog)
\* The outer finally clause: _export_boot_logs, and qmp.sock is removed.
Export == Ended({[as |-> "log", log |-> Bounded(serial)]} \cup NotALog)

-----------------------------------------------------------------------------
\* The surroundings.

\* KeyboardInterrupt: the finally clauses that are open run.  An interrupt
\* inside _ensure_stopped leaves it.
Interrupt ==
    /\ pc \notin {"ensure", "export", "done"}
    /\ failure # "INTERRUPTED"
    /\ failure' = "INTERRUPTED"
    /\ Goto(IF qemu = "absent" \/ (pc \in {"stop", "terminated", "killed"} /\ back = "export")
            THEN "export" ELSE "ensure")
    /\ NoWait
    /\ UNCHANGED <<driverVars, guestVars, logVars>>

\* The lines that a test of this mode looks for, and others.
Lines == {Progress[i] : i \in DOMAIN Progress} \cup {Ready} \cup OtherMarkers
         \cup {m \in ShutdownMarkers : mode = "shutdown"} \cup {m \in {Failed} : mode = "failure"}
GuestWrites ==
    /\ qemu = "running"
    /\ Len(serial) < MaxSerial
    /\ \E m \in Lines : serial' = Append(serial, m)
    /\ UNCHANGED <<pc, spent, left, rest, failure, driverVars, qemu, code, logVars>>
QemuExits ==
    /\ qemu = "running"
    /\ qemu' = "exited"
    /\ code' \in {0, 1}
    /\ UNCHANGED <<pc, spent, left, rest, failure, driverVars, serial, logVars>>
\* Time passes while the driver waits, and no wait outlasts its timeout.
Tick ==
    /\ pc \in Waits
    /\ rest > 0
    /\ rest' = rest - 1
    /\ left' = IF left > 0 THEN left - 1 ELSE 0
    /\ spent' = IF qmp = "ready" THEN spent + 1 ELSE spent
    /\ UNCHANGED <<pc, failure, driverVars, guestVars, logVars>>

Driver == \/ RunKernelPreflight \/ CopyVariables \/ PrepareShares \/ StartQemu
          \/ TryQmp \/ Connect \/ ConnectFails \/ Receive \/ ReceiveEvent \/ ReceiveFails
          \/ RetryQmp \/ Observe \/ Decide \/ Poll \/ CheckDeadline \/ ObserveAgain
          \/ AwaitExit \/ CheckStatus \/ CheckShutdownMarkers
          \/ Stop \/ Terminate \/ Kill \/ EnsureStopped \/ Export
Next == \/ Driver \/ Interrupt \/ GuestWrites \/ QemuExits \/ Tick
        \/ pc = "done" /\ UNCHANGED vars

Spec == Init /\ [][Next]_vars
\* The driver goes on whenever it can and time passes while it waits.  Nothing
\* is assumed of the guest, of QEMU or of the answers on the socket.
Waited == pc \in Waits /\ rest = 0 /\ Driver
FairSpec == /\ Spec
            /\ WF_vars(pc \notin Waits /\ Driver)
            /\ WF_vars(Waited)
            /\ WF_vars(Tick)

-----------------------------------------------------------------------------
\* The markers occur in s in this order.
InOrder(markers, s) ==
    \E at \in [DOMAIN markers -> DOMAIN s] :
        /\ \A i \in DOMAIN markers : s[at[i]] = markers[i]
        /\ \A i, j \in DOMAIN markers : i < j => at[i] < at[j]
ReadyInOrder(s) == InOrder(Append(Progress, Ready), s)
Passed == pc = "done" /\ failure = "none"

\* A test passes only with what its mode demands in the log: the progress
\* markers in order and then readiness, followed by an exit with status 0 and
\* every shutdown marker; or the failure marker in a log that was not ready
\* before it (_await_readiness, _await_clean_shutdown).
PassIsProven ==
    Passed =>
        /\ mode # "failure" => ReadyInOrder(serial)
        /\ mode = "shutdown" => /\ qemu = "exited" /\ code = 0
                                /\ \A m \in ShutdownMarkers : InOrder(<<m>>, serial)
        /\ mode = "failure" =>
             \E i \in DOMAIN serial :
                 serial[i] = Failed /\ ~ReadyInOrder(SubSeq(serial, 1, i))

\* No QEMU outlives a driver that does not say so: one that is still running is
\* reported, unless the driver was interrupted while it stopped it (_ensure_stopped).
NoQemuLeft ==
    pc = "done" /\ qemu = "running" => failure \in {"KILL_DEADLINE", "INTERRUPTED"}

\* A log that was exported shows how the boot ended: it is within the limit, it
\* is the whole log if that fits, and else its last line is the last one of the
\* guest, because QEMU is stopped before the logs are exported (_export_boot_logs).
\* Nothing is claimed when QEMU was left or nothing could be exported.
ExportIsFinal ==
    pc = "done" /\ failure \notin {"KILL_DEADLINE", "INTERRUPTED"} /\ exported.as = "log" =>
        /\ Len(exported.log) <= Limit
        /\ Len(serial) <= Limit => exported.log = serial
        /\ Len(serial) > Limit /\ Limit > 1 =>
             exported.log[Len(exported.log)] = serial[Len(serial)]

\* QEMU is gone before the driver ends, or the driver says so, and a log that is
\* exported is one that has ended (the finally clauses of _boot).
QemuIsGone == NoQemuLeft /\ ExportIsFinal

\* From complete QMP initialization on, the driver ends within the deadlines and
\* the cleanup margin that validate_deadlines of qemu_boot_test.bzl reserves.
FitsTestTimeout ==
    qmp = "ready" => spent <= BootTimeout + ShutdownTimeout + CleanupMargin

\* A test that reports that the guest was not ready had no observation that was,
\* and gave the guest the whole deadline unless QEMU had exited.  What the guest
\* writes between the last observation and the poll of QEMU is not looked at
\* (_await_readiness, _fail_readiness_timeout).
TimeoutIsReal ==
    /\ failure \in {"READINESS_TIMEOUT", "EXITED_BEFORE_READINESS"} => ~ReadyInOrder(Observed)
    /\ failure = "READINESS_TIMEOUT" => spent >= BootTimeout
    /\ failure = "EXITED_BEFORE_READINESS" => qemu = "exited"

\* The documented meaning of shutdown_markers: one of them must appear.  A test
\* that fails for want of them has none in the log (_await_clean_shutdown).
OneMarkerIsEnough ==
    failure = "NO_SHUTDOWN_MARKERS" => \A m \in ShutdownMarkers : ~InOrder(<<m>>, serial)

\* The verdict is true: a pass is proven by the log, and a guest that is said not
\* to be ready was not seen to be (_await_readiness, _await_clean_shutdown).
VerdictIsProven == PassIsProven /\ TimeoutIsReal

\* The driver ends, whatever the guest, QEMU and the socket do or do not do, but
\* for a QEMU that sends QMP events for ever in place of the reply: the timeout of
\* _perform_qmp_handshake is that of one receive.
DriverEnds == <>(pc = "done") \/ []<><<ReceiveEvent>>_vars

-----------------------------------------------------------------------------
(***************************************************************************)
(* The inductive invariant behind QemuIsGone and FitsTestTimeout: where    *)
(* QEMU runs, and how much of the time is used up at every point.          *)
(***************************************************************************)
Preparing == {"preflight", "variables", "shares", "start"}
QmpLoop == {"qmp", "connect", "receive", "retry"}
BootLoop == {"observe", "decide", "poll", "expired", "sleep"}
Stopping == {"stop", "terminated", "killed"}
Lifecycle == BootTimeout + ShutdownTimeout

QemuInv ==
    /\ pc \in Preparing => qemu = "absent"
    /\ pc \notin Preparing \cup {"export", "done"} => qemu # "absent"
    /\ pc \in {"export", "done"} /\ qemu = "running" =>
         failure \in {"KILL_DEADLINE", "INTERRUPTED"}
TimeInv ==
    qmp = "ready" =>
        /\ pc \notin Preparing \cup QmpLoop
        /\ pc \in BootLoop => spent + left <= BootTimeout
        /\ pc = "sleep" => rest <= left
        /\ pc = "await" => spent + rest <= Lifecycle
        /\ pc \in {"status", "markers"} => spent <= Lifecycle
        /\ pc = "ensure" => spent <= Lifecycle + 2 * StopTimeout
        /\ pc \in Stopping =>
             spent + rest <= Lifecycle
                             + (IF back = "export" THEN 2 * StopTimeout ELSE 0)
                             + (IF pc = "terminated" THEN StopTimeout ELSE 0)
                             + (IF pc = "killed" THEN 2 * StopTimeout ELSE 0)
        /\ pc \in {"export", "done"} => spent <= Lifecycle + 4 * StopTimeout
TimeTypes ==
    /\ pc \in Locations
    /\ spent \in Nat /\ left \in Nat /\ rest \in Nat /\ limit \in Nat
    /\ back \in {"ensure", "export"}
    /\ qemu \in {"absent", "running", "exited"}
    /\ qmp \in {"pending", "ready"}
    /\ pc \notin Waits => rest = 0
\* Once QEMU has exited, nothing is added to the log that is exported.
ExportInv ==
    pc = "done" /\ failure \notin {"KILL_DEADLINE", "INTERRUPTED"} /\ exported.as = "log" =>
        exported.log = Bounded(serial)
IInv == TimeTypes /\ QemuInv /\ TimeInv /\ ExportInv
=============================================================================
