------------------------ MODULE KernelPreflightProofs -----------------------
(***************************************************************************)
(* The report of the probe is true, and nobody is left behind, whichever   *)
(* processes may be killed and whichever disposition of SIGCHLD is         *)
(* inherited.  The invariant follows the two processes through their three *)
(* pipes: who holds which end, what each place of the parent says of the   *)
(* child, and when a refusal has become a failed check that must still be  *)
(* reported.                                                               *)
(***************************************************************************)
EXTENDS KernelPreflight, TLAPS

AllMaps == {"setgroups", "gid", "uid"}
HostPhase == {"linux", "procfs", "privilege", "sysctl", "start"}
Mapping == {"setgroups", "gid", "uid", "acknowledge"}
Collected == pc["parent"] \in {"wait", "report"} \/ verdict \in {"pass", "fail"}

\* Every process is at one of its own places.
Places == /\ pc["parent"] \in ParentPlaces
          /\ pc["child"] \in ChildPlaces
          /\ pc["probe"] \in ProbePlaces

\* The place of a process says which pipe ends it holds.
ChildEnds == {"readyW", "ackR", "resultW"}
PipesHeld ==
    /\ held["parent"] = IF pc["parent"] = "ends" THEN PipeEnds
                        ELSE IF pc["parent"] \in Mapping \cup {"readready"}
                        THEN {"readyR", "ackW", "resultR"}
                        ELSE IF pc["parent"] = "receive" THEN {"resultR"} ELSE {}
    /\ held["child"] = IF pc["child"] = "ends" THEN PipeEnds
                       ELSE IF pc["child"] \in {"unborn", "ended"} THEN {} ELSE ChildEnds
    /\ held["probe"] = IF pc["probe"] = "verify" THEN ChildEnds ELSE {}

\* Which processes there are: the child after the host checks only, the second
\* process during one step of the child only, and neither of them once the
\* parent has the end of the result pipe.
Family ==
    /\ pc["child"] = "unborn" =>
         /\ pc["parent"] \in HostPhase \cup {"report", "ended"}
         /\ pc["parent"] = "report" => "namespace_setup" \in failed
         /\ got = NoResult
         /\ pc["probe"] = "unborn" /\ step = 1 /\ sent = "no" /\ ready = "none"
         /\ ack = "none" /\ maps = {}
         /\ verdict \in {"pass", "fail"} => "namespace_setup" \in failed
    /\ pc["parent"] \in HostPhase => pc["child"] = "unborn"
    /\ Collected => /\ pc["child"] \in {"unborn", "ended"}
                    /\ pc["probe"] \in {"unborn", "ended"}
    /\ pc["parent"] = "ended" <=> verdict # "none"
    /\ pc["probe"] = "verify" => pc["child"] \in {"waitprobe", "ended"} /\ step = SurviveExec
    /\ pc["child"] = "waitprobe" => step = SurviveExec /\ pc["probe"] # "unborn"
    /\ pc["child"] \in {"ends", "step", "readack"} /\ step <= SurviveExec => pc["probe"] = "unborn"
    /\ pc["probe"] # "ended" => survived = "unknown"
    /\ pc["probe"] # "unborn" => step >= SurviveExec
    /\ sent = "yes" => pc["child"] = "ended" /\ pc["probe"] # "verify"

\* The handshake: the byte in each pipe belongs to the place of both processes,
\* and the maps to the place of the parent.
Exchange ==
    /\ pc["child"] = "ends" => step = 1
    /\ pc["child"] \in {"ends", "step"} /\ step <= AwaitMapping =>
         ready = "none" /\ ack = "none" /\ pc["parent"] \in {"ends", "readready", "ended"}
    /\ pc["child"] = "readack" =>
         /\ step = AwaitMapping
         /\ \/ ready = "R" /\ ack = "none" /\ pc["parent"] \in {"ends", "readready", "ended"}
            \/ ready = "none" /\ ack = "none" /\ pc["parent"] \in Mapping \cup {"ended"}
            \/ ready = "none" /\ ack # "none" /\ pc["parent"] \in {"receive", "ended"}
    /\ ready = "R" => step = AwaitMapping
    /\ pc["parent"] \in {"ends", "readready"} =>
         /\ ack = "none" /\ step <= AwaitMapping /\ pc["child"] # "unborn"
         /\ pc["child"] = "send" \/ sent = "yes" => step = 1
    /\ pc["parent"] \in Mapping =>
         /\ pc["child"] \in {"readack", "ended"} /\ step = AwaitMapping
         /\ ready = "none" /\ ack = "none" /\ sent = "no"
         /\ pc["child"] = "ended" => trouble = "yes"
    /\ ack # "none" => pc["parent"] \in {"receive", "wait", "report", "ended"}
    /\ step > AwaitMapping => /\ pc["parent"] \in {"receive", "wait", "report", "ended"}
                              /\ ack = "none"
Written ==
    /\ pc["parent"] \in {"ends", "readready", "setgroups"} => maps = {}
    /\ pc["parent"] = "gid" => maps = {"setgroups"}
    /\ pc["parent"] = "uid" => maps = {"setgroups", "gid"}
    /\ pc["parent"] = "acknowledge" => maps = AllMaps
    /\ ack = "A" \/ step > AwaitMapping => maps = AllMaps

\* What the child has to send: the checks of the steps it has done, and the
\* failure of the mount probe exactly if it stopped there.
Progress ==
    /\ done = 1..(step - 1)
    /\ checks = UNION {PassedChecks[i] : i \in 1..(step - 1)}
    /\ step = 13 => pc["child"] \in {"send", "ended"}
MountProbe ==
    /\ fdMount # NoFailure =>
         /\ step = ProbeMounts /\ pc["child"] \in {"send", "ended"}
         /\ fdMount.operation = Operations[operation] /\ fdMount.error \in Errors
    /\ step = ProbeMounts /\ (pc["child"] = "send" \/ sent = "yes") => fdMount # NoFailure

\* What the parent prints.
HostPassed == CASE pc["parent"] = "linux" -> {}
                [] pc["parent"] = "procfs" -> {"linux_kernel"}
                [] pc["parent"] = "privilege" -> {"linux_kernel", "procfs_namespaces"}
                [] pc["parent"] = "sysctl" -> HostChecks \ {"max_user_namespaces", "unprivileged_userns_clone"}
                [] OTHER -> HostChecks
Reported ==
    /\ Collected => got = IF sent = "yes" THEN [checks |-> checks, fdMount |-> fdMount] ELSE NoResult
    /\ passed \subseteq HostChecks \cup (IF verdict \in {"pass", "fail"} THEN got.checks ELSE {})
    /\ verdict \in {"pass", "fail"} =>
         /\ "fd_mount_api" \in failed => "fd_mount_api" \notin got.checks
         /\ "fd_mount_api" \notin got.checks => category = Classify(got.fdMount)
    /\ verdict \notin {"pass", "fail"} => failed \subseteq HostChecks \cup {"namespace_setup"}
    /\ failed = {} /\ verdict \notin {"SIGPIPE", "killed"} => HostPassed \subseteq passed
    /\ verdict = "pass" => failed = {} /\ got.checks = NamespaceChecks /\ NamespaceChecks \subseteq passed

\* A refusal or a signal is on its way to the report as long as the parent has
\* not printed it, and nothing else stops the child.
Doomed == \/ pc["child"] = "ended" /\ (sent = "no" \/ step # 13)
          \/ pc["child"] = "send" /\ step # 13
          \/ pc["child"] = "waitprobe" /\ pc["probe"] = "ended" /\ survived # "yes"
          \/ pc["child"] = "readack" /\ ack = "F"
Fate ==
    /\ trouble = "yes" /\ pc["parent"] # "ended" /\ failed = {} => Doomed
    /\ trouble = "no" => /\ verdict \notin {"killed", "SIGPIPE"}
                         /\ verdict # "fail" => failed = {}
                         /\ ack # "F"
                         /\ pc["child"] \in {"send", "ended"} => step >= SurviveExec
    /\ trouble = "no" /\ sigchld = "default" => ~Doomed /\ verdict # "fail"
    /\ verdict = "pass" => trouble = "no"

IInv == TypeOK /\ Places /\ PipesHeld /\ Family /\ Exchange /\ Written
        /\ Progress /\ MountProbe /\ Reported /\ Fate

\* The checks and steps as the proofs use them.
LEMMA StepFacts ==
  /\ \A i \in Steps : PassedChecks[i] \subseteq NamespaceChecks
  /\ \A i \in Steps : ("old_root_detach" \in PassedChecks[i] <=> i = 12)
                      /\ ("fd_mount_api" \in PassedChecks[i] <=> i = ProbeMounts)
  BY DEF NamespaceChecks, Steps, PassedChecks, ProbeMounts
\* The checks of the host, those of the namespace and namespace_setup are different.
LEMMA CheckFacts ==
  /\ HostChecks \cap NamespaceChecks = {} /\ "namespace_setup" \notin HostChecks \cup NamespaceChecks
  BY DEF NamespaceChecks, Steps, PassedChecks, HostChecks

\* pc after one process has moved to a place of its own.
LEMMA ParentMoved ==
  ASSUME TypeOK, NEW l \in ParentPlaces, pc' = [pc EXCEPT !["parent"] = l]
  PROVE  /\ pc' \in [Procs -> ParentPlaces \cup ChildPlaces \cup ProbePlaces]
         /\ pc'["parent"] = l /\ pc'["child"] = pc["child"] /\ pc'["probe"] = pc["probe"]
  BY DEF TypeOK, Procs
\* A step of the child moves the child only.
LEMMA ChildMoved ==
  ASSUME TypeOK, NEW l \in ChildPlaces, pc' = [pc EXCEPT !["child"] = l]
  PROVE  /\ pc' \in [Procs -> ParentPlaces \cup ChildPlaces \cup ProbePlaces]
         /\ pc'["child"] = l /\ pc'["parent"] = pc["parent"] /\ pc'["probe"] = pc["probe"]
  BY DEF TypeOK, Procs
\* A step of the capability probe moves the probe only.
LEMMA ProbeMoved ==
  ASSUME TypeOK, NEW l \in ProbePlaces, pc' = [pc EXCEPT !["probe"] = l]
  PROVE  /\ pc' \in [Procs -> ParentPlaces \cup ChildPlaces \cup ProbePlaces]
         /\ pc'["probe"] = l /\ pc'["parent"] = pc["parent"] /\ pc'["child"] = pc["child"]
  BY DEF TypeOK, Procs

\* A step of the child that succeeds adds its checks.
LEMMA PassKeeps ==
  ASSUME IInv, Pass, pc["child"] \in {"step", "readack", "waitprobe"},
         pc["child"] = "step" => step \notin {AwaitMapping, SurviveExec},
         IF pc["child"] = "readack" THEN ack = "A" /\ ack' = "none" ELSE ack' = ack,
         pc["child"] = "waitprobe" => survived = "yes" /\ pc["probe"] = "ended",
         UNCHANGED <<held, sigchld, ready, sent, maps, operation, fdMount, survived, reportVars, trouble>>
  PROVE  IInv'
<1> USE DEF AwaitMapping, BecomeRoot, SurviveExec, ProbeMounts
<1>0. TypeOK /\ Places /\ PipesHeld /\ Family /\ Exchange /\ Written /\ Progress
      /\ MountProbe /\ Reported /\ Fate
  BY DEF IInv
<1> USE <1>0
<1>1. /\ step \in Steps
      /\ pc' = [pc EXCEPT !["child"] = IF step = 12 THEN "send" ELSE "step"]
      /\ done' = done \cup {step} /\ checks' = checks \cup PassedChecks[step] /\ step' = step + 1
      /\ UNCHANGED <<held, sigchld, ready, sent, maps, operation, fdMount, survived, got, passed, failed, category, verdict, trouble>>
  BY Zenon DEF Pass, Goto, reportVars, Progress, TypeOK, Steps
<1> USE <1>1
<1>2. /\ pc' \in [Procs -> ParentPlaces \cup ChildPlaces \cup ProbePlaces]
      /\ pc'["child"] = (IF step = 12 THEN "send" ELSE "step")
      /\ pc'["parent"] = pc["parent"] /\ pc'["probe"] = pc["probe"]
  BY ChildMoved, Zenon DEF ChildPlaces
<1> USE <1>2
<1>3. TypeOK'
  BY StepFacts DEF TypeOK, Procs, Steps, Checks
<1>4. Places'
  BY Zenon DEF Places, ParentPlaces, ChildPlaces, ProbePlaces
<1>5. PipesHeld'
  BY DEF PipesHeld, Mapping
<1>6. Family'
  BY DEF Family, Collected, Steps
<1>7. Exchange'
  BY DEF Exchange, Family, Collected, Mapping, Steps
<1>8. Written'
  BY DEF Written, Exchange, Family, Steps
<1>9. Progress'
  <2>1. done = 1..(step - 1) /\ checks = UNION {PassedChecks[i] : i \in 1..(step - 1)}
    BY Zenon DEF Progress
  <2>2. 1..(step' - 1) = (1..(step - 1)) \cup {step} /\ (step' = 13 => step = 12)
    BY DEF Steps
  <2>3. checks' = UNION {PassedChecks[i] : i \in 1..(step' - 1)}
    BY ONLY <2>1, <2>2, <1>1
  <2> QED
    BY <2>1, <2>2, <2>3, Zenon DEF Progress
<1>10. MountProbe'
  BY DEF MountProbe, Family, Steps
<1>11. Reported'
  BY Zenon DEF Reported, HostPassed, Collected, Family
<1>12. Fate'
  BY DEF Fate, Doomed, Steps
<1> QED
  BY <1>3, <1>4, <1>5, <1>6, <1>7, <1>8, <1>9, <1>10, <1>11, <1>12, Zenon DEF IInv

\* An operation that fails is recorded by its name.
LEMMA OperationFacts ==
  ASSUME NEW n \in 1..8, NEW error \in Errors
  PROVE  /\ Operations[n] \in OperationNames /\ Operations[n] # "none"
         /\ [operation |-> Operations[n], error |-> error] \in Failures
  BY DEF Operations, OperationNames, Failures

\* A step of the child that fails leads to the result, for a reason.
LEMMA BreakKeeps ==
  ASSUME IInv, Break, pc["child"] \in {"step", "readack", "waitprobe"},
         pc["child"] = "step" => step # AwaitMapping /\ trouble' = "yes",
         pc["child"] = "readack" => ack = "F" \/ (ack = "none" /\ pc["parent"] = "ended"),
         pc["child"] = "waitprobe" => pc["probe"] = "ended" /\ (survived # "yes" \/ sigchld # "default"),
         ack' = IF pc["child"] = "readack" THEN "none" ELSE ack,
         trouble' = trouble \/ trouble' = "yes",
         NEW error \in Errors,
         fdMount' = IF step = ProbeMounts THEN [operation |-> Operations[operation], error |-> error]
                    ELSE fdMount,
         UNCHANGED <<held, sigchld, ready, sent, maps, operation, survived, reportVars>>
  PROVE  IInv'
<1> USE DEF AwaitMapping, BecomeRoot, SurviveExec, ProbeMounts
<1>0. TypeOK /\ Places /\ PipesHeld /\ Family /\ Exchange /\ Written /\ Progress
      /\ MountProbe /\ Reported /\ Fate
  BY DEF IInv
<1> USE <1>0
<1>1. /\ step \in Steps
      /\ step = ProbeMounts => fdMount' \in Failures /\ fdMount'.operation = Operations[operation]
           /\ fdMount'.error = error /\ fdMount' # NoFailure
      /\ step # ProbeMounts => fdMount' = fdMount
      /\ trouble' \in {"no", "yes"}
      /\ fdMount = NoFailure
      /\ pc' = [pc EXCEPT !["child"] = "send"]
      /\ UNCHANGED <<held, sigchld, ready, sent, maps, step, checks, done, operation, survived, got, passed, failed, category, verdict>>
  <2>1. step \in Steps /\ operation \in 1..8 /\ trouble \in {"no", "yes"} /\ fdMount = NoFailure
    BY Zenon DEF Progress, TypeOK, MountProbe
  <2>2. step = ProbeMounts => fdMount' \in Failures /\ fdMount'.operation = Operations[operation]
           /\ fdMount'.error = error /\ fdMount' # NoFailure
    BY <2>1, OperationFacts, Zenon DEF NoFailure
  <2> QED
    BY <2>1, <2>2, Zenon DEF Break, Goto, reportVars
<1> USE <1>1
<1>2. /\ pc' \in [Procs -> ParentPlaces \cup ChildPlaces \cup ProbePlaces]
      /\ pc'["child"] = "send"
      /\ pc'["parent"] = pc["parent"] /\ pc'["probe"] = pc["probe"]
  BY ChildMoved, Zenon DEF ChildPlaces
<1> USE <1>2
<1>3. TypeOK'
  BY StepFacts, Zenon DEF TypeOK
<1>4. Places'
  BY Zenon DEF Places, ParentPlaces, ChildPlaces, ProbePlaces
<1>5. PipesHeld'
  BY Zenon DEF PipesHeld, Mapping
<1>6. Family'
  BY Zenon DEF Family, Collected, HostPhase
<1>7. Exchange'
  BY DEF Exchange, Family, Mapping, Steps
<1>8. Written'
  BY Zenon DEF Written
<1>9. Progress'
  BY Zenon DEF Progress
<1>10. MountProbe'
  BY Zenon DEF MountProbe, Family
<1>11. Reported'
  BY Zenon DEF Reported, HostPassed, Collected, Family
<1>12. Fate'
  BY DEF Fate, Doomed, Family, Collected, Steps, TypeOK
<1> QED
  BY <1>3, <1>4, <1>5, <1>6, <1>7, <1>8, <1>9, <1>10, <1>11, <1>12, Zenon DEF IInv

\* One line of the host checks.
LEMMA LineKeeps ==
  ASSUME IInv, NEW ok \in BOOLEAN, NEW here, NEW check, NEW next, Line(here, check, ok, next),
         <<here, check, next>> \in {<<"linux", "linux_kernel", "procfs">>,
                                    <<"procfs", "procfs_namespaces", "privilege">>,
                                    <<"privilege", "initial_privilege", "sysctl">>}
  PROVE  IInv'
<1> USE DEF AwaitMapping, BecomeRoot, SurviveExec, ProbeMounts
<1>0. TypeOK /\ Places /\ PipesHeld /\ Family /\ Exchange /\ Written /\ Progress
      /\ MountProbe /\ Reported /\ Fate
  BY DEF IInv
<1> USE <1>0
<1>1. /\ pc["parent"] = here /\ pc' = [pc EXCEPT !["parent"] = next]
      /\ check \in HostChecks /\ here \in HostPhase /\ here # "sysctl" /\ next \in HostPhase
      /\ verdict = "none"
      /\ \/ passed' = passed \cup {check} /\ UNCHANGED <<failed, trouble>>
         \/ failed' = failed \cup {check} /\ trouble' = "yes" /\ UNCHANGED passed
      /\ UNCHANGED <<held, sigchld, ready, ack, sent, maps, step, checks, done, operation, fdMount, survived, got, category, verdict>>
  BY Zenon DEF Line, At, Goto, Refused, pipeVars, childVars, HostPhase, HostChecks, Family
<1> USE <1>1
<1>2. /\ pc' \in [Procs -> ParentPlaces \cup ChildPlaces \cup ProbePlaces]
      /\ pc'["parent"] = next
      /\ pc'["child"] = pc["child"]
      /\ pc'["probe"] = pc["probe"]
  BY ParentMoved, Zenon DEF ParentPlaces, HostPhase
<1> USE <1>2
<1>3. TypeOK'
  BY StepFacts DEF TypeOK, Procs, Steps, Checks
<1>4. Places'
  BY Zenon DEF Places, HostPhase, ParentPlaces
<1>5. PipesHeld'
  BY Zenon DEF PipesHeld, Mapping, HostPhase
<1>6. Family'
  BY Zenon DEF Family, Collected, HostPhase
<1>7. Exchange'
  BY Zenon DEF Exchange, Family, Mapping, HostPhase
<1>8. Written'
  BY Zenon DEF Written, Family, HostPhase
<1>9. Progress'
  BY Zenon DEF Progress
<1>10. MountProbe'
  BY Zenon DEF MountProbe, Family
<1>11. Reported'
  BY Zenon DEF Reported, HostPassed, HostChecks, Collected, HostPhase
<1>12. Fate'
  BY Zenon DEF Fate, Doomed, HostPhase
<1> QED
  BY <1>3, <1>4, <1>5, <1>6, <1>7, <1>8, <1>9, <1>10, <1>11, <1>12, Zenon DEF IInv

\* The two lines about the limits on user namespaces.
LEMMA SysctlKeeps ==
  ASSUME IInv, CheckSysctl
  PROVE  IInv'
<1> USE DEF AwaitMapping, BecomeRoot, SurviveExec, ProbeMounts
<1>0. TypeOK /\ Places /\ PipesHeld /\ Family /\ Exchange /\ Written /\ Progress
      /\ MountProbe /\ Reported /\ Fate
  BY DEF IInv
<1> USE <1>0
<1>1. /\ pc["parent"] = "sysctl" /\ pc' = [pc EXCEPT !["parent"] = "start"]
      /\ verdict = "none"
      /\ \E printed \in SUBSET HostChecks, good \in SUBSET HostChecks :
           /\ passed' = passed \cup (printed \cap good) /\ failed' = failed \cup (printed \ good)
           /\ trouble' = IF printed \subseteq good THEN trouble ELSE "yes"
           /\ printed \subseteq good => {"max_user_namespaces", "unprivileged_userns_clone"} \subseteq printed
      /\ UNCHANGED <<held, sigchld, ready, ack, sent, maps, step, checks, done, operation, fdMount, survived, got, category, verdict>>
  <2> DEFINE Printed(max) == {"max_user_namespaces"} \cup
                               (IF max = "toolong" THEN {} ELSE {"unprivileged_userns_clone"})
             Good(max, clone) == (IF max = "positive" THEN {"max_user_namespaces"} ELSE {}) \cup
                                 (IF clone \in {"missing", "positive"}
                                  THEN {"unprivileged_userns_clone"} ELSE {})
  <2>1. PICK max \in {"toolong", "unreadable", "zero", "positive"},
             clone \in {"missing", "unreadable", "zero", "positive"} :
               /\ passed' = passed \cup (Printed(max) \cap Good(max, clone))
               /\ failed' = failed \cup (Printed(max) \ Good(max, clone))
               /\ trouble' = IF Printed(max) \subseteq Good(max, clone) THEN trouble ELSE "yes"
    BY Zenon DEF CheckSysctl
  <2>2. /\ Printed(max) \in SUBSET HostChecks /\ Good(max, clone) \in SUBSET HostChecks
        /\ Printed(max) \subseteq Good(max, clone)
             => {"max_user_namespaces", "unprivileged_userns_clone"} \subseteq Printed(max)
    BY DEF HostChecks
  <2>3. \E printed \in SUBSET HostChecks, good \in SUBSET HostChecks :
           /\ passed' = passed \cup (printed \cap good) /\ failed' = failed \cup (printed \ good)
           /\ trouble' = IF printed \subseteq good THEN trouble ELSE "yes"
           /\ printed \subseteq good => {"max_user_namespaces", "unprivileged_userns_clone"} \subseteq printed
    <3> HIDE DEF Printed, Good
    <3> QED BY <2>1, <2>2
  <2>4. /\ pc["parent"] = "sysctl" /\ pc' = [pc EXCEPT !["parent"] = "start"]
        /\ UNCHANGED <<held, sigchld, pipeVars, maps, childVars, got, category, verdict>>
    BY DEF CheckSysctl, At, Goto
  <2>5. verdict = "none"
    BY <2>4, Zenon DEF Family
  <2> QED
    BY <2>3, <2>4, <2>5, Zenon DEF pipeVars, childVars
<1> USE <1>1
<1>2. /\ pc' \in [Procs -> ParentPlaces \cup ChildPlaces \cup ProbePlaces]
      /\ pc'["parent"] = "start"
      /\ pc'["child"] = pc["child"]
      /\ pc'["probe"] = pc["probe"]
  BY ParentMoved, Zenon DEF ParentPlaces
<1> USE <1>2
<1>3. TypeOK'
  BY StepFacts DEF TypeOK, Procs, Steps, Checks
<1>4. Places'
  BY Zenon DEF Places, ParentPlaces
<1>5. PipesHeld'
  BY Zenon DEF PipesHeld, Mapping
<1>6. Family'
  BY Zenon DEF Family, Collected, HostPhase
<1>7. Exchange'
  BY Zenon DEF Exchange, Family, Mapping, HostPhase
<1>8. Written'
  BY Zenon DEF Written, Family, HostPhase
<1>9. Progress'
  BY Zenon DEF Progress
<1>10. MountProbe'
  BY Zenon DEF MountProbe, Family
<1>11. Reported'
  BY DEF Reported, HostPassed, HostChecks, Collected
<1>12. Fate'
  BY Zenon DEF Fate, Doomed
<1> QED
  BY <1>3, <1>4, <1>5, <1>6, <1>7, <1>8, <1>9, <1>10, <1>11, <1>12, Zenon DEF IInv

\* The fork of the child.
LEMMA StartKeeps ==
  ASSUME IInv, StartSetup
  PROVE  IInv'
<1> USE DEF AwaitMapping, BecomeRoot, SurviveExec, ProbeMounts
<1>0. TypeOK /\ Places /\ PipesHeld /\ Family /\ Exchange /\ Written /\ Progress
      /\ MountProbe /\ Reported /\ Fate
  BY DEF IInv
<1> USE <1>0
<1>1. /\ pc["parent"] = "start" /\ pc' = [pc EXCEPT !["parent"] = "ends", !["child"] = "ends"]
      /\ held' = [held EXCEPT !["parent"] = PipeEnds, !["child"] = PipeEnds]
      /\ verdict = "none" /\ pc["child"] = "unborn"
      /\ UNCHANGED <<sigchld, ready, ack, sent, maps, step, checks, done, operation, fdMount, survived, got, passed, failed, category, verdict, trouble>>
  BY Zenon DEF StartSetup, At, Goto, pipeVars, childVars, reportVars, HostPhase, Family
<1> USE <1>1
<1>2. /\ pc' \in [Procs -> ParentPlaces \cup ChildPlaces \cup ProbePlaces]
      /\ pc'["parent"] = "ends"
      /\ pc'["child"] = "ends"
      /\ pc'["probe"] = pc["probe"]
  <2>1. "ends" \in ParentPlaces
    BY DEF ParentPlaces
  <2> QED
    BY <2>1, Zenon DEF Procs, TypeOK
<1> USE <1>2
<1>3. /\ held' \in [Procs -> SUBSET PipeEnds]
      /\ held'["parent"] = PipeEnds
      /\ held'["child"] = PipeEnds
      /\ held'["probe"] = held["probe"]
  BY Zenon DEF TypeOK, Procs
<1>4. TypeOK'
  BY <1>3, StepFacts DEF TypeOK, Procs, Steps, Checks
<1>5. Places'
  BY Zenon DEF Places, ParentPlaces, ChildPlaces, ProbePlaces
<1>6. PipesHeld'
  BY <1>3, Zenon DEF PipesHeld, Mapping
<1>7. Family'
  BY Zenon DEF Family, Collected, HostPhase
<1>8. Exchange'
  BY DEF Exchange, Family, Collected, Mapping, HostPhase
<1>9. Written'
  BY Zenon DEF Written, Family
<1>10. Progress'
  BY Zenon DEF Progress
<1>11. MountProbe'
  BY Zenon DEF MountProbe, Family
<1>12. Reported'
  BY Zenon DEF Reported, HostPassed, Collected, Family
<1>13. Fate'
  BY Zenon DEF Fate, Doomed, Family, Collected
<1> QED
  BY <1>4, <1>5, <1>6, <1>7, <1>8, <1>9, <1>10, <1>11, <1>12, <1>13, Zenon DEF IInv

\* The setup cannot be started.
LEMMA CannotStartKeeps ==
  ASSUME IInv, CannotStart
  PROVE  IInv'
<1> USE DEF AwaitMapping, BecomeRoot, SurviveExec, ProbeMounts
<1>0. TypeOK /\ Places /\ PipesHeld /\ Family /\ Exchange /\ Written /\ Progress
      /\ MountProbe /\ Reported /\ Fate
  BY DEF IInv
<1> USE <1>0
<1>1. /\ pc["parent"] = "start" /\ pc' = [pc EXCEPT !["parent"] = "report"]
      /\ failed' = failed \cup {"namespace_setup"} /\ trouble' = "yes"
      /\ verdict = "none" /\ pc["child"] = "unborn"
      /\ UNCHANGED <<held, sigchld, ready, ack, sent, maps, step, checks, done, operation, fdMount, survived, got, passed, category, verdict>>
  BY Zenon DEF CannotStart, Refused, At, Goto, pipeVars, childVars, reportVars, HostPhase, Family
<1> USE <1>1
<1>2. /\ pc' \in [Procs -> ParentPlaces \cup ChildPlaces \cup ProbePlaces]
      /\ pc'["parent"] = "report"
      /\ pc'["child"] = pc["child"]
      /\ pc'["probe"] = pc["probe"]
  BY ParentMoved, Zenon DEF ParentPlaces
<1> USE <1>2
<1>3. TypeOK'
  BY StepFacts, Zenon DEF TypeOK, Procs, Steps, Checks
<1>4. Places'
  BY DEF Places, ParentPlaces, ChildPlaces, ProbePlaces
<1>5. PipesHeld'
  BY Zenon DEF PipesHeld, Mapping
<1>6. Family'
  BY Zenon DEF Family, Collected, HostPhase
<1>7. Exchange'
  BY Zenon DEF Exchange, Family, Collected, Mapping, HostPhase
<1>8. Written'
  BY DEF Written
<1>9. Progress'
  BY Zenon DEF Progress
<1>10. MountProbe'
  BY Zenon DEF MountProbe, Family
<1>11. Reported'
  BY Zenon DEF Reported, HostPassed, Collected, Family
<1>12. Fate'
  BY Zenon DEF Fate, Doomed, Family, Collected
<1> QED
  BY <1>3, <1>4, <1>5, <1>6, <1>7, <1>8, <1>9, <1>10, <1>11, <1>12, Zenon DEF IInv

\* The parent closes the child's ends.
LEMMA ParentClosesKeeps ==
  ASSUME IInv, ParentCloses
  PROVE  IInv'
<1> USE DEF AwaitMapping, BecomeRoot, SurviveExec, ProbeMounts
<1>0. TypeOK /\ Places /\ PipesHeld /\ Family /\ Exchange /\ Written /\ Progress
      /\ MountProbe /\ Reported /\ Fate
  BY DEF IInv
<1> USE <1>0
<1>1. /\ pc["parent"] = "ends" /\ pc' = [pc EXCEPT !["parent"] = "readready"]
      /\ held' = [held EXCEPT !["parent"] = @ \ {"readyW", "ackR", "resultW"}]
      /\ UNCHANGED <<sigchld, ready, ack, sent, maps, step, checks, done, operation, fdMount, survived, got, passed, failed, category, verdict, trouble>>
  BY DEF ParentCloses, At, Goto, pipeVars, childVars, reportVars
<1> USE <1>1
<1>2. /\ pc' \in [Procs -> ParentPlaces \cup ChildPlaces \cup ProbePlaces]
      /\ pc'["parent"] = "readready"
      /\ pc'["child"] = pc["child"]
      /\ pc'["probe"] = pc["probe"]
  BY ParentMoved, Zenon DEF ParentPlaces
<1> USE <1>2
<1>3. /\ held' \in [Procs -> SUBSET PipeEnds]
      /\ held'["parent"] = held["parent"] \ {"readyW", "ackR", "resultW"}
      /\ held'["child"] = held["child"]
      /\ held'["probe"] = held["probe"]
  BY Zenon DEF TypeOK, Procs
<1>4. TypeOK'
  BY <1>3, StepFacts DEF TypeOK, Procs, Steps, Checks
<1>5. Places'
  BY Zenon DEF Places, ParentPlaces, ChildPlaces, ProbePlaces
<1>6. PipesHeld'
  BY <1>3 DEF PipesHeld, PipeEnds, Mapping
<1>7. Family'
  BY Zenon DEF Family, Collected, HostPhase
<1>8. Exchange'
  BY Zenon DEF Exchange, Family, Collected, Mapping, HostPhase
<1>9. Written'
  BY Zenon DEF Written
<1>10. Progress'
  BY Zenon DEF Progress
<1>11. MountProbe'
  BY Zenon DEF MountProbe, Family
<1>12. Reported'
  BY Zenon DEF Reported, HostPassed, Collected, Family
<1>13. Fate'
  BY Zenon DEF Fate, Doomed, Family, Collected
<1> QED
  BY <1>4, <1>5, <1>6, <1>7, <1>8, <1>9, <1>10, <1>11, <1>12, <1>13, Zenon DEF IInv

\* The child closes the parent's ends.
LEMMA ChildClosesKeeps ==
  ASSUME IInv, ChildCloses
  PROVE  IInv'
<1> USE DEF AwaitMapping, BecomeRoot, SurviveExec, ProbeMounts
<1>0. TypeOK /\ Places /\ PipesHeld /\ Family /\ Exchange /\ Written /\ Progress
      /\ MountProbe /\ Reported /\ Fate
  BY DEF IInv
<1> USE <1>0
<1>1. /\ pc["child"] = "ends" /\ pc' = [pc EXCEPT !["child"] = "step"]
      /\ held' = [held EXCEPT !["child"] = @ \ {"readyR", "ackW", "resultR"}]
      /\ UNCHANGED <<sigchld, ready, ack, sent, maps, step, checks, done, operation, fdMount, survived, got, passed, failed, category, verdict, trouble>>
  BY DEF ChildCloses, At, Goto, pipeVars, childVars, reportVars
<1> USE <1>1
<1>2. /\ pc' \in [Procs -> ParentPlaces \cup ChildPlaces \cup ProbePlaces]
      /\ pc'["parent"] = pc["parent"]
      /\ pc'["child"] = "step"
      /\ pc'["probe"] = pc["probe"]
  BY ChildMoved, Zenon DEF ChildPlaces
<1> USE <1>2
<1>3. /\ held' \in [Procs -> SUBSET PipeEnds]
      /\ held'["parent"] = held["parent"]
      /\ held'["child"] = held["child"] \ {"readyR", "ackW", "resultR"}
      /\ held'["probe"] = held["probe"]
  BY Zenon DEF TypeOK, Procs
<1>4. TypeOK'
  BY <1>3, StepFacts DEF TypeOK, Procs, Steps, Checks
<1>5. Places'
  BY Zenon DEF Places, ParentPlaces, ChildPlaces, ProbePlaces
<1>6. PipesHeld'
  BY <1>3 DEF PipesHeld, PipeEnds, ChildEnds
<1>7. Family'
  BY Zenon DEF Family, Collected, HostPhase
<1>8. Exchange'
  BY Zenon DEF Exchange, Family, Collected, Mapping, HostPhase
<1>9. Written'
  BY Zenon DEF Written
<1>10. Progress'
  BY Zenon DEF Progress
<1>11. MountProbe'
  BY Zenon DEF MountProbe, Family
<1>12. Reported'
  BY Zenon DEF Reported, HostPassed, Collected, Family
<1>13. Fate'
  BY Zenon DEF Fate, Doomed, Family, Collected
<1> QED
  BY <1>4, <1>5, <1>6, <1>7, <1>8, <1>9, <1>10, <1>11, <1>12, <1>13, Zenon DEF IInv

\* One file of /proc/<child> is written.
LEMMA WriteFileKeeps ==
  ASSUME IInv, NEW file, NEW next, WriteFile(file, next),
         <<file, next>> \in {<<"setgroups", "gid">>, <<"gid", "uid">>, <<"uid", "acknowledge">>}
  PROVE  IInv'
<1> USE DEF AwaitMapping, BecomeRoot, SurviveExec, ProbeMounts
<1>0. TypeOK /\ Places /\ PipesHeld /\ Family /\ Exchange /\ Written /\ Progress
      /\ MountProbe /\ Reported /\ Fate
  BY DEF IInv
<1> USE <1>0
<1>1. /\ pc["parent"] = file /\ pc' = [pc EXCEPT !["parent"] = next]
      /\ file \in Mapping /\ next \in Mapping /\ file # "acknowledge" /\ next # "setgroups"
      /\ maps' = maps \cup {file}
      /\ UNCHANGED <<held, sigchld, ready, ack, sent, step, checks, done, operation, fdMount, survived, got, passed, failed, category, verdict, trouble>>
  BY DEF WriteFile, At, Goto, pipeVars, childVars, reportVars, Mapping
<1> USE <1>1
<1>2. /\ pc' \in [Procs -> ParentPlaces \cup ChildPlaces \cup ProbePlaces]
      /\ pc'["parent"] = next
      /\ pc'["child"] = pc["child"]
      /\ pc'["probe"] = pc["probe"]
  BY ParentMoved, Zenon DEF ParentPlaces, Mapping
<1> USE <1>2
<1>3. TypeOK'
  BY StepFacts DEF TypeOK, Mapping
<1>4. Places'
  BY Zenon DEF Places, ParentPlaces, Mapping
<1>5. PipesHeld'
  BY Zenon DEF PipesHeld, Mapping
<1>6. Family'
  BY Zenon DEF Family, Collected, HostPhase, Mapping
<1>7. Exchange'
  BY Zenon DEF Exchange, Family, Collected, Mapping, HostPhase
<1>8. Written'
  BY Zenon DEF Written, Exchange, Mapping, AllMaps
<1>9. Progress'
  BY Zenon DEF Progress
<1>10. MountProbe'
  BY Zenon DEF MountProbe, Family
<1>11. Reported'
  BY Zenon DEF Reported, HostPassed, Collected, Mapping
<1>12. Fate'
  BY Zenon DEF Fate, Doomed, Mapping
<1> QED
  BY <1>3, <1>4, <1>5, <1>6, <1>7, <1>8, <1>9, <1>10, <1>11, <1>12, Zenon DEF IInv

\* The parent waits for the child.
LEMMA WaitKeeps ==
  ASSUME IInv, WaitForChild
  PROVE  IInv'
<1> USE DEF AwaitMapping, BecomeRoot, SurviveExec, ProbeMounts
<1>0. TypeOK /\ Places /\ PipesHeld /\ Family /\ Exchange /\ Written /\ Progress
      /\ MountProbe /\ Reported /\ Fate
  BY DEF IInv
<1> USE <1>0
<1>1. /\ pc["parent"] = "wait" /\ pc' = [pc EXCEPT !["parent"] = "report"]
      /\ pc["child"] = "ended"
      /\ UNCHANGED <<held, sigchld, ready, ack, sent, maps, step, checks, done, operation, fdMount, survived, got, passed, failed, category, verdict, trouble>>
  BY DEF WaitForChild, At, Goto, pipeVars, childVars, reportVars
<1> USE <1>1
<1>2. /\ pc' \in [Procs -> ParentPlaces \cup ChildPlaces \cup ProbePlaces]
      /\ pc'["parent"] = "report"
      /\ pc'["child"] = pc["child"]
      /\ pc'["probe"] = pc["probe"]
  BY ParentMoved, Zenon DEF ParentPlaces
<1> USE <1>2
<1>3. TypeOK'
  BY StepFacts DEF TypeOK, Procs, Steps, Checks
<1>4. Places'
  BY Zenon DEF Places, ParentPlaces, ChildPlaces, ProbePlaces
<1>5. PipesHeld'
  BY Zenon DEF PipesHeld, Mapping
<1>6. Family'
  BY Zenon DEF Family, Collected, HostPhase
<1>7. Exchange'
  BY Zenon DEF Exchange, Family, Collected, Mapping, HostPhase
<1>8. Written'
  BY Zenon DEF Written
<1>9. Progress'
  BY DEF Progress
<1>10. MountProbe'
  BY Zenon DEF MountProbe, Family
<1>11. Reported'
  BY Zenon DEF Reported, HostPassed, Collected, Family
<1>12. Fate'
  BY Zenon DEF Fate, Doomed, Family, Collected
<1> QED
  BY <1>3, <1>4, <1>5, <1>6, <1>7, <1>8, <1>9, <1>10, <1>11, <1>12, Zenon DEF IInv

\* The child forks the process that checks the capabilities.
LEMMA ForkProbeKeeps ==
  ASSUME IInv, ForkProbe
  PROVE  IInv'
<1> USE DEF AwaitMapping, BecomeRoot, SurviveExec, ProbeMounts
<1>0. TypeOK /\ Places /\ PipesHeld /\ Family /\ Exchange /\ Written /\ Progress
      /\ MountProbe /\ Reported /\ Fate
  BY DEF IInv
<1> USE <1>0
<1>1. /\ pc["child"] = "step" /\ step = SurviveExec
      /\ pc' = [pc EXCEPT !["child"] = "waitprobe", !["probe"] = "verify"]
      /\ held' = [held EXCEPT !["probe"] = held["child"]]
      /\ UNCHANGED <<sigchld, ready, ack, sent, maps, step, checks, done, operation, fdMount, survived, got, passed, failed, category, verdict, trouble>>
  BY DEF ForkProbe, At, Goto, pipeVars, childVars, reportVars
<1> USE <1>1
<1>2. /\ pc' \in [Procs -> ParentPlaces \cup ChildPlaces \cup ProbePlaces]
      /\ pc'["parent"] = pc["parent"]
      /\ pc'["child"] = "waitprobe"
      /\ pc'["probe"] = "verify"
  <2>1. "waitprobe" \in ChildPlaces /\ "verify" \in ProbePlaces
    BY DEF ChildPlaces, ProbePlaces
  <2> QED
    BY <2>1, Zenon DEF Procs, TypeOK
<1> USE <1>2
<1>3. /\ held' \in [Procs -> SUBSET PipeEnds]
      /\ held'["parent"] = held["parent"]
      /\ held'["child"] = held["child"]
      /\ held'["probe"] = held["child"]
  BY Zenon DEF TypeOK, Procs
<1>4. TypeOK'
  BY <1>3, StepFacts DEF TypeOK, Procs, Steps, Checks
<1>5. Places'
  BY Zenon DEF Places, ParentPlaces, ChildPlaces, ProbePlaces
<1>6. PipesHeld'
  BY <1>3, Zenon DEF PipesHeld, Mapping
<1>7. Family'
  BY DEF Family, Collected, HostPhase
<1>8. Exchange'
  BY Zenon DEF Exchange, Family, Collected, Mapping, HostPhase
<1>9. Written'
  BY Zenon DEF Written
<1>10. Progress'
  BY Zenon DEF Progress
<1>11. MountProbe'
  BY Zenon DEF MountProbe, Family
<1>12. Reported'
  BY Zenon DEF Reported, HostPassed, Collected, Family
<1>13. Fate'
  BY Zenon DEF Fate, Doomed, Family, Collected
<1> QED
  BY <1>4, <1>5, <1>6, <1>7, <1>8, <1>9, <1>10, <1>11, <1>12, <1>13, Zenon DEF IInv

\* That process inspects its capabilities and ends.
LEMMA ProbeKeeps ==
  ASSUME IInv, ProbeVerifies
  PROVE  IInv'
<1> USE DEF AwaitMapping, BecomeRoot, SurviveExec, ProbeMounts
<1>0. TypeOK /\ Places /\ PipesHeld /\ Family /\ Exchange /\ Written /\ Progress
      /\ MountProbe /\ Reported /\ Fate
  BY DEF IInv
<1> USE <1>0
<1>1. /\ pc["probe"] = "verify" /\ pc' = [pc EXCEPT !["probe"] = "ended"]
      /\ held' = [held EXCEPT !["probe"] = {}]
      /\ survived' \in {"yes", "no"} /\ trouble' = (IF survived' = "yes" THEN trouble ELSE "yes")
      /\ UNCHANGED <<sigchld, ready, ack, sent, maps, step, checks, done, operation, fdMount, got, passed, failed, category, verdict>>
  BY DEF ProbeVerifies, End, At, Goto, pipeVars, childVars, reportVars
<1> USE <1>1
<1>2. /\ pc' \in [Procs -> ParentPlaces \cup ChildPlaces \cup ProbePlaces]
      /\ pc'["parent"] = pc["parent"]
      /\ pc'["child"] = pc["child"]
      /\ pc'["probe"] = "ended"
  BY ProbeMoved, Zenon DEF ProbePlaces
<1> USE <1>2
<1>3. /\ held' \in [Procs -> SUBSET PipeEnds]
      /\ held'["parent"] = held["parent"]
      /\ held'["child"] = held["child"]
      /\ held'["probe"] = {}
  BY Zenon DEF TypeOK, Procs
<1>4. TypeOK'
  BY <1>3, StepFacts DEF TypeOK, Procs, Steps, Checks
<1>5. Places'
  BY Zenon DEF Places, ParentPlaces, ChildPlaces, ProbePlaces
<1>6. PipesHeld'
  BY <1>3, Zenon DEF PipesHeld, Mapping
<1>7. Family'
  BY Zenon DEF Family, Collected, HostPhase
<1>8. Exchange'
  BY Zenon DEF Exchange, Family, Collected, Mapping, HostPhase
<1>9. Written'
  BY Zenon DEF Written
<1>10. Progress'
  BY Zenon DEF Progress
<1>11. MountProbe'
  BY Zenon DEF MountProbe, Family
<1>12. Reported'
  BY Zenon DEF Reported, HostPassed, Collected, Family
<1>13. Fate'
  BY DEF Fate, Doomed, Family, Collected
<1> QED
  BY <1>4, <1>5, <1>6, <1>7, <1>8, <1>9, <1>10, <1>11, <1>12, <1>13, Zenon DEF IInv

\* An operation of the mount probe succeeds.
LEMMA OperationKeeps ==
  ASSUME IInv, operation < 8, operation' = operation + 1, UNCHANGED <<pc, step, checks, done>>,
         pc["child"] = "step", step = ProbeMounts,
         UNCHANGED <<held, sigchld, pipeVars, maps, fdMount, survived, reportVars, trouble>>
  PROVE  IInv'
<1> USE DEF AwaitMapping, BecomeRoot, SurviveExec, ProbeMounts
<1>0. TypeOK /\ Places /\ PipesHeld /\ Family /\ Exchange /\ Written /\ Progress
      /\ MountProbe /\ Reported /\ Fate
  BY DEF IInv
<1> USE <1>0
<1>1. /\ operation' \in 1..8 /\ fdMount = NoFailure
      /\ UNCHANGED <<held, sigchld, ready, ack, sent, maps, step, checks, done, fdMount, survived, got, passed, failed, category, verdict, trouble>>
  BY DEF TypeOK, MountProbe, pipeVars, reportVars
<1> USE <1>1
<1>2. /\ pc' \in [Procs -> ParentPlaces \cup ChildPlaces \cup ProbePlaces]
      /\ pc'["parent"] = pc["parent"]
      /\ pc'["child"] = pc["child"]
      /\ pc'["probe"] = pc["probe"]
  BY Zenon DEF TypeOK
<1> USE <1>2
<1>3. TypeOK'
  BY StepFacts DEF TypeOK, Procs, Steps, Checks
<1>4. Places'
  BY Zenon DEF Places, ParentPlaces, ChildPlaces, ProbePlaces
<1>5. PipesHeld'
  BY Zenon DEF PipesHeld, Mapping
<1>6. Family'
  BY Zenon DEF Family, Collected, HostPhase
<1>7. Exchange'
  BY Zenon DEF Exchange, Family, Collected, Mapping, HostPhase
<1>8. Written'
  BY Zenon DEF Written
<1>9. Progress'
  BY Zenon DEF Progress
<1>10. MountProbe'
  BY Zenon DEF MountProbe, Family
<1>11. Reported'
  BY Zenon DEF Reported, HostPassed, Collected, Family
<1>12. Fate'
  BY Zenon DEF Fate, Doomed, Family, Collected
<1> QED
  BY <1>3, <1>4, <1>5, <1>6, <1>7, <1>8, <1>9, <1>10, <1>11, <1>12, Zenon DEF IInv

\* The child has all checks when it has done all steps, and only then.
LEMMA AllSteps ==
  ASSUME TypeOK, Progress
  PROVE  /\ step = 13 <=> checks = NamespaceChecks
         /\ "fd_mount_api" \in checks <=> step > ProbeMounts
<1>1. step \in 1..13 /\ \A i \in 1..(step - 1) : i \in Steps
  BY DEF TypeOK, Steps
<1>2. "old_root_detach" \in NamespaceChecks /\ NamespaceChecks = UNION {PassedChecks[i] : i \in Steps}
  BY StepFacts DEF NamespaceChecks, Steps
<1>3. ASSUME "old_root_detach" \in checks PROVE step = 13
  <2>1. PICK i \in 1..(step - 1) : "old_root_detach" \in PassedChecks[i]
    BY <1>3, Zenon DEF Progress
  <2>2. i = 12
    BY <1>1, <2>1, StepFacts, Zenon
  <2> QED
    BY <1>1, <2>2
<1>4. ASSUME "fd_mount_api" \in checks PROVE step > ProbeMounts
  <2>1. PICK i \in 1..(step - 1) : "fd_mount_api" \in PassedChecks[i]
    BY <1>4, Zenon DEF Progress
  <2>2. i = ProbeMounts
    BY <1>1, <2>1, StepFacts, Zenon
  <2> QED
    BY <1>1, <2>2
<1>5. step > ProbeMounts => "fd_mount_api" \in checks
  BY <1>1, StepFacts DEF Progress, Steps, ProbeMounts
<1>6. step = 13 => checks = NamespaceChecks
  BY <1>2 DEF Progress, Steps
<1> QED
  BY Zenon, <1>2, <1>3, <1>4, <1>5, <1>6

\* Who has which end of a pipe open.
LEMMA OpenEnds ==
  ASSUME Places, PipesHeld
  PROVE  /\ Open("readyW") <=> \/ pc["parent"] = "ends" \/ pc["child"] \notin {"unborn", "ended"}
                               \/ pc["probe"] = "verify"
         /\ Open("resultW") <=> Open("readyW")
         /\ Open("ackR") <=> Open("readyW")
         /\ Open("readyR") <=> \/ pc["parent"] \in Mapping \cup {"ends", "readready"} \/ pc["child"] = "ends"
         /\ Open("ackW") <=> Open("readyR")
         /\ Open("resultR") <=> \/ pc["parent"] \in Mapping \cup {"ends", "readready", "receive"}
                                \/ pc["child"] = "ends"
<1>1. \A end : Open(end) <=> end \in held["parent"] \/ end \in held["child"] \/ end \in held["probe"]
  BY DEF Open, Procs
<1>2. /\ Open("readyW") <=> \/ pc["parent"] = "ends" \/ pc["child"] \notin {"unborn", "ended"}
                            \/ pc["probe"] = "verify"
      /\ Open("resultW") <=> Open("readyW")
      /\ Open("ackR") <=> Open("readyW")
  BY <1>1 DEF PipesHeld, PipeEnds, ChildEnds
<1>3. /\ Open("readyR") <=> \/ pc["parent"] \in Mapping \cup {"ends", "readready"} \/ pc["child"] = "ends"
      /\ Open("ackW") <=> Open("readyR")
      /\ Open("resultR") <=> \/ pc["parent"] \in Mapping \cup {"ends", "readready", "receive"}
                             \/ pc["child"] = "ends"
  BY <1>1 DEF PipesHeld, PipeEnds, ChildEnds
<1> QED
  BY Zenon, <1>2, <1>3

\* The parent reads the byte of the child.
LEMMA ReadByteKeeps ==
  ASSUME IInv, pc["parent"] = "readready", ready = "R", ready' = "none", Goto("parent", "setgroups"),
         UNCHANGED <<held, sigchld, ack, sent, maps, childVars, reportVars, trouble>>
  PROVE  IInv'
<1> USE DEF AwaitMapping, BecomeRoot, SurviveExec, ProbeMounts
<1>0. TypeOK /\ Places /\ PipesHeld /\ Family /\ Exchange /\ Written /\ Progress
      /\ MountProbe /\ Reported /\ Fate
  BY DEF IInv
<1> USE <1>0
<1>1. /\ pc' = [pc EXCEPT !["parent"] = "setgroups"]
      /\ step = AwaitMapping /\ sent = "no" /\ ack = "none"
      /\ pc["child"] \in {"readack", "ended"}
      /\ pc["child"] = "ended" => trouble = "yes" /\ pc["probe"] = "unborn"
      /\ UNCHANGED <<held, sigchld, ack, sent, maps, step, checks, done, operation, fdMount, survived, got, passed, failed, category, verdict, trouble>>
  <2>1. /\ pc' = [pc EXCEPT !["parent"] = "setgroups"]
        /\ UNCHANGED <<held, sigchld, ack, sent, maps, step, checks, done, operation, fdMount, survived, got, passed, failed, category, verdict, trouble>>
    BY DEF Goto, childVars, reportVars
  <2> USE <2>1
  <2>2. step = AwaitMapping /\ sent = "no" /\ ack = "none"
    BY DEF Exchange, TypeOK
  <2>3. pc["child"] \in {"readack", "ended"}
    BY <2>2 DEF Exchange, Family, Places, ChildPlaces
  <2>4. pc["child"] = "ended" => trouble = "yes" /\ pc["probe"] = "unborn"
    BY <2>2, <2>3 DEF Fate, Doomed, TypeOK, Family
  <2> QED
    BY Zenon, <2>2, <2>3, <2>4
<1> USE <1>1
<1>2. /\ pc' \in [Procs -> ParentPlaces \cup ChildPlaces \cup ProbePlaces]
      /\ pc'["parent"] = "setgroups"
      /\ pc'["child"] = pc["child"]
      /\ pc'["probe"] = pc["probe"]
  BY ParentMoved, Zenon DEF ParentPlaces
<1> USE <1>2
<1>3. TypeOK'
  BY StepFacts, Zenon DEF TypeOK
<1>4. Places'
  BY Zenon DEF Places, ParentPlaces, ChildPlaces
<1>5. PipesHeld'
  BY Zenon DEF PipesHeld, Mapping
<1>6. Family'
  BY Zenon DEF Family, Collected, HostPhase, Mapping
<1>7. Exchange'
  BY Zenon DEF Exchange, Family, Collected, Mapping, HostPhase
<1>8. Written'
  BY Zenon DEF Written, Exchange, Mapping
<1>9. Progress'
  BY Zenon DEF Progress
<1>10. MountProbe'
  BY Zenon DEF MountProbe, Family
<1>11. Reported'
  BY Zenon DEF Reported, HostPassed, Collected, Mapping
<1>12. Fate'
  BY Zenon DEF Fate, Doomed, Mapping
<1> QED
  BY <1>3, <1>4, <1>5, <1>6, <1>7, <1>8, <1>9, <1>10, <1>11, <1>12, Zenon DEF IInv

\* The parent reads the end of the ready pipe: the child is gone.
LEMMA LeaveKeeps ==
  ASSUME IInv, pc["parent"] = "readready", ready = "none", ~Open("readyW"), LeaveHandshake,
         UNCHANGED <<sigchld, pipeVars, maps, childVars, reportVars, trouble>>
  PROVE  IInv'
<1> USE DEF AwaitMapping, BecomeRoot, SurviveExec, ProbeMounts
<1>0. TypeOK /\ Places /\ PipesHeld /\ Family /\ Exchange /\ Written /\ Progress
      /\ MountProbe /\ Reported /\ Fate
  BY DEF IInv
<1> USE <1>0
<1>1. /\ pc' = [pc EXCEPT !["parent"] = "receive"] /\ held' = [held EXCEPT !["parent"] = @ \ {"readyR", "ackW"}]
      /\ pc["child"] = "ended"
      /\ UNCHANGED <<sigchld, ready, ack, sent, maps, step, checks, done, operation, fdMount, survived, got, passed, failed, category, verdict, trouble>>
  <2>1. /\ pc' = [pc EXCEPT !["parent"] = "receive"] /\ held' = [held EXCEPT !["parent"] = @ \ {"readyR", "ackW"}]
        /\ UNCHANGED <<sigchld, ready, ack, sent, maps, step, checks, done, operation, fdMount, survived, got, passed, failed, category, verdict, trouble>>
    BY DEF LeaveHandshake, Goto, pipeVars, childVars, reportVars
  <2>2. pc["child"] = "ended"
    BY <2>1, OpenEnds, Zenon DEF Exchange
  <2> QED
    BY Zenon, <2>1, <2>2
<1> USE <1>1
<1>2. /\ pc' \in [Procs -> ParentPlaces \cup ChildPlaces \cup ProbePlaces]
      /\ pc'["parent"] = "receive"
      /\ pc'["child"] = pc["child"]
      /\ pc'["probe"] = pc["probe"]
  BY ParentMoved, Zenon DEF ParentPlaces
<1> USE <1>2
<1>3. /\ held' \in [Procs -> SUBSET PipeEnds]
      /\ held'["parent"] = held["parent"] \ {"readyR", "ackW"}
      /\ held'["child"] = held["child"]
      /\ held'["probe"] = held["probe"]
  BY Zenon DEF TypeOK, Procs
<1>4. TypeOK'
  BY <1>3, StepFacts DEF TypeOK, Procs, Steps, Checks
<1>5. Places'
  BY Zenon DEF Places, ParentPlaces, ChildPlaces, ProbePlaces
<1>6. PipesHeld'
  BY <1>3, Zenon DEF PipesHeld, Mapping
<1>7. Family'
  BY Zenon DEF Family, Collected, HostPhase
<1>8. Exchange'
  BY Zenon DEF Exchange, Family, Collected, Mapping, HostPhase
<1>9. Written'
  BY Zenon DEF Written
<1>10. Progress'
  BY Zenon DEF Progress
<1>11. MountProbe'
  BY Zenon DEF MountProbe, Family
<1>12. Reported'
  BY Zenon DEF Reported, HostPassed, Collected, Family
<1>13. Fate'
  BY Zenon DEF Fate, Doomed, Family, Collected
<1> QED
  BY <1>4, <1>5, <1>6, <1>7, <1>8, <1>9, <1>10, <1>11, <1>12, <1>13, Zenon DEF IInv

\* The parent answers.
LEMMA AnswerKeeps ==
  ASSUME IInv, NEW byte \in {"A", "F"}, pc["parent"] \in Mapping, Acknowledge(byte), Open("ackR"),
         byte = "A" => pc["parent"] = "acknowledge" /\ UNCHANGED trouble,
         byte = "F" => trouble' = "yes" 
  PROVE  IInv'
<1> USE DEF AwaitMapping, BecomeRoot, SurviveExec, ProbeMounts
<1>0. TypeOK /\ Places /\ PipesHeld /\ Family /\ Exchange /\ Written /\ Progress
      /\ MountProbe /\ Reported /\ Fate
  BY DEF IInv
<1> USE <1>0
<1>1. /\ pc' = [pc EXCEPT !["parent"] = "receive"] /\ held' = [held EXCEPT !["parent"] = @ \ {"readyR", "ackW"}]
      /\ ack' = byte
      /\ step = AwaitMapping /\ pc["child"] \in {"readack", "ended"} /\ pc["probe"] = "unborn"
      /\ pc["child"] = "readack"
      /\ trouble' \in {"no", "yes"} /\ ack = "none" /\ verdict = "none"
      /\ UNCHANGED <<sigchld, ready, sent, maps, step, checks, done, operation, fdMount, survived, got, passed, failed, category, verdict>>
  <2>1. /\ pc' = [pc EXCEPT !["parent"] = "receive"] /\ held' = [held EXCEPT !["parent"] = @ \ {"readyR", "ackW"}]
        /\ ack' = byte
        /\ UNCHANGED <<sigchld, ready, sent, maps, step, checks, done, operation, fdMount, survived, got, passed, failed, category, verdict>>
    BY DEF Acknowledge, LeaveHandshake, Goto, pipeVars, childVars
  <2> USE <2>1
  <2>2. step = AwaitMapping /\ pc["child"] \in {"readack", "ended"} /\ pc["probe"] = "unborn"
    BY DEF Exchange, Family
  <2>3. pc["child"] = "readack"
    BY <2>2, OpenEnds, Zenon DEF Mapping
  <2>4. trouble' \in {"no", "yes"} /\ ack = "none" /\ verdict = "none"
    BY <2>2, <2>3, Zenon DEF TypeOK, Exchange, Family, Mapping
  <2> QED
    BY Zenon, <2>2, <2>3, <2>4
<1> USE <1>1
<1>2. /\ pc' \in [Procs -> ParentPlaces \cup ChildPlaces \cup ProbePlaces]
      /\ pc'["parent"] = "receive"
      /\ pc'["child"] = pc["child"]
      /\ pc'["probe"] = pc["probe"]
  BY ParentMoved, Zenon DEF ParentPlaces
<1> USE <1>2
<1>3. /\ held' \in [Procs -> SUBSET PipeEnds]
      /\ held'["parent"] = held["parent"] \ {"readyR", "ackW"}
      /\ held'["child"] = held["child"]
      /\ held'["probe"] = held["probe"]
  BY Zenon DEF TypeOK, Procs
<1>4. TypeOK'
  BY <1>3, StepFacts, Zenon DEF TypeOK
<1>5. Places'
  BY Zenon DEF Places, ParentPlaces, ChildPlaces
<1>6. PipesHeld'
  BY <1>3 DEF PipesHeld, Mapping
<1>7. Family'
  BY Zenon DEF Family, Collected, HostPhase, Mapping
<1>8. Exchange'
  BY Zenon DEF Exchange, Family, Collected, Mapping, HostPhase
<1>9. Written'
  BY Zenon DEF Written, Exchange, Mapping
<1>10. Progress'
  BY Zenon DEF Progress
<1>11. MountProbe'
  BY Zenon DEF MountProbe, Family
<1>12. Reported'
  BY Zenon DEF Reported, HostPassed, Collected, Mapping
<1>13. Fate'
  BY Zenon DEF Fate, Doomed, Mapping
<1> QED
  BY <1>4, <1>5, <1>6, <1>7, <1>8, <1>9, <1>10, <1>11, <1>12, <1>13, Zenon DEF IInv

\* Nobody reads the answer, and SIGPIPE ends the parent.
LEMMA BrokenPipeKeeps ==
  ASSUME IInv, NEW byte \in {"A", "F"}, pc["parent"] \in Mapping, Acknowledge(byte), ~Open("ackR"),
         trouble' = trouble \/ trouble' = "yes" 
  PROVE  IInv'
<1> USE DEF AwaitMapping, BecomeRoot, SurviveExec, ProbeMounts
<1>0. TypeOK /\ Places /\ PipesHeld /\ Family /\ Exchange /\ Written /\ Progress
      /\ MountProbe /\ Reported /\ Fate
  BY DEF IInv
<1> USE <1>0
<1>1. /\ pc' = [pc EXCEPT !["parent"] = "ended"] /\ held' = [held EXCEPT !["parent"] = {}]
      /\ verdict' = "SIGPIPE"
      /\ verdict = "none"
      /\ step = AwaitMapping /\ pc["child"] = "ended" /\ trouble' = "yes" /\ pc["probe"] = "unborn"
      /\ UNCHANGED <<sigchld, ready, ack, sent, maps, step, checks, done, operation, fdMount, survived, got, passed, failed, category>>
  <2>1. /\ pc' = [pc EXCEPT !["parent"] = "ended"] /\ held' = [held EXCEPT !["parent"] = {}]
        /\ verdict' = "SIGPIPE"
        /\ UNCHANGED <<sigchld, ready, ack, sent, maps, step, checks, done, operation, fdMount, survived, got, passed, failed, category>>
    BY DEF Acknowledge, End, pipeVars, childVars
  <2>2. verdict = "none"
    BY <2>1, Zenon DEF Family, Mapping
  <2>3. step = AwaitMapping /\ pc["child"] = "ended" /\ trouble' = "yes" /\ pc["probe"] = "unborn"
    BY <2>1, <2>2, OpenEnds DEF Exchange, Family
  <2> QED
    BY Zenon, <2>1, <2>2, <2>3
<1> USE <1>1
<1>2. /\ pc' \in [Procs -> ParentPlaces \cup ChildPlaces \cup ProbePlaces]
      /\ pc'["parent"] = "ended"
      /\ pc'["child"] = pc["child"]
      /\ pc'["probe"] = pc["probe"]
  BY ParentMoved, Zenon DEF ParentPlaces
<1> USE <1>2
<1>3. /\ held' \in [Procs -> SUBSET PipeEnds]
      /\ held'["parent"] = {}
      /\ held'["child"] = held["child"]
      /\ held'["probe"] = held["probe"]
  BY Zenon DEF TypeOK, Procs
<1>4. TypeOK'
  BY <1>3, StepFacts DEF TypeOK
<1>5. Places'
  BY Zenon DEF Places, ParentPlaces, ChildPlaces
<1>6. PipesHeld'
  BY <1>3, Zenon DEF PipesHeld, Mapping
<1>7. Family'
  BY Zenon DEF Family, Collected, HostPhase, Mapping
<1>8. Exchange'
  BY Zenon DEF Exchange, Family, Collected, Mapping, HostPhase
<1>9. Written'
  BY Zenon DEF Written, Exchange, Mapping
<1>10. Progress'
  BY Zenon DEF Progress
<1>11. MountProbe'
  BY Zenon DEF MountProbe, Family
<1>12. Reported'
  BY Zenon DEF Reported, HostPassed, Collected, Mapping
<1>13. Fate'
  BY Zenon DEF Fate, Doomed, Mapping
<1> QED
  BY <1>4, <1>5, <1>6, <1>7, <1>8, <1>9, <1>10, <1>11, <1>12, <1>13, Zenon DEF IInv

\* The parent reads the result, or the end of the pipe.
LEMMA ReceiveKeeps ==
  ASSUME IInv, ReceiveResult
  PROVE  IInv'
<1> USE DEF AwaitMapping, BecomeRoot, SurviveExec, ProbeMounts
<1>0. TypeOK /\ Places /\ PipesHeld /\ Family /\ Exchange /\ Written /\ Progress
      /\ MountProbe /\ Reported /\ Fate
  BY DEF IInv
<1> USE <1>0
<1>1. /\ pc["parent"] = "receive" /\ pc' = [pc EXCEPT !["parent"] = "wait"] /\ held' = [held EXCEPT !["parent"] = {}]
      /\ got' = IF sent = "yes" THEN [checks |-> checks, fdMount |-> fdMount] ELSE NoResult
      /\ sent = "yes" \/ ~Open("resultW")
      /\ pc["child"] = "ended" /\ pc["probe"] \in {"unborn", "ended"} /\ verdict = "none"
      /\ got' \in [checks : SUBSET NamespaceChecks, fdMount : Failures]
      /\ UNCHANGED <<sigchld, ready, ack, sent, maps, step, checks, done, operation, fdMount, survived, passed, failed, category, verdict, trouble>>
  <2>1. /\ pc["parent"] = "receive" /\ pc' = [pc EXCEPT !["parent"] = "wait"] /\ held' = [held EXCEPT !["parent"] = {}]
        /\ got' = IF sent = "yes" THEN [checks |-> checks, fdMount |-> fdMount] ELSE NoResult
        /\ sent = "yes" \/ ~Open("resultW")
        /\ UNCHANGED <<sigchld, ready, ack, sent, maps, step, checks, done, operation, fdMount, survived, passed, failed, category, verdict, trouble>>
    BY Zenon DEF ReceiveResult, At, Goto, pipeVars, childVars
  <2>2. pc["child"] = "ended" /\ pc["probe"] \in {"unborn", "ended"} /\ verdict = "none"
    BY <2>1, OpenEnds, Zenon DEF Family, HostPhase, Places, ProbePlaces
  <2>3. got' \in [checks : SUBSET NamespaceChecks, fdMount : Failures]
    BY <2>1, <2>2, Zenon DEF TypeOK, NoResult, NoFailure, Failures
  <2> QED
    BY Zenon, <2>1, <2>2, <2>3
<1> USE <1>1
<1>2. /\ pc' \in [Procs -> ParentPlaces \cup ChildPlaces \cup ProbePlaces]
      /\ pc'["parent"] = "wait"
      /\ pc'["child"] = pc["child"]
      /\ pc'["probe"] = pc["probe"]
  BY ParentMoved, Zenon DEF ParentPlaces
<1> USE <1>2
<1>3. /\ held' \in [Procs -> SUBSET PipeEnds]
      /\ held'["parent"] = {}
      /\ held'["child"] = held["child"]
      /\ held'["probe"] = held["probe"]
  BY Zenon DEF TypeOK, Procs
<1>4. TypeOK'
  BY <1>3, StepFacts DEF TypeOK
<1>5. Places'
  BY Zenon DEF Places, ParentPlaces, ChildPlaces, ProbePlaces
<1>6. PipesHeld'
  BY <1>3, Zenon DEF PipesHeld, Mapping
<1>7. Family'
  BY Zenon DEF Family, Collected, HostPhase
<1>8. Exchange'
  BY Zenon DEF Exchange, Family, Collected, Mapping, HostPhase
<1>9. Written'
  BY Zenon DEF Written
<1>10. Progress'
  BY Zenon DEF Progress
<1>11. MountProbe'
  BY Zenon DEF MountProbe, Family
<1>12. Reported'
  BY Zenon DEF Reported, HostPassed, Collected, Family
<1>13. Fate'
  BY Zenon DEF Fate, Doomed, Family, Collected
<1> QED
  BY <1>4, <1>5, <1>6, <1>7, <1>8, <1>9, <1>10, <1>11, <1>12, <1>13, Zenon DEF IInv

\* The parent prints the namespace checks and the verdict.
LEMMA ReportKeeps ==
  ASSUME IInv, Report
  PROVE  IInv'
<1> USE DEF AwaitMapping, BecomeRoot, SurviveExec, ProbeMounts
<1>0. TypeOK /\ Places /\ PipesHeld /\ Family /\ Exchange /\ Written /\ Progress
      /\ MountProbe /\ Reported /\ Fate
  BY DEF IInv
<1> USE <1>0
<1>1. /\ pc["parent"] = "report" /\ pc' = [pc EXCEPT !["parent"] = "ended"] /\ held' = [held EXCEPT !["parent"] = {}]
      /\ passed' = passed \cup got.checks /\ failed' = failed \cup (NamespaceChecks \ got.checks)
      /\ category' = IF "fd_mount_api" \in got.checks THEN "none" ELSE Classify(got.fdMount)
      /\ verdict' = IF failed' = {} THEN "pass" ELSE "fail"
      /\ verdict = "none" /\ pc["child"] \in {"unborn", "ended"}
      /\ got.checks \subseteq NamespaceChecks /\ passed' \in SUBSET Checks /\ failed' \in SUBSET Checks
      /\ category' \in Categories \cup {"none"}
      /\ got.checks = NamespaceChecks <=> pc["child"] = "ended" /\ sent = "yes" /\ step = 13
      /\ "fd_mount_api" \notin failed
      /\ trouble = "yes" => verdict' = "fail"
      /\ trouble = "no" /\ sigchld = "default" => verdict' = "pass"
      /\ UNCHANGED <<sigchld, ready, ack, sent, maps, step, checks, done, operation, fdMount, survived, got, trouble>>
  <2>1. /\ pc["parent"] = "report" /\ pc' = [pc EXCEPT !["parent"] = "ended"] /\ held' = [held EXCEPT !["parent"] = {}]
        /\ passed' = passed \cup got.checks /\ failed' = failed \cup (NamespaceChecks \ got.checks)
        /\ category' = IF "fd_mount_api" \in got.checks THEN "none" ELSE Classify(got.fdMount)
        /\ verdict' = IF failed' = {} THEN "pass" ELSE "fail"
        /\ UNCHANGED <<sigchld, ready, ack, sent, maps, step, checks, done, operation, fdMount, survived, got, trouble>>
    BY DEF Report, End, At, Goto, pipeVars, childVars
  <2> USE <2>1
  <2>2. verdict = "none" /\ pc["child"] \in {"unborn", "ended"}
    BY Zenon DEF Family, Collected
  <2> USE <2>2
  <2>3. got.checks \subseteq NamespaceChecks /\ passed' \in SUBSET Checks /\ failed' \in SUBSET Checks
    BY Zenon DEF TypeOK, Checks
  <2> USE <2>3
  <2>4. category' \in Categories \cup {"none"}
    BY Zenon DEF Classify, Categories
  <2> USE <2>4
  <2>5. got.checks = NamespaceChecks <=> pc["child"] = "ended" /\ sent = "yes" /\ step = 13
    <3>1. got.checks = IF sent = "yes" THEN checks ELSE {}
      <4>1. got = IF sent = "yes" THEN [checks |-> checks, fdMount |-> fdMount] ELSE NoResult
        BY Zenon DEF Reported, Collected
      <4>2. [checks |-> checks, fdMount |-> fdMount].checks = checks /\ NoResult.checks = {}
        BY Zenon DEF NoResult
      <4> QED
        BY <4>1, <4>2, Zenon
    <3>2. sent = "yes" => pc["child"] = "ended"
      BY DEF Family
    <3>3. "old_root_detach" \in NamespaceChecks
      BY StepFacts DEF NamespaceChecks, Steps
    <3>4. step = 13 <=> checks = NamespaceChecks
      BY AllSteps, Zenon
    <3> QED
      BY <3>1, <3>2, <3>3, <3>4, Zenon
  <2> USE <2>5
  <2>6. "fd_mount_api" \notin failed
    BY CheckFacts, StepFacts, Zenon DEF Reported, HostChecks
  <2>7. trouble = "yes" => verdict' = "fail"
    BY <2>6, Zenon DEF Fate, Doomed
  <2>8. trouble = "no" /\ sigchld = "default" => verdict' = "pass"
    BY <2>6, <2>7, Zenon DEF Fate, Doomed, Family, TypeOK
  <2> QED
    BY Zenon, <2>6, <2>7, <2>8
<1> USE <1>1
<1>2. /\ pc' \in [Procs -> ParentPlaces \cup ChildPlaces \cup ProbePlaces]
      /\ pc'["parent"] = "ended"
      /\ pc'["child"] = pc["child"]
      /\ pc'["probe"] = pc["probe"]
  BY ParentMoved, Zenon DEF ParentPlaces
<1> USE <1>2
<1>3. /\ held' \in [Procs -> SUBSET PipeEnds]
      /\ held'["parent"] = {}
      /\ held'["child"] = held["child"]
      /\ held'["probe"] = held["probe"]
  BY Zenon DEF TypeOK, Procs
<1>4. TypeOK'
  BY <1>3, StepFacts DEF TypeOK
<1>5. Places'
  BY Zenon DEF Places, ParentPlaces, ChildPlaces, ProbePlaces
<1>6. PipesHeld'
  BY <1>3, Zenon DEF PipesHeld, Mapping
<1>7. Family'
  BY Zenon DEF Family, Collected, HostPhase
<1>8. Exchange'
  BY Zenon DEF Exchange, Family, Collected, Mapping, HostPhase
<1>9. Written'
  BY Zenon DEF Written
<1>10. Progress'
  BY Zenon DEF Progress
<1>11. MountProbe'
  BY Zenon DEF MountProbe, Family
<1>12. Reported'
  BY Zenon DEF Reported, HostPassed, Collected, Family
<1>13. Fate'
  BY Zenon DEF Fate, Doomed, TypeOK
<1> QED
  BY <1>4, <1>5, <1>6, <1>7, <1>8, <1>9, <1>10, <1>11, <1>12, <1>13, Zenon DEF IInv

\* The child tells the parent that it waits.
LEMMA SendReadyKeeps ==
  ASSUME IInv, SendReady, Open("readyR")
  PROVE  IInv'
<1> USE DEF AwaitMapping, BecomeRoot, SurviveExec, ProbeMounts
<1>0. TypeOK /\ Places /\ PipesHeld /\ Family /\ Exchange /\ Written /\ Progress
      /\ MountProbe /\ Reported /\ Fate
  BY DEF IInv
<1> USE <1>0
<1>1. /\ pc["child"] = "step" /\ step = AwaitMapping /\ pc' = [pc EXCEPT !["child"] = "readack"]
      /\ ready' = "R"
      /\ pc["parent"] \in {"ends", "readready"} /\ ack = "none"
      /\ UNCHANGED <<held, sigchld, ack, sent, maps, step, checks, done, operation, fdMount, survived, got, passed, failed, category, verdict, trouble>>
  <2>1. /\ pc["child"] = "step" /\ step = AwaitMapping /\ pc' = [pc EXCEPT !["child"] = "readack"]
        /\ ready' = "R"
        /\ UNCHANGED <<held, sigchld, ack, sent, maps, step, checks, done, operation, fdMount, survived, got, passed, failed, category, verdict, trouble>>
    BY DEF SendReady, At, Goto, pipeVars, childVars, reportVars
  <2>2. pc["parent"] \in {"ends", "readready"} /\ ack = "none"
    BY <2>1, OpenEnds, Zenon DEF Exchange, Mapping
  <2> QED
    BY Zenon, <2>1, <2>2
<1> USE <1>1
<1>2. /\ pc' \in [Procs -> ParentPlaces \cup ChildPlaces \cup ProbePlaces]
      /\ pc'["parent"] = pc["parent"]
      /\ pc'["child"] = "readack"
      /\ pc'["probe"] = pc["probe"]
  BY ChildMoved, Zenon DEF ChildPlaces
<1> USE <1>2
<1>3. TypeOK'
  BY StepFacts DEF TypeOK, Procs, Steps, Checks
<1>4. Places'
  BY Zenon DEF Places, ParentPlaces, ChildPlaces, ProbePlaces
<1>5. PipesHeld'
  BY Zenon DEF PipesHeld, Mapping
<1>6. Family'
  BY Zenon DEF Family, Collected, HostPhase
<1>7. Exchange'
  BY Zenon DEF Exchange, Family, Collected, Mapping, HostPhase
<1>8. Written'
  BY Zenon DEF Written
<1>9. Progress'
  BY Zenon DEF Progress
<1>10. MountProbe'
  BY Zenon DEF MountProbe, Family
<1>11. Reported'
  BY Zenon DEF Reported, HostPassed, Collected, Family
<1>12. Fate'
  BY Zenon DEF Fate, Doomed, Family, Collected
<1> QED
  BY <1>3, <1>4, <1>5, <1>6, <1>7, <1>8, <1>9, <1>10, <1>11, <1>12, Zenon DEF IInv

\* Nobody reads that byte, and SIGPIPE ends the child.
LEMMA ReadyUnreadKeeps ==
  ASSUME IInv, SendReady, ~Open("readyR")
  PROVE  IInv'
<1> USE DEF AwaitMapping, BecomeRoot, SurviveExec, ProbeMounts
<1>0. TypeOK /\ Places /\ PipesHeld /\ Family /\ Exchange /\ Written /\ Progress
      /\ MountProbe /\ Reported /\ Fate
  BY DEF IInv
<1> USE <1>0
<1>1. /\ pc["child"] = "step" /\ step = AwaitMapping /\ pc' = [pc EXCEPT !["child"] = "ended"]
      /\ held' = [held EXCEPT !["child"] = {}]
      /\ pc["parent"] = "ended" /\ sent = "no" /\ pc["probe"] = "unborn"
      /\ trouble = "yes"
      /\ UNCHANGED <<sigchld, ready, ack, sent, maps, step, checks, done, operation, fdMount, survived, got, passed, failed, category, verdict, trouble>>
  <2>1. /\ pc["child"] = "step" /\ step = AwaitMapping /\ pc' = [pc EXCEPT !["child"] = "ended"]
        /\ held' = [held EXCEPT !["child"] = {}]
        /\ UNCHANGED <<sigchld, ready, ack, sent, maps, step, checks, done, operation, fdMount, survived, got, passed, failed, category, verdict, trouble>>
    BY DEF SendReady, At, End, pipeVars, childVars, reportVars
  <2>2. pc["parent"] = "ended" /\ sent = "no" /\ pc["probe"] = "unborn"
    BY <2>1, OpenEnds DEF Exchange, Family, TypeOK
  <2>3. trouble = "yes"
    BY <2>1, <2>2, Zenon DEF Fate, Family, Collected, TypeOK
  <2> QED
    BY Zenon, <2>1, <2>2, <2>3
<1> USE <1>1
<1>2. /\ pc' \in [Procs -> ParentPlaces \cup ChildPlaces \cup ProbePlaces]
      /\ pc'["parent"] = pc["parent"]
      /\ pc'["child"] = "ended"
      /\ pc'["probe"] = pc["probe"]
  BY ChildMoved, Zenon DEF ChildPlaces
<1> USE <1>2
<1>3. /\ held' \in [Procs -> SUBSET PipeEnds]
      /\ held'["parent"] = held["parent"]
      /\ held'["child"] = {}
      /\ held'["probe"] = held["probe"]
  BY Zenon DEF TypeOK, Procs
<1>4. TypeOK'
  BY <1>3, StepFacts DEF TypeOK, Procs, Steps, Checks
<1>5. Places'
  BY Zenon DEF Places, ParentPlaces, ChildPlaces, ProbePlaces
<1>6. PipesHeld'
  BY <1>3, Zenon DEF PipesHeld, Mapping
<1>7. Family'
  BY Zenon DEF Family, Collected, HostPhase
<1>8. Exchange'
  BY Zenon DEF Exchange, Family, Collected, Mapping, HostPhase
<1>9. Written'
  BY Zenon DEF Written
<1>10. Progress'
  BY Zenon DEF Progress
<1>11. MountProbe'
  BY Zenon DEF MountProbe, Family
<1>12. Reported'
  BY Zenon DEF Reported, HostPassed, Collected, Family
<1>13. Fate'
  BY Zenon DEF Fate, Doomed, Family, Collected
<1> QED
  BY <1>4, <1>5, <1>6, <1>7, <1>8, <1>9, <1>10, <1>11, <1>12, <1>13, Zenon DEF IInv

\* The child sends its result and ends.
LEMMA SendKeeps ==
  ASSUME IInv, SendResult
  PROVE  IInv'
<1> USE DEF AwaitMapping, BecomeRoot, SurviveExec, ProbeMounts
<1>0. TypeOK /\ Places /\ PipesHeld /\ Family /\ Exchange /\ Written /\ Progress
      /\ MountProbe /\ Reported /\ Fate
  BY DEF IInv
<1> USE <1>0
<1>1. /\ pc["child"] = "send" /\ pc' = [pc EXCEPT !["child"] = "ended"]
      /\ held' = [held EXCEPT !["child"] = {}]
      /\ sent' = IF Open("resultR") THEN "yes" ELSE "no"
      /\ pc["probe"] # "verify" /\ sent = "no"
      /\ sent' = "no" => pc["parent"] = "ended"
      /\ sent' = "no" => trouble = "yes"
      /\ UNCHANGED <<sigchld, ready, ack, maps, step, checks, done, operation, fdMount, survived, got, passed, failed, category, verdict, trouble>>
  <2>1. /\ pc["child"] = "send" /\ pc' = [pc EXCEPT !["child"] = "ended"]
        /\ held' = [held EXCEPT !["child"] = {}]
        /\ sent' = IF Open("resultR") THEN "yes" ELSE "no"
        /\ UNCHANGED <<sigchld, ready, ack, maps, step, checks, done, operation, fdMount, survived, got, passed, failed, category, verdict, trouble>>
    BY DEF SendResult, At, End, pipeVars, childVars, reportVars
  <2> USE <2>1
  <2>2. pc["probe"] # "verify" /\ sent = "no"
    BY Zenon DEF Family, TypeOK
  <2>3. sent' = "no" => pc["parent"] = "ended"
    BY <2>2, OpenEnds, Zenon DEF Family, Collected, Mapping, HostPhase, Places, ParentPlaces
  <2>4. sent' = "no" => trouble = "yes"
    BY <2>2, <2>3, Zenon DEF Family, Collected, Fate, TypeOK
  <2> QED
    BY Zenon, <2>2, <2>3, <2>4
<1> USE <1>1
<1>2. /\ pc' \in [Procs -> ParentPlaces \cup ChildPlaces \cup ProbePlaces]
      /\ pc'["parent"] = pc["parent"]
      /\ pc'["child"] = "ended"
      /\ pc'["probe"] = pc["probe"]
  BY ChildMoved, Zenon DEF ChildPlaces
<1> USE <1>2
<1>3. /\ held' \in [Procs -> SUBSET PipeEnds]
      /\ held'["parent"] = held["parent"]
      /\ held'["child"] = {}
      /\ held'["probe"] = held["probe"]
  BY Zenon DEF TypeOK, Procs
<1>4. TypeOK'
  BY <1>3, StepFacts DEF TypeOK, Procs, Steps, Checks
<1>5. Places'
  BY Zenon DEF Places, ParentPlaces, ChildPlaces, ProbePlaces
<1>6. PipesHeld'
  BY <1>3, Zenon DEF PipesHeld, Mapping
<1>7. Family'
  BY Zenon DEF Family, Collected, HostPhase
<1>8. Exchange'
  BY Zenon DEF Exchange, Family, Collected, Mapping, HostPhase
<1>9. Written'
  BY Zenon DEF Written
<1>10. Progress'
  BY Zenon DEF Progress
<1>11. MountProbe'
  BY Zenon DEF MountProbe, Family
<1>12. Reported'
  BY Zenon DEF Reported, HostPassed, Collected, Family
<1>13. Fate'
  BY Zenon DEF Fate, Doomed, Family, Collected
<1> QED
  BY <1>4, <1>5, <1>6, <1>7, <1>8, <1>9, <1>10, <1>11, <1>12, <1>13, Zenon DEF IInv

\* A process is killed from outside.
LEMMA KillKeeps ==
  ASSUME IInv, NEW p \in Procs, Kill(p)
  PROVE  IInv'
<1> USE DEF AwaitMapping, BecomeRoot, SurviveExec, ProbeMounts
<1>0. TypeOK /\ Places /\ PipesHeld /\ Family /\ Exchange /\ Written /\ Progress
      /\ MountProbe /\ Reported /\ Fate
  BY DEF IInv
<1> USE <1>0
<1>1. /\ pc[p] \notin {"unborn", "ended"} /\ pc' = [pc EXCEPT ![p] = "ended"] /\ held' = [held EXCEPT ![p] = {}]
      /\ verdict' = (IF p = "parent" THEN "killed" ELSE verdict) /\ trouble' = "yes"
      /\ p = "parent" => verdict = "none"
      /\ p # "parent" => verdict \notin {"pass", "fail"} /\ sent = "no" /\ ~Collected
      /\ p = "probe" => pc["child"] \in {"waitprobe", "ended"} /\ survived = "unknown"
      /\ p \in {"parent", "child", "probe"}
      /\ UNCHANGED <<sigchld, ready, ack, sent, maps, step, checks, done, operation, fdMount, survived, got, passed, failed, category>>
  <2>1. /\ pc[p] \notin {"unborn", "ended"} /\ pc' = [pc EXCEPT ![p] = "ended"] /\ held' = [held EXCEPT ![p] = {}]
        /\ verdict' = (IF p = "parent" THEN "killed" ELSE verdict) /\ trouble' = "yes"
        /\ UNCHANGED <<sigchld, ready, ack, sent, maps, step, checks, done, operation, fdMount, survived, got, passed, failed, category>>
    BY DEF Kill, End, pipeVars, childVars
  <2> USE <2>1
  <2>2. p = "parent" => verdict = "none"
    BY Zenon DEF Family
  <2> USE <2>2
  <2>3. p # "parent" => verdict \notin {"pass", "fail"} /\ sent = "no" /\ ~Collected
    BY Zenon DEF Family, Collected, Procs, TypeOK, Places, ProbePlaces
  <2>4. p = "probe" => pc["child"] \in {"waitprobe", "ended"} /\ survived = "unknown"
    BY <2>3, Zenon DEF Family, Places, ProbePlaces
  <2>5. p \in {"parent", "child", "probe"}
    BY <2>3, <2>4, Zenon DEF Procs
  <2> QED
    BY Zenon, <2>3, <2>4, <2>5
<1> USE <1>1
<1>2. /\ pc' \in [Procs -> ParentPlaces \cup ChildPlaces \cup ProbePlaces]
      /\ pc'["parent"] = (IF p = "parent" THEN "ended" ELSE pc["parent"])
      /\ pc'["child"] = (IF p = "child" THEN "ended" ELSE pc["child"])
      /\ pc'["probe"] = (IF p = "probe" THEN "ended" ELSE pc["probe"])
  <2>1. "ended" \in ParentPlaces
    BY DEF ParentPlaces
  <2> QED
    BY <2>1, Zenon DEF Procs, TypeOK
<1> USE <1>2
<1>3. /\ held' \in [Procs -> SUBSET PipeEnds]
      /\ held'["parent"] = IF p = "parent" THEN {} ELSE held["parent"]
      /\ held'["child"] = IF p = "child" THEN {} ELSE held["child"]
      /\ held'["probe"] = IF p = "probe" THEN {} ELSE held["probe"]
  BY Zenon DEF TypeOK, Procs
<1>4. TypeOK'
  BY <1>3, StepFacts DEF TypeOK, Procs, Steps, Checks
<1>5. Places'
  BY DEF Places, ParentPlaces, ChildPlaces, ProbePlaces
<1>6. PipesHeld'
  BY <1>3 DEF PipesHeld, Mapping
<1>7. Family'
  BY DEF Family, Collected, HostPhase
<1>8. Exchange'
  BY DEF Exchange, Family, Collected, Mapping, HostPhase
<1>9. Written'
  BY Zenon DEF Written
<1>10. Progress'
  BY Zenon DEF Progress
<1>11. MountProbe'
  BY Zenon DEF MountProbe, Family
<1>12. Reported'
  BY Zenon DEF Reported, HostPassed, Collected, Family
<1>13. Fate'
  BY Zenon DEF Fate, Doomed, Family, Collected
<1> QED
  BY <1>4, <1>5, <1>6, <1>7, <1>8, <1>9, <1>10, <1>11, <1>12, <1>13, Zenon DEF IInv

\* Every step keeps the invariant.
LEMMA NextIInv == IInv /\ [Next]_vars => IInv'
<1> SUFFICES ASSUME IInv, [Next]_vars PROVE IInv'
  OBVIOUS
<1>1. CASE HostStep
  <2>1. CASE CheckSysctl
    BY <2>1, SysctlKeeps
  <2>2. CASE CheckLinuxKernel \/ CheckProcfsNamespaces \/ CheckPrivilege
    BY <2>2, LineKeeps, Zenon DEF CheckLinuxKernel, CheckProcfsNamespaces, CheckPrivilege, Unprivileged
  <2> QED
    BY <1>1, <2>1, <2>2 DEF HostStep
<1>2. CASE MapStep
  <2>1. CASE DenySetgroups \/ WriteGidMap \/ WriteUidMap
    BY <2>1, WriteFileKeeps DEF DenySetgroups, WriteGidMap, WriteUidMap
  <2>2. CASE MappingFailed
    BY <2>2, AnswerKeeps, BrokenPipeKeeps, Zenon DEF MappingFailed, At, Refused, Mapping
  <2>3. CASE MappingWritten
    BY <2>3, AnswerKeeps, BrokenPipeKeeps DEF MappingWritten, At, Mapping
  <2> QED
    BY <1>2, <2>1, <2>2, <2>3, Zenon DEF MapStep
<1>3. CASE ReadReady
  BY <1>3, ReadByteKeeps, LeaveKeeps, Zenon DEF ReadReady, At, pipeVars
<1>4. CASE StepSucceeds
  BY <1>4, PassKeeps, Zenon DEF StepSucceeds, At, pipeVars
<1>5. CASE StepFails
  <2>1. "EIO_other" \in Errors
    BY DEF Errors
  <2> QED
    BY <1>5, <2>1, BreakKeeps, Zenon DEF StepFails, At, Refused, pipeVars
<1>6. CASE ReadAck
  <2>1. step = AwaitMapping /\ (ack = "none" => pc["parent"] = "ended") /\ ack \in {"none", "A", "F"}
    BY <1>6, OpenEnds, Zenon DEF ReadAck, At, IInv, TypeOK, Exchange
  <2>2. "EIO_other" \in Errors /\ AwaitMapping # ProbeMounts
    BY DEF Errors, AwaitMapping, ProbeMounts
  <2>3. CASE ack = "A"
    BY <1>6, <2>3, PassKeeps, Zenon DEF ReadAck, At
  <2>4. CASE ack # "A"
    BY <1>6, <2>1, <2>2, <2>4, BreakKeeps, Zenon DEF ReadAck, At
  <2> QED
    BY <2>3, <2>4
<1>7. CASE WaitForProbe
  <2>1. step = SurviveExec
    BY <1>7, Zenon DEF WaitForProbe, At, IInv, Family
  <2>2. "EIO_other" \in Errors /\ SurviveExec # ProbeMounts
    BY DEF Errors, SurviveExec, ProbeMounts
  <2>3. CASE survived = "yes" /\ sigchld = "default"
    BY <1>7, <2>3, PassKeeps, Zenon DEF WaitForProbe, At, pipeVars
  <2>4. CASE ~(survived = "yes" /\ sigchld = "default")
    BY <1>7, <2>1, <2>2, <2>4, BreakKeeps, Zenon DEF WaitForProbe, At, pipeVars
  <2> QED
    BY <2>3, <2>4
<1>8. CASE OperationSucceeds
  <2>1. ProbeMounts \notin {AwaitMapping, SurviveExec} /\ operation \in 1..8
    BY DEF AwaitMapping, ProbeMounts, SurviveExec, IInv, TypeOK
  <2>2. CASE operation < 8
    BY <1>8, <2>1, <2>2, OperationKeeps, Zenon DEF OperationSucceeds, At
  <2>3. CASE ~(operation < 8)
    BY <1>8, <2>1, <2>3, PassKeeps, Zenon DEF OperationSucceeds, At, pipeVars
  <2> QED
    BY <2>2, <2>3
<1>9. CASE OperationFails
  <2>1. PICK error \in Errors : fdMount' = [operation |-> Operations[operation], error |-> error]
    BY <1>9 DEF OperationFails
  <2>2. ProbeMounts # AwaitMapping
    BY DEF AwaitMapping, ProbeMounts
  <2> QED
    BY <1>9, <2>1, <2>2, BreakKeeps, Zenon DEF OperationFails, At, Refused, pipeVars
<1>10. CASE SendReady
  BY <1>10, SendReadyKeeps, ReadyUnreadKeeps
<1>11. CASE StartSetup \/ CannotStart \/ ParentCloses \/ ReceiveResult \/ WaitForChild \/ Report
            \/ ChildCloses \/ ForkProbe \/ SendResult \/ ProbeVerifies
  BY Zenon, <1>11, StartKeeps, CannotStartKeeps, ParentClosesKeeps, ReceiveKeeps, WaitKeeps, ReportKeeps,
     ChildClosesKeeps, ForkProbeKeeps, SendKeeps, ProbeKeeps
<1>12. CASE \E p \in Procs : Kill(p)
  BY <1>12, KillKeeps
<1>13. CASE UNCHANGED vars
  BY <1>13 DEF IInv, vars, processVars, pipeVars, childVars, reportVars, TypeOK, Places, PipesHeld,
     Family, Collected, Exchange, Written, Progress, MountProbe, Reported, HostPassed, Fate, Doomed
<1> QED
  BY Zenon, <1>1, <1>2, <1>3, <1>4, <1>5, <1>6, <1>7, <1>8, <1>9, <1>10, <1>11, <1>12, <1>13
     DEF Next, ParentStep, ChildStep

\* The probe starts with nothing checked and nobody forked.
LEMMA InitIInv == Init => IInv
<1> SUFFICES ASSUME Init PROVE IInv
  OBVIOUS
<1>1. pc["parent"] = "linux" /\ pc["child"] = "unborn" /\ pc["probe"] = "unborn"
      /\ \A p \in Procs : held[p] = {}
  BY DEF Init, Procs
<1> USE <1>1
<1>2. TypeOK
  BY DEF Init, TypeOK, Procs, Steps, Failures, NoFailure, NoResult, ParentPlaces, ChildPlaces
<1>3. Places /\ PipesHeld
  BY DEF Init, Places, PipesHeld, ParentPlaces, ChildPlaces, ProbePlaces, Mapping, Procs
<1>4. Family /\ Exchange /\ Written
  BY DEF Init, Family, Collected, Exchange, Written, Mapping, HostPhase, SurviveExec, AwaitMapping
<1>5. Progress /\ MountProbe
  BY DEF Init, Progress, MountProbe, ProbeMounts
<1>6. Reported
  BY DEF Init, Reported, Collected, HostPassed
<1>7. Fate
  BY DEF Init, Fate, Doomed
<1> QED
  BY <1>2, <1>3, <1>4, <1>5, <1>6, <1>7, Zenon DEF IInv

\* The invariant of the probe, at every moment of every run.
THEOREM PreflightInvariant == Spec => []IInv
  BY InitIInv, NextIInv, PTL DEF Spec

\* Every variable of the probe keeps its type (the struct setup_result, the
\* pipes and the places of the three processes).
THEOREM PreflightTypeCorrect == Spec => []TypeOK
<1>1. IInv => TypeOK
  BY DEF IInv
<1> QED
  BY <1>1, PreflightInvariant, PTL

\* What a received result says: the checks of the steps that were done.
LEMMA ResultIsProgress ==
  ASSUME IInv, verdict \in {"pass", "fail"}
  PROVE  /\ got = IF sent = "yes" THEN [checks |-> checks, fdMount |-> fdMount] ELSE NoResult
         /\ \A c \in got.checks : \E i \in done : c \in PassedChecks[i] /\ 1..i \subseteq done
         /\ step \in Steps \cup {13} /\ done = 1..(step - 1)
<1>1. got = IF sent = "yes" THEN [checks |-> checks, fdMount |-> fdMount] ELSE NoResult
  BY Zenon DEF IInv, Reported, Collected
<1>2. step \in Steps \cup {13} /\ done = 1..(step - 1)
      /\ checks = UNION {PassedChecks[i] : i \in 1..(step - 1)}
  BY Zenon DEF IInv, TypeOK, Progress
<1>3. got.checks \subseteq checks
  BY <1>1 DEF NoResult
<1>4. \A i \in done : 1..i \subseteq done
  BY <1>2 DEF Steps
<1> QED
  BY <1>1, <1>2, <1>3, <1>4

\* The four parts of a true report, each from the invariant.
LEMMA Honest == IInv => ReportIsHonest
<1> SUFFICES ASSUME IInv, NEW c \in passed \cap NamespaceChecks
             PROVE  \E i \in done : /\ c \in PassedChecks[i] /\ 1..i \subseteq done
                                    /\ i >= AwaitMapping => maps = {"setgroups", "gid", "uid"}
  BY DEF ReportIsHonest
<1>1. verdict \in {"pass", "fail"} /\ c \in got.checks
  BY CheckFacts, Zenon DEF IInv, Reported
<1>2. PICK i \in done : c \in PassedChecks[i] /\ 1..i \subseteq done
  BY <1>1, ResultIsProgress
<1>3. step \in Steps \cup {13} /\ i \in 1..(step - 1)
  BY <1>1, <1>2, ResultIsProgress, Zenon
<1>4. i >= AwaitMapping => maps = {"setgroups", "gid", "uid"}
  BY <1>3 DEF IInv, Written, AllMaps, AwaitMapping, Steps
<1> QED
  BY <1>2, <1>4
\* PASS is printed only after every check has passed (main).
LEMMA Qualified == IInv => QualifiedMeansAll
<1> SUFFICES ASSUME IInv, verdict = "pass"
             PROVE  passed = HostChecks \cup NamespaceChecks /\ done = Steps /\ trouble = "no"
  BY DEF QualifiedMeansAll
<1>1. got.checks = NamespaceChecks /\ NamespaceChecks \subseteq passed /\ failed = {}
      /\ passed \subseteq HostChecks \cup got.checks
  BY DEF IInv, Reported
<1>2. pc["parent"] = "ended" /\ trouble = "no"
  BY Zenon DEF IInv, Family, Fate
<1>3. HostChecks \subseteq passed
  BY <1>1, <1>2, Zenon DEF IInv, Reported, HostPassed
<1>4. PICK i \in done : "old_root_detach" \in PassedChecks[i]
  <2>1. "old_root_detach" \in NamespaceChecks
    BY DEF NamespaceChecks, PassedChecks, Steps
  <2> QED
    BY Zenon, <2>1, <1>1, ResultIsProgress
<1>5. step \in Steps \cup {13} /\ done = 1..(step - 1) /\ i \in 1..(step - 1)
  BY <1>4, ResultIsProgress
<1>6. i = 12
  BY <1>4, <1>5, StepFacts DEF Steps
<1> QED
  BY <1>1, <1>2, <1>3, <1>5, <1>6 DEF Steps
\* A failure that is printed has a cause.
LEMMA Alarm == IInv => NoFalseAlarm
  BY PreflightAssumption, Zenon DEF IInv, TypeOK, Fate, NoFalseAlarm
\* A failure of the mount interface names the operation that was reported, or none.
LEMMA Located == IInv => FailureIsLocated
<1> SUFFICES ASSUME IInv, verdict \in {"pass", "fail"}, "fd_mount_api" \in failed
             PROVE  IF step = ProbeMounts /\ sent = "yes"
                    THEN got.fdMount.operation = Operations[operation] /\ category # "unpreserved"
                    ELSE category = "unpreserved"
  BY DEF FailureIsLocated
<1>1. category = Classify(got.fdMount)
  BY Zenon DEF IInv, Reported
<1>2. got = IF sent = "yes" THEN [checks |-> checks, fdMount |-> fdMount] ELSE NoResult
  BY ResultIsProgress
<1>3. CASE step = ProbeMounts /\ sent = "yes"
  <2>1. fdMount.operation = Operations[operation] /\ fdMount.error \in Errors /\ operation \in 1..8
    BY <1>3, Zenon DEF IInv, MountProbe, TypeOK
  <2>2. Operations[operation] # "none" /\ fdMount.error # "none"
    BY <2>1, OperationFacts, Zenon DEF Errors
  <2> QED
    BY <1>1, <1>2, <1>3, <2>1, <2>2, Zenon DEF Classify
<1>4. CASE ~(step = ProbeMounts /\ sent = "yes")
  <2>1. got.fdMount = NoFailure
    BY <1>2, <1>4, Zenon DEF IInv, MountProbe, NoResult
  <2> QED
    BY <1>1, <1>4, <2>1 DEF Classify, NoFailure
<1> QED
  BY <1>3, <1>4

\* The report is true whoever is killed and whatever is refused: a PASS line
\* stands for a step that was done, the host is qualified only after all of
\* them, it is refused only for a reason, and a failure of the mount probe is
\* reported where it happened (report_namespace_checks).
THEOREM ReportIsAlwaysTrue == Spec => []ReportIsTrue
<1>1. IInv => ReportIsTrue
  BY Honest, Qualified, Alarm, Located, Zenon DEF ReportIsTrue
<1> QED
  BY <1>1, PreflightInvariant, PTL

\* Whoever is killed, the parent has a verdict only when its child and the
\* child's own child are gone: the pipe ends that each of them holds keep the
\* parent reading (receive_setup_result, wait_for_child).
THEOREM NothingIsLeftRunning == Spec => []NothingLeftRunning
<1>1. IInv => NothingLeftRunning
  BY Zenon DEF IInv, Family, Collected, NothingLeftRunning
<1> QED
  BY <1>1, PreflightInvariant, PTL

=============================================================================
