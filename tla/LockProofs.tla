------------------------ MODULE LockProofs ----------------------------------
(***************************************************************************)
(* For every universe of packages and every specification: a lock is       *)
(* closed under dependencies and has one version of each name, no          *)
(* dependency asks for a version that clashes with a selected one, and     *)
(* the lock has what was asked for and nothing else.  For any snapshots,   *)
(* files and runs that end early: a refresh that succeeds leaves pins that *)
(* agree.                                                                  *)
(***************************************************************************)
EXTENDS LockResolver, RefreshDebianTools, WellFoundedInduction, TLAPS

\* A selected package waits in the queue, is the current one, or has every
\* group met; of the current one the groups before the next are met.
Waiting(i) == \E k \in 1..Len(queue) : queue[k] = i
MetUpTo(i, n) ==
    \A g \in 1..Len(universe[i].groups) : g <= n => Met(i, universe[i].groups[g])
Progress ==
    /\ \A i \in selected : \/ Waiting(i)
                           \/ pc \in {"groups", "unsatisfiable"} /\ i = current
                           \/ MetUpTo(i, Len(universe[i].groups))
    /\ pc = "groups" => current \in selected /\ MetUpTo(current, next - 1)
    /\ pc = "done" => queue = <<>>
    /\ pc = "universe" => selected = {}
    /\ pc \notin {"groups", "unsatisfiable"} => current = 0

IInv == TypeOK /\ OneVersion /\ Progress

-----------------------------------------------------------------------------
\* What the model derives from the universe does not change with a step.
LEMMA SameUniverse ==
    ASSUME UNCHANGED universe
    PROVE  /\ Places' = Places
           /\ \A i : Name(i)' = Name(i)
           /\ \A r : Candidates(r)' = Candidates(r)
<1>1. Places' = Places
  BY DEF Places
<1>2. \A i : Name(i)' = Name(i)
  BY DEF Name
<1>3. \A r : Candidates(r)' = Candidates(r)
  BY DEF Candidates, Installable, Places, SameIdentity, Name, Version, ArchitectureMatches,
         IsReal, IsProvider
<1> QED BY <1>1, <1>2, <1>3

\* A group that is met stays met: nothing is taken back.
LEMMA MetStays ==
    ASSUME UNCHANGED universe, selected \subseteq selected', edges \subseteq edges'
    PROVE  \A i, n : MetUpTo(i, n) => MetUpTo(i, n)'
<1>1. \A r : Candidates(r)' = Candidates(r)
  BY SameUniverse
<1>2. \A i : Name(i)' = Name(i)
  BY SameUniverse
<1>3. \A i, group : Met(i, group) => Met(i, group)'
  BY <1>1, <1>2, Zenon DEF Met
<1> QED BY <1>3 DEF MetUpTo

\* The fields that the proofs look at.
LEMMA PackageFields ==
    ASSUME TypeOK, NEW i \in Places
    PROVE  Name(i) \in Nat /\ Version(i) \in Nat /\ universe[i].groups \in Seq(Seq(Relations))
<1>1. universe[i] \in Packages
  BY DEF TypeOK, Places
<1>2. \A p \in Packages : p.name \in Nat /\ p.version \in Nat /\ p.groups \in Seq(Seq(Relations))
  BY DEF Packages
<1> QED BY <1>1, <1>2 DEF Name, Version

\* No two packages of one name are both its newest.
LEMMA NewestUnique ==
    ASSUME TypeOK, NEW i \in Bootstrap, NEW j \in Bootstrap, Name(i) = Name(j)
    PROVE  i = j
<1>1. i \in Places /\ j \in Places
  BY Zenon DEF Bootstrap, Installable
<1>2. Version(i) \in Nat /\ Version(j) \in Nat
  BY Zenon, <1>1, PackageFields
<1> QED BY <1>1, <1>2 DEF Bootstrap, IsNewest, Newer, Places

\* Before resolve begins, nothing is selected.
LEMMA Initially == ASSUME Init PROVE IInv
  BY ResolverAssumption DEF Init, ResolverStarts, IInv, TypeOK, OneVersion, Progress, Outcomes, Places, Pairs

\* The universe and the bootstrap set: each selected package is queued.
LEMMA BuildKeeps == ASSUME IInv, BuildUniverse PROVE IInv'
<1> USE DEF IInv
<1>1. CASE ConflictingDuplicate
  <2>1. UNCHANGED <<universe, requested, next, missing, selected, edges, queue, current>>
        /\ pc' = "duplicate" /\ selected = {} /\ current = 0
    BY <1>1, Zenon DEF BuildUniverse, Fail, inputs, Progress
  <2> QED BY <2>1, Zenon DEF TypeOK, OneVersion, Progress, Outcomes, Places, Pairs, Name
<1>2. CASE ~ConflictingDuplicate
  <2>1. /\ UNCHANGED <<universe, requested, next, missing, edges, current>>
        /\ pc = "universe" /\ pc' = "requested" /\ selected' = Bootstrap /\ current = 0
        /\ queue' \in UNION {[1..n -> Bootstrap] : n \in 0..Len(universe)}
        /\ InNameOrder(queue', Bootstrap)
    BY <1>2, Zenon DEF BuildUniverse, inputs, Progress
  <2> USE <2>1
  <2>2. PICK n \in 0..Len(universe) : queue' \in [1..n -> Bootstrap]
    OBVIOUS
  <2>3. queue' \in Seq(Bootstrap)
    BY <2>2 DEF TypeOK
  <2>4. Bootstrap \subseteq Places
    BY Zenon DEF Bootstrap, Installable
  <2>5. TypeOK'
    BY <2>3, <2>4, Zenon DEF TypeOK, Outcomes, Places, Pairs
  <2>6. OneVersion'
    BY NewestUnique, Zenon DEF OneVersion, Name
  <2>7. Progress'
    BY Zenon DEF Progress, Waiting, InNameOrder
  <2> QED BY Zenon, <2>5, <2>6, <2>7
<1> QED BY <1>1, <1>2

-----------------------------------------------------------------------------
\* What select does to the selected packages and the queue.
LEMMA SelectGrows ==
    ASSUME TypeOK, OneVersion, UNCHANGED universe,
           NEW i \in Places, NEW phase, select(i, phase)
    PROVE  /\ selected \subseteq selected' /\ selected' \subseteq selected \cup {i}
           /\ queue' \in Seq(selected')
           /\ OneVersion'
           /\ \A j : Waiting(j) => Waiting(j)'
           /\ \A j \in selected' : j \in selected \/ Waiting(j)'
           /\ pc' = phase \/ (pc' = "conflict" /\ Taken(Name(i)) # {} /\ i \notin selected)
           /\ pc' = phase => i \in selected' \/ phase = "conflict"
<1>1. CASE Taken(Name(i)) = {}
  <2>1. selected' = selected \cup {i} /\ queue' = Append(queue, i) /\ pc' = phase
    BY <1>1, Zenon DEF select
  <2>2. queue \in Seq(selected') /\ queue' \in Seq(selected')
    BY <2>1 DEF TypeOK
  <2>3. /\ Len(queue') = Len(queue) + 1
        /\ Len(queue) \in Nat
        /\ \A k \in 1..Len(queue) : queue'[k] = queue[k]
        /\ queue'[Len(queue) + 1] = i
    BY <2>1 DEF TypeOK
  <2>4. \A j : Waiting(j) => Waiting(j)'
    BY <2>3 DEF Waiting
  <2>5. Waiting(i)'
    BY <2>3 DEF Waiting
  <2>6. OneVersion'
    BY <1>1, <2>1 DEF OneVersion, Taken, Name
  <2> QED BY Zenon, <2>1, <2>2, <2>4, <2>5, <2>6
<1>2. CASE Taken(Name(i)) # {}
  <2>1. UNCHANGED <<selected, queue>> /\ pc' = IF i \in selected THEN phase ELSE "conflict"
    BY <1>2, Zenon DEF select
  <2>2. OneVersion'
    BY <2>1, Zenon DEF OneVersion, Name
  <2>3. \A j : Waiting(j) => Waiting(j)'
    BY <2>1 DEF Waiting
  <2> QED BY <1>2, <2>1, <2>2, <2>3, Zenon DEF TypeOK
<1> QED BY Zenon, <1>1, <1>2

\* A requested name adds a package to the selection and to the queue.
LEMMA RequestedKeeps == ASSUME IInv, SelectRequested PROVE IInv'
<1> DEFINE relation == AnyVersion(requested[next])
           real == {i \in Candidates(relation) : Name(i) = requested[next]}
<1>1. /\ UNCHANGED <<universe, requested, edges, current>> /\ next' = next + 1
      /\ pc = "requested" /\ next <= Len(requested) /\ current = 0
  BY Zenon DEF SelectRequested, inputs, IInv, Progress
<1> USE <1>1
<1>2. Candidates(relation) \subseteq Places
  BY Zenon DEF Candidates, Installable
<1>3. next' \in Nat \ {0} /\ requested[next] \in Nat
  BY DEF IInv, TypeOK
<1>4. CASE \E i \in Places : select(i, "requested") /\ UNCHANGED missing
  <2>1. PICK i \in Places : select(i, "requested") /\ UNCHANGED missing
    BY Zenon, <1>4
  <2>2. /\ selected \subseteq selected' /\ selected' \subseteq selected \cup {i}
        /\ queue' \in Seq(selected')
        /\ OneVersion'
        /\ \A j : Waiting(j) => Waiting(j)'
        /\ \A j \in selected' : j \in selected \/ Waiting(j)'
        /\ pc' \in {"requested", "conflict"}
    BY <2>1, SelectGrows, Zenon DEF IInv
  <2>3. TypeOK'
    BY <1>3, <2>1, <2>2, Zenon DEF IInv, TypeOK, Places, Pairs, Outcomes
  <2>4. \A j \in selected : Waiting(j) \/ MetUpTo(j, Len(universe[j].groups))
    BY Zenon DEF IInv, Progress
  <2>5. \A j \in selected' : Waiting(j)' \/ MetUpTo(j, Len(universe[j].groups))'
    BY Zenon, <2>2, <2>4, MetStays
  <2>6. Progress'
    BY <2>2, <2>5, Zenon DEF Progress
  <2> QED BY <2>2, <2>3, <2>6, Zenon DEF IInv
<1>5. CASE /\ UNCHANGED <<selected, queue>>
           /\ pc' \in {"requested", "virtual"}
           /\ missing' \in {missing, missing \cup {requested[next]}}
  <2>1. TypeOK'
    BY <1>3, <1>5, Zenon DEF IInv, TypeOK, Places, Pairs, Outcomes
  <2>2. OneVersion'
    BY <1>5, Zenon DEF IInv, OneVersion, Name
  <2>3. \A j \in selected' : Waiting(j)' \/ MetUpTo(j, Len(universe[j].groups))'
    <3>1. \A j : Waiting(j) => Waiting(j)'
      BY <1>5, Zenon DEF Waiting
    <3>2. \A j \in selected : Waiting(j) \/ MetUpTo(j, Len(universe[j].groups))
      BY Zenon DEF IInv, Progress
    <3> QED BY Zenon, <1>1, <1>5, <3>1, <3>2, MetStays
  <2>4. Progress'
    BY <1>5, <2>3, Zenon DEF Progress
  <2> QED BY <2>1, <2>2, <2>4 DEF IInv
<1>6. \/ \E i \in Places : select(i, "requested") /\ UNCHANGED missing
      \/ /\ UNCHANGED <<selected, queue>>
         /\ pc' \in {"requested", "virtual"}
         /\ missing' \in {missing, missing \cup {requested[next]}}
  BY <1>2, Zenon DEF SelectRequested
<1> QED BY Zenon, <1>4, <1>5, <1>6

\* The loop over the requested names ends.
LEMMA AllRequestedKeeps == ASSUME IInv, AllRequested PROVE IInv'
<1>1. UNCHANGED <<universe, requested, next, missing, selected, edges, queue, current>>
      /\ pc = "requested" /\ pc' \in {"pending", "missing"}
  BY DEF AllRequested, inputs
<1>2. \A j : Waiting(j) => Waiting(j)'
  BY <1>1, Zenon DEF Waiting
<1>3. \A j \in selected' : Waiting(j)' \/ MetUpTo(j, Len(universe[j].groups))'
  BY <1>1, <1>2, MetStays, Zenon DEF IInv, Progress
<1>4. TypeOK' /\ OneVersion'
  BY <1>1, Zenon DEF IInv, TypeOK, OneVersion, Places, Pairs, Outcomes, Name
<1> QED BY <1>1, <1>3, <1>4, Zenon DEF IInv, Progress

\* The package that leaves the queue becomes the current one.
LEMMA TakeKeeps == ASSUME IInv, TakePackage PROVE IInv'
<1>1. /\ UNCHANGED <<universe, requested, missing, selected, edges>>
      /\ pc = "pending" /\ pc' = "groups" /\ queue # <<>>
      /\ current' = Head(queue) /\ queue' = Tail(queue) /\ next' = 1
  BY DEF TakePackage, inputs
<1> USE <1>1
<1>2. current' \in selected /\ queue' \in Seq(selected)
  BY DEF IInv, TypeOK
<1>3. \A j : Waiting(j) => j = current' \/ Waiting(j)'
  <2>1. Len(queue) \in Nat /\ Len(queue') = Len(queue) - 1 /\ current' = queue[1]
    BY DEF IInv, TypeOK
  <2>2. \A k \in 1..Len(queue') : queue'[k] = queue[k + 1]
    BY DEF IInv, TypeOK
  <2>3. ASSUME NEW j, NEW k \in 1..Len(queue), queue[k] = j, k # 1 PROVE Waiting(j)'
    <3>1. k - 1 \in 1..Len(queue') /\ queue'[k - 1] = j
      BY <2>1, <2>2, <2>3
    <3> QED BY <3>1, Zenon DEF Waiting
  <2> QED BY <2>1, <2>3, Zenon DEF Waiting
<1>4. TypeOK' /\ OneVersion'
  <2>1. TypeOK'
    BY <1>2 DEF IInv, TypeOK, Places, Pairs, Outcomes
  <2> QED BY <1>1, <2>1, Zenon DEF IInv, OneVersion, Name
<1>5. \A j \in selected' : \/ Waiting(j)' \/ j = current'
                          \/ MetUpTo(j, Len(universe[j].groups))'
  BY <1>3, MetStays, Zenon DEF IInv, Progress
<1>6. MetUpTo(current, next - 1)'
  BY DEF MetUpTo
<1> QED BY <1>1, <1>2, <1>4, <1>5, <1>6, Zenon DEF IInv, Progress

\* resolve ends with an empty queue, so all that is selected is met.
LEMMA FinishKeeps == ASSUME IInv, Finish PROVE IInv'
<1>1. UNCHANGED <<universe, requested, next, missing, selected, edges, queue, current>>
      /\ pc = "pending" /\ pc' = "done" /\ queue = <<>>
  BY DEF Finish, inputs
<1>2. \A j : Waiting(j) => Waiting(j)'
  BY <1>1 DEF Waiting
<1>3. \A j \in selected' : Waiting(j)' \/ MetUpTo(j, Len(universe[j].groups))'
  BY <1>1, <1>2, MetStays, Zenon DEF IInv, Progress
<1>4. TypeOK' /\ OneVersion'
  BY <1>1, Zenon DEF IInv, TypeOK, OneVersion, Places, Pairs, Outcomes, Name
<1> QED BY <1>1, <1>3, <1>4, Zenon DEF IInv, Progress

\* The package that satisfies a group is a candidate of one of its
\* alternatives, and it is selected or its name is free.
LEMMA SatisfiesIsCandidate ==
    ASSUME NEW group, NEW i, Satisfies(group, i)
    PROVE  /\ \E k \in 1..Len(group) : i \in Candidates(group[k])
           /\ i \in selected \/ Taken(Name(i)) = {}
  BY Zenon DEF Satisfies, FirstOf, IsFirst, Present, Free

\* A group with a candidate that is now selected and recorded is met.
LEMMA MetNow ==
    ASSUME UNCHANGED universe, NEW CONSTANT c, NEW CONSTANT group, NEW CONSTANT i,
           NEW CONSTANT k \in 1..Len(group), i \in Candidates(group[k]), i \in selected',
           Name(i) # Name(c) => [from |-> c, to |-> i] \in edges'
    PROVE  Met(c, group)'
<1>1. Candidates(group[k])' = Candidates(group[k])
  BY Zenon, SameUniverse
<1>2. Name(i)' = Name(i) /\ Name(c)' = Name(c)
  BY Zenon, SameUniverse
<1> QED BY <1>1, <1>2, Zenon DEF Met

\* One more group of the current package is met, by a package that is selected and queued.
LEMMA SatisfyKeeps == ASSUME IInv, SatisfyGroup PROVE IInv'
<1>1. PICK i \in Installable :
        /\ Satisfies(Groups[next], i)
        /\ select(i, "groups")
        /\ edges' = IF Name(i) = Name(current) THEN edges
                    ELSE edges \cup {[from |-> current, to |-> i]}
  BY Zenon DEF SatisfyGroup
<1>2. /\ UNCHANGED <<universe, requested, missing, current>>
      /\ pc = "groups" /\ next <= Len(Groups) /\ next' = next + 1
  BY Zenon DEF SatisfyGroup, inputs
<1>3. i \in Places /\ current \in Places /\ current \in selected
  BY <1>2, Zenon DEF Installable, IInv, Progress, TypeOK
<1>4. PICK k \in 1..Len(Groups[next]) : i \in Candidates(Groups[next][k])
  BY Zenon, <1>1, SatisfiesIsCandidate
<1>5. /\ selected \subseteq selected' /\ selected' \subseteq selected \cup {i}
      /\ queue' \in Seq(selected')
      /\ OneVersion'
      /\ \A j : Waiting(j) => Waiting(j)'
      /\ \A j \in selected' : j \in selected \/ Waiting(j)'
      /\ pc' = "groups" /\ i \in selected'
  BY <1>1, <1>2, <1>3, SatisfiesIsCandidate, SelectGrows DEF IInv
<1>6. edges \subseteq edges' /\ edges' \subseteq Pairs
  BY <1>1, <1>3 DEF IInv, TypeOK, Pairs
<1>7. TypeOK'
  BY <1>2, <1>3, <1>5, <1>6, SMTT(30) DEF IInv, TypeOK, Places, Pairs, Outcomes
<1>8. PICK c, n, group : c = current /\ n = next /\ group = Groups[next]
  OBVIOUS
<1> USE <1>8
<1>9. MetUpTo(current, next - 1)'
  <2>1. Met(c, group)'
    <3>1. k \in 1..Len(group) /\ i \in Candidates(group[k])
      BY Zenon, <1>4
    <3>2. Name(i) # Name(c) => [from |-> c, to |-> i] \in edges'
      BY Zenon, <1>1
    <3> QED BY Zenon, <1>2, <1>5, <3>1, <3>2, MetNow
  <2>2. MetUpTo(c, n - 1)'
    BY <1>2, <1>5, <1>6, MetStays, Zenon DEF IInv, Progress
  <2>3. group = universe'[c].groups[n] /\ current' = c /\ next' = n + 1 /\ n \in Nat
    BY <1>2, Zenon DEF Groups, IInv, TypeOK
  <2> QED BY <2>1, <2>2, <2>3 DEF MetUpTo
<1>10. \A j \in selected' : \/ Waiting(j)' \/ j = current
                           \/ MetUpTo(j, Len(universe[j].groups))'
  BY <1>2, <1>5, <1>6, MetStays, Zenon DEF IInv, Progress
<1> QED BY <1>2, <1>3, <1>5, <1>7, <1>9, <1>10, Zenon DEF IInv, Progress

\* An unsatisfiable group ends the resolution with an error.
LEMMA UnsatisfiableKeeps == ASSUME IInv, Unsatisfiable PROVE IInv'
<1>1. UNCHANGED <<universe, requested, next, missing, selected, edges, queue, current>>
      /\ pc = "groups" /\ pc' = "unsatisfiable"
  BY DEF Unsatisfiable, Fail, inputs
<1>2. \A j : Waiting(j) => Waiting(j)'
  BY <1>1, Zenon DEF Waiting
<1>3. \A j \in selected' : \/ Waiting(j)' \/ j = current'
                          \/ MetUpTo(j, Len(universe[j].groups))'
  BY <1>1, <1>2, MetStays, Zenon DEF IInv, Progress
<1>4. TypeOK' /\ OneVersion'
  BY <1>1, Zenon DEF IInv, TypeOK, OneVersion, Places, Pairs, Outcomes, Name
<1> QED BY <1>1, <1>3, <1>4, Zenon DEF IInv, Progress

\* All groups of the current package are met.
LEMMA AllSatisfiedKeeps == ASSUME IInv, AllSatisfied PROVE IInv'
<1>1. UNCHANGED <<universe, requested, next, missing, selected, edges, queue>>
      /\ pc = "groups" /\ pc' = "pending" /\ next > Len(Groups) /\ current' = 0
  BY DEF AllSatisfied, inputs
<1> USE <1>1
<1>2. \A j : Waiting(j) => Waiting(j)'
  BY DEF Waiting
<1>3. MetUpTo(current, Len(universe[current].groups))
  <2>1. current \in Places
    BY Zenon DEF IInv, Progress, TypeOK
  <2>2. Len(universe[current].groups) \in Nat
    BY <2>1, PackageFields DEF IInv
  <2>3. MetUpTo(current, next - 1) /\ next \in Nat /\ next > Len(universe[current].groups)
    BY Zenon DEF IInv, Progress, TypeOK, Groups
  <2>4. \A g \in 1..Len(universe[current].groups) : g <= next - 1
    BY ONLY <2>2, <2>3
  <2> QED BY ONLY <2>3, <2>4, Zenon DEF MetUpTo
<1>4. \A j \in selected : Waiting(j) \/ MetUpTo(j, Len(universe[j].groups))
  BY <1>3, Zenon DEF IInv, Progress
<1>5. \A j \in selected' : Waiting(j)' \/ MetUpTo(j, Len(universe[j].groups))'
  BY Zenon, <1>2, <1>4, MetStays
<1>6. TypeOK' /\ OneVersion'
  BY Zenon DEF IInv, TypeOK, OneVersion, Places, Pairs, Outcomes, Name
<1> QED BY <1>1, <1>5, <1>6, Zenon DEF IInv, Progress

\* Steps of nothing keep the invariant.
LEMMA StutterKeeps == ASSUME IInv, UNCHANGED vars PROVE IInv'
<1>1. UNCHANGED <<universe, requested, pc, next, missing, selected, edges, queue, current>>
  BY DEF vars, inputs
<1> USE <1>1
<1>2. \A j : Waiting(j) => Waiting(j)'
  BY DEF Waiting
<1>3. \A i, n : MetUpTo(i, n) => MetUpTo(i, n)'
  BY Zenon, MetStays
<1>4. PICK c, n : c = current /\ n = next
  OBVIOUS
<1>5. pc = "groups" => MetUpTo(c, n - 1)'
  BY <1>3, <1>4, Zenon DEF IInv, Progress
<1>6. pc = "groups" => MetUpTo(current, next - 1)'
  BY Zenon, <1>4, <1>5
<1>7. TypeOK' /\ OneVersion'
  BY Zenon DEF IInv, TypeOK, OneVersion, Places, Pairs, Outcomes, Name
<1>8. \A j \in selected : MetUpTo(j, Len(universe[j].groups)) =>
                             MetUpTo(j, Len(universe[j].groups))'
  BY Zenon, <1>3
<1> QED BY <1>1, <1>2, <1>6, <1>7, <1>8, Zenon DEF IInv, Progress

\* The inductive invariant: types, one version of each name, and the progress
\* of the resolution through the queue.
THEOREM InductiveInvariant == Spec => []IInv
<1>1. Init => IInv
  BY Initially
<1>2. IInv /\ [Next]_vars => IInv'
  BY Zenon, BuildKeeps, RequestedKeeps, AllRequestedKeeps, TakeKeeps, FinishKeeps, SatisfyKeeps,
     UnsatisfiableKeeps, AllSatisfiedKeeps, StutterKeeps DEF Next
<1> QED BY <1>1, <1>2, PTL DEF Spec

\* Type correctness of the resolver for every universe and specification.
THEOREM TypeCorrect == Spec => []TypeOK
<1>1. IInv => TypeOK
  BY DEF IInv
<1> QED BY <1>1, InductiveInvariant, PTL

\* No name is locked in two versions, whatever the indexes hold.
THEOREM OneVersionHolds == Spec => []OneVersion
<1>1. IInv => OneVersion
  BY DEF IInv
<1> QED BY <1>1, InductiveInvariant, PTL

\* Every dependency of a locked package is met in the lock.
THEOREM ClosureCompleteHolds == Spec => []ClosureComplete
<1>1. IInv => ClosureComplete
  <2> SUFFICES ASSUME IInv, pc = "done", NEW i \in selected,
                      NEW g \in 1..Len(universe[i].groups)
               PROVE  Met(i, universe[i].groups[g])
    BY Zenon DEF ClosureComplete
  <2>1. MetUpTo(i, Len(universe[i].groups))
    BY DEF IInv, Progress, Waiting
  <2>2. Len(universe[i].groups) \in Nat
    BY PackageFields DEF IInv, TypeOK
  <2> QED BY <2>1, <2>2 DEF MetUpTo
<1> QED BY <1>1, InductiveInvariant, PTL

\* A clash of versions can only come from the specification.
THEOREM NoLateConflictHolds == Spec => []NoLateConflict
<1>1. IInv => NoLateConflict
  BY DEF IInv, Progress, NoLateConflict
<1> QED BY <1>1, InductiveInvariant, PTL

\* A lock is closed and has one version of each name, for every universe.
THEOREM LockIsClosedHolds == Spec => []LockIsClosed
  BY ClosureCompleteHolds, OneVersionHolds, NoLateConflictHolds, PTL DEF LockIsClosed
-----------------------------------------------------------------------------
\* Nothing is locked without a reason.

\* A set of numbers that is not empty has a least one.
LEMMA Least ==
    ASSUME NEW S \in SUBSET Nat, S # {}
    PROVE  \E x \in S : \A y \in S : x <= y
<1>1. \E x \in S : \A y \in S : ~(<<y, x>> \in OpToRel(<, Nat))
  BY NatLessThanWellFounded, WFMin, Zenon
<1>2. PICK x \in S : \A y \in S : ~(<<y, x>> \in OpToRel(<, Nat))
  BY <1>1, Zenon
<1>3. ASSUME NEW y \in S, y < x PROVE FALSE
  <2>1. <<y, x>> \in OpToRel(<, Nat)
    BY <1>3 DEF OpToRel
  <2> QED
    BY <1>2, <2>1, Zenon
<1> QED
  BY <1>3

\* There are no more different numbers in 1..l than l.
LEMMA Pigeonhole ==
    ASSUME NEW l \in Nat, NEW n \in Nat, NEW p \in [0..n -> 1..l], \A a, b \in 0..n : a < b => p[a] # p[b]
    PROVE  n < l
<1> DEFINE Apart(q, m) == q \in [0..m -> 1..m] /\ \A a, b \in 0..m : a < b => q[a] # q[b]
           T == {m \in Nat : \E q : Apart(q, m)}
<1>1. T = {}
  <2> SUFFICES ASSUME T # {} PROVE FALSE
    BY Zenon
  <2>1. T \in SUBSET Nat
    BY Zenon
  <2>2. PICK m \in T : \A y \in T : m <= y
    BY <2>1, Least, Zenon
  <2>3. PICK q : Apart(q, m)
    BY <2>2, Zenon
  <2>4. m \in Nat /\ m # 0
    <3>1. m \in Nat /\ q[0] \in 1..m
      BY <2>2, <2>3
    <3> QED
      BY <3>1
  <2> DEFINE h == [k \in 0..(m - 1) |-> IF q[k] = m THEN q[m] ELSE q[k]]
  <2>5. \A k \in 0..(m - 1) : k \in 0..m /\ q[k] \in 1..m /\ q[m] \in 1..m /\ q[k] # q[m]
    <3> SUFFICES ASSUME NEW k \in 0..(m - 1)
                 PROVE  k \in 0..m /\ q[k] \in 1..m /\ q[m] \in 1..m /\ q[k] # q[m]
      BY Zenon
    <3>1. k \in 0..m /\ m \in 0..m /\ k < m
      BY <2>4
    <3> QED
      BY <2>3, <3>1, Zenon
  <2>6. h \in [0..(m - 1) -> 1..(m - 1)]
    <3> SUFFICES ASSUME NEW k \in 0..(m - 1) PROVE h[k] \in 1..(m - 1)
      BY Zenon
    <3>1. q[k] \in 1..m /\ q[m] \in 1..m /\ q[k] # q[m]
      BY <2>5, Zenon
    <3>2. h[k] = IF q[k] = m THEN q[m] ELSE q[k]
      BY Zenon
    <3> HIDE DEF h, Apart
    <3> QED
      BY <2>4, <3>1, <3>2
  <2>7. \A a, b \in 0..(m - 1) : a < b => h[a] # h[b]
    BY Zenon, <2>3, <2>5
  <2>8. m - 1 \in T /\ ~(m <= m - 1)
    <3>1. m - 1 \in Nat /\ ~(m <= m - 1)
      BY <2>4
    <3> HIDE DEF h
    <3> QED
      BY <2>6, <2>7, <3>1, Zenon
  <2> QED
    BY <2>2, <2>8, Zenon
<1>2. ASSUME l <= n PROVE FALSE
  <2> DEFINE q == [k \in 0..l |-> p[k]]
  <2>1. Apart(q, l)
    BY <1>2
  <2> HIDE DEF Apart
  <2> QED
    BY <1>1, <2>1, Zenon
<1> QED
  BY <1>2

\* What is selected for the bootstrap set or for a request, and a way from it
\* along n recorded dependencies.
Roots == {i \in selected : i \in Bootstrap \/ \E k \in 1..Len(requested) :
                               i \in Candidates(AnyVersion(requested[k]))}
Dependency(i, j) == [from |-> i, to |-> j] \in edges
IsWay(p, n) ==
    /\ n \in Nat /\ p \in [0..n -> Places] /\ p[0] \in Roots
    /\ \A k \in 1..n : Dependency(p[k - 1], p[k])
Explained(j) == \E n, p : IsWay(p, n) /\ p[n] = j

\* A request is honoured as RequestsHonoured says.
Honoured(n) ==
    \E i \in selected :
        IF \E j \in Installable : Name(j) = requested[n]
        THEN Name(i) = requested[n] /\ IsNewest(i)
        ELSE i \in Candidates(AnyVersion(requested[n]))

\* While the lock is made: what is selected is explained, the bootstrap set is
\* there, and so is what was requested before the next name, or it is missing.
NeededInv ==
    /\ \A j \in selected : Explained(j)
    /\ pc \notin {"universe", "duplicate"} => Bootstrap \subseteq selected
    /\ pc = "universe" => next = 1
    /\ pc = "requested" => \A n \in 1..Len(requested) :
                               n < next => Honoured(n) \/ requested[n] \in missing
    /\ pc \in {"pending", "groups", "done"} => \A n \in 1..Len(requested) : Honoured(n)

\* What explains a package is never taken back: selection and edges only grow.
LEMMA SameRoots ==
    ASSUME UNCHANGED inputs, selected \subseteq selected', edges \subseteq edges'
    PROVE  /\ Installable' = Installable /\ Bootstrap' = Bootstrap
           /\ Roots \subseteq Roots'
           /\ \A n : Honoured(n) => Honoured(n)'
           /\ \A i : IsNewest(i) => IsNewest(i)'
           /\ \A j : Explained(j) => Explained(j)'
<1>1. UNCHANGED <<universe, requested>>
  BY DEF inputs
<1>2. Places' = Places /\ \A r : Candidates(r)' = Candidates(r)
  BY Zenon, <1>1, SameUniverse
<1>3. Installable' = Installable /\ Bootstrap' = Bootstrap /\ \A i : IsNewest(i)' = IsNewest(i)
  BY <1>1 DEF Bootstrap, IsNewest, Newer, Installable, Places, SameIdentity, Name, Version
<1>4. Roots \subseteq Roots'
  BY <1>1, <1>2, <1>3, Zenon DEF Roots
<1>5. \A n : Honoured(n) => Honoured(n)'
  BY <1>1, <1>2, <1>3, Zenon DEF Honoured, Name
<1>6. \A p, n : IsWay(p, n) => IsWay(p, n)'
  BY <1>2, <1>4, Zenon DEF IsWay, Dependency
<1>7. \A j : Explained(j) => Explained(j)'
  BY <1>6, Zenon DEF Explained
<1> QED
  BY <1>3, <1>4, <1>5, <1>7, Zenon

\* A requested or bootstrap package is explained by itself.
LEMMA RootExplained ==
    ASSUME TypeOK, NEW j \in Roots
    PROVE  Explained(j)
<1> DEFINE p == [k \in 0..0 |-> j]
<1>1. j \in Places
  BY Zenon DEF Roots, TypeOK
<1>2. IsWay(p, 0) /\ p[0] = j
  BY <1>1 DEF IsWay
<1> QED
  BY <1>2, Zenon DEF Explained

\* A way goes on along a dependency.
LEMMA WayOn ==
    ASSUME NEW n, NEW p, NEW j \in Places, IsWay(p, n), Dependency(p[n], j)
    PROVE  \E q : IsWay(q, n + 1) /\ q[n + 1] = j
<1> DEFINE q == [k \in 0..(n + 1) |-> IF k = n + 1 THEN j ELSE p[k]]
<1>2. n \in Nat /\ p \in [0..n -> Places] /\ p[0] \in Roots /\ \A k \in 1..n : Dependency(p[k - 1], p[k])
  BY Zenon DEF IsWay
<1>3. n + 1 \in Nat /\ q \in [0..(n + 1) -> Places] /\ q[0] = p[0] /\ q[n + 1] = j
  BY <1>2
<1>4. ASSUME NEW k \in 1..(n + 1) PROVE Dependency(q[k - 1], q[k])
  <2>1. CASE k = n + 1
    <3>1. q[k - 1] = p[n] /\ q[k] = j
      BY <1>2, <2>1
    <3> QED
      BY <3>1, Zenon
  <2>2. CASE k # n + 1
    <3>1. k \in 1..n /\ q[k - 1] = p[k - 1] /\ q[k] = p[k]
      BY <1>2, <2>2
    <3> QED
      BY <1>2, <3>1, Zenon
  <2> QED
    BY Zenon, <2>1, <2>2
<1> HIDE DEF q
<1>5. IsWay(q, n + 1)
  BY <1>2, <1>3, <1>4, Zenon DEF IsWay
<1> QED
  BY <1>3, <1>5, Zenon
\* A package that meets a group of an explained one is explained.
LEMMA DependencyExplained ==
    ASSUME NEW i, NEW j \in Places, Explained(i), Dependency(i, j)
    PROVE  Explained(j)
<1>1. PICK n, p : IsWay(p, n) /\ p[n] = i
  BY Zenon DEF Explained
<1>2. \E q : IsWay(q, n + 1) /\ q[n + 1] = j
  BY <1>1, WayOn, Zenon
<1> QED
  BY <1>2, Zenon DEF Explained

\* The same of the state after a step.
LEMMA ExplainedThen == TypeOK' => \A j \in Roots' : Explained(j)'
<1>1. TypeOK => \A j \in Roots : Explained(j)
  BY RootExplained, Zenon
<1>2. (TypeOK => \A j \in Roots : Explained(j))'
  BY <1>1, PTL
<1> QED
  BY <1>2, Zenon
\* The same after a step.
LEMMA DependencyThen == \A i, j : j \in Places' /\ Explained(i)' /\ Dependency(i, j)' => Explained(j)'
<1>1. \A i, j : j \in Places /\ Explained(i) /\ Dependency(i, j) => Explained(j)
  BY DependencyExplained, Zenon
<1>2. (\A i, j : j \in Places /\ Explained(i) /\ Dependency(i, j) => Explained(j))'
  BY <1>1, PTL
<1> QED
  BY <1>2, Zenon

\* Before resolve begins, there is nothing to explain.
LEMMA NeededBegins == ASSUME Init PROVE NeededInv
  BY Zenon DEF Init, ResolverStarts, NeededInv

\* Steps that select nothing.
LEMMA NeededStays ==
    ASSUME NeededInv, UNCHANGED <<inputs, selected, edges>>,
           \/ UNCHANGED <<pc, next, missing>>
           \/ pc = "universe" /\ pc' = "duplicate"
           \/ pc \in {"pending", "groups"} /\ pc' \in {"pending", "groups", "done", "unsatisfiable"}
    PROVE  NeededInv'
<1>1. /\ Bootstrap' = Bootstrap /\ \A n : Honoured(n) => Honoured(n)'
      /\ \A j : Explained(j) => Explained(j)'
  BY SameRoots, Zenon
<1>2. UNCHANGED <<requested, selected>>
  BY DEF inputs
<1>3. \A j \in selected' : Explained(j)'
  BY <1>1, <1>2, Zenon DEF NeededInv
<1>4. (/\ pc \notin {"universe", "duplicate"} => Bootstrap \subseteq selected
       /\ pc = "universe" => next = 1)'
  BY <1>1, <1>2, Zenon DEF NeededInv
<1>5. (pc = "requested" => \A n \in 1..Len(requested) : n < next => Honoured(n) \/ requested[n] \in missing)'
  BY <1>1, <1>2, Zenon DEF NeededInv
<1>6. (pc \in {"pending", "groups", "done"} => \A n \in 1..Len(requested) : Honoured(n))'
  BY <1>1, <1>2, Zenon DEF NeededInv
<1> QED
  BY <1>3, <1>4, <1>5, <1>6, Zenon DEF NeededInv

\* The bootstrap set is explained.
LEMMA BuildIsNeeded == ASSUME IInv, IInv', NeededInv, BuildUniverse PROVE NeededInv'
<1>1. CASE ConflictingDuplicate
  <2>1. UNCHANGED <<inputs, selected, edges>> /\ pc = "universe" /\ pc' = "duplicate"
    BY <1>1, Zenon DEF BuildUniverse, Fail
  <2> QED
    BY Zenon, <2>1, NeededStays
<1>2. CASE ~ConflictingDuplicate
  <2>1. UNCHANGED <<inputs, edges, next>> /\ pc = "universe" /\ pc' = "requested" /\ selected' = Bootstrap
    BY <1>2, Zenon DEF BuildUniverse
  <2>2. selected = {} /\ next = 1 /\ next' = 1
    BY <2>1, Zenon DEF IInv, Progress, NeededInv
  <2>3. Bootstrap' = Bootstrap
    BY <2>1, <2>2, SameRoots, Zenon
  <2>4. \A j \in selected' : j \in Roots'
    BY <2>1, <2>3, Zenon DEF Roots
  <2>5. \A j \in selected' : Explained(j)'
    BY <2>4, ExplainedThen, Zenon DEF IInv
  <2> QED
    BY <2>1, <2>2, <2>3, <2>5 DEF NeededInv, IInv
<1> QED
  BY <1>1, <1>2, Zenon

\* A package of a requested name is a candidate for it.
LEMMA RealCandidate ==
    ASSUME NEW name, NEW j \in Installable, Name(j) = name
    PROVE  j \in Candidates(AnyVersion(name)) /\ IsReal(j, AnyVersion(name))
<1> DEFINE r == AnyVersion(name)
<1>1. r.name = name /\ r.foreign = "no" /\ r.operator = "none"
  BY Zenon DEF AnyVersion
<1> HIDE DEF r
<1> QED
  BY <1>1, Zenon DEF Candidates, ArchitectureMatches, IsReal, Accepts, r

\* Of a requested name the newest package is first.
LEMMA FirstIsNewest ==
    ASSUME TypeOK, NEW name \in Nat, NEW i,
           LET r == AnyVersion(name)
               real == {j \in Candidates(r) : Name(j) = name}
           IN  IsFirst(r, i, real)
    PROVE  Name(i) = name /\ IsNewest(i)
<1> DEFINE r == AnyVersion(name)
<1>2. \A j \in Installable : Name(j) = name => j \in Candidates(r) /\ IsReal(j, r)
  BY RealCandidate, Zenon
<1> HIDE DEF r
<1>3. i \in Candidates(r) /\ Name(i) = name /\ i \in Installable
  BY Zenon DEF IsFirst, Candidates, r
<1>4. \A j \in Installable : Name(j) = name => Preferred(r, i, j)
  BY <1>2, Zenon DEF IsFirst, r
<1>5. \A j \in Installable : Name(j) = name => j = i \/ Newer(i, j)
  BY <1>2, <1>3, <1>4, Zenon DEF Preferred
<1> QED
  BY <1>3, <1>5, Zenon DEF IsNewest

\* A request that has been looked at without a conflict is honoured or missing.
LEMMA RequestedIsNeeded == ASSUME IInv, IInv', NeededInv, SelectRequested PROVE NeededInv'
<1>0. PICK x, name : x = next /\ name = requested[next]
  OBVIOUS
<1> DEFINE r == AnyVersion(name)
           real == {i \in Candidates(r) : Name(i) = name}
<1>1. /\ UNCHANGED <<inputs, edges>> /\ UNCHANGED <<universe, requested>> /\ next' = x + 1
      /\ pc = "requested" /\ next <= Len(requested)
  BY <1>0, Zenon DEF SelectRequested, inputs
<1>2. x \in 1..Len(requested) /\ name \in Nat /\ name = requested'[x] /\ x \in Nat
  BY <1>0, <1>1 DEF IInv, TypeOK
<1>3. /\ selected \subseteq selected'
      /\ selected' = selected \/ (\E i \in selected' : selected' \subseteq selected \cup {i} /\ i \in Candidates(r))
      /\ missing \subseteq missing'
      /\ pc' = "requested" => \/ name \in missing'
                              \/ \E i \in selected' : /\ i \in Candidates(r)
                                                      /\ real # {} => IsFirst(r, i, real)
      /\ pc' \in {"requested", "conflict", "virtual"}
  <2> HIDE DEF r
  <2>1. \/ \E i \in Candidates(r) : /\ select(i, "requested") /\ UNCHANGED missing
                                    /\ real # {} => IsFirst(r, i, real)
        \/ /\ UNCHANGED <<selected, missing>> /\ pc' = "virtual"
        \/ /\ UNCHANGED <<pc, selected>> /\ missing' = missing \cup {name}
    BY <1>0, Zenon DEF SelectRequested, FirstReal, r
  <2>2. CASE \E i \in Candidates(r) : /\ select(i, "requested") /\ UNCHANGED missing
                                      /\ real # {} => IsFirst(r, i, real)
    <3>1. PICK i \in Candidates(r) : /\ select(i, "requested") /\ UNCHANGED missing
                                     /\ real # {} => IsFirst(r, i, real)
      BY <2>2, Zenon
    <3>2. CASE Taken(Name(i)) = {}
      BY <3>1, <3>2, Zenon DEF select
    <3>3. CASE Taken(Name(i)) # {}
      BY <3>1, <3>3, Zenon DEF select
    <3> QED
      BY <3>2, <3>3, Zenon
  <2>3. CASE UNCHANGED <<selected, missing>> /\ pc' = "virtual"
    BY <2>3, Zenon
  <2>4. CASE UNCHANGED <<pc, selected>> /\ missing' = missing \cup {name}
    BY <1>1, <2>4, Zenon
  <2> QED
    BY <2>1, <2>2, <2>3, <2>4, Zenon
<1>4. /\ Installable' = Installable /\ Bootstrap' = Bootstrap /\ \A n : Honoured(n) => Honoured(n)'
      /\ \A j : Explained(j) => Explained(j)'
  BY <1>1, <1>3, SameRoots, Zenon
<1>5. /\ \A i : Name(i)' = Name(i)
      /\ \A q : Candidates(q)' = Candidates(q)
      /\ \A i : IsNewest(i) => IsNewest(i)'
  <2>1. \A i : IsNewest(i) => IsNewest(i)'
    BY <1>1, <1>3, SameRoots, Zenon
  <2> QED
    BY <1>1, <2>1, SameUniverse, Zenon
<1>6. \A j \in selected' : Explained(j)'
  <2> SUFFICES ASSUME NEW j \in selected', j \notin selected PROVE Explained(j)'
    BY <1>4, Zenon DEF NeededInv
  <2>1. j \in Candidates(r)
    BY <1>3, Zenon
  <2>2. (j \in Candidates(AnyVersion(name)))'
    BY <1>5, <2>1, Zenon
  <2>3. x \in 1..Len(requested')
    BY <1>1, <1>2, Zenon
  <2>4. j \in Roots'
    BY <1>2, <2>2, <2>3, Zenon DEF Roots
  <2> QED
    BY <2>4, ExplainedThen, Zenon DEF IInv
<1>7. ASSUME pc' = "requested" PROVE Honoured(x)' \/ requested'[x] \in missing'
  <2>1. CASE name \in missing'
    BY <1>2, <2>1, Zenon
  <2>2. CASE name \notin missing'
    <3>1. PICK i \in selected' : i \in Candidates(r) /\ (real # {} => IsFirst(r, i, real))
      BY <1>3, <1>7, <2>2, Zenon
    <3>2. (i \in Candidates(AnyVersion(name)))'
      BY <1>5, <3>1, Zenon
    <3>3. (\E j \in Installable' : Name(j)' = name) => Name(i)' = name /\ IsNewest(i)'
      <4> SUFFICES ASSUME NEW j \in Installable', Name(j)' = name PROVE Name(i)' = name /\ IsNewest(i)'
        BY Zenon
      <4>0. j \in Installable /\ Name(j) = name
        BY <1>4, <1>5, Zenon
      <4>1. j \in Candidates(r)
        BY <4>0, RealCandidate, Zenon
      <4>2. IsFirst(r, i, real)
        BY <3>1, <4>0, <4>1, Zenon
      <4>3. Name(i) = name /\ IsNewest(i)
        BY <1>2, <4>2, FirstIsNewest, Zenon DEF IInv
      <4> QED
        BY <1>5, <4>3, Zenon
    <3> QED
      BY <1>2, <3>2, <3>3, Zenon DEF Honoured
  <2> QED
    BY <2>1, <2>2, Zenon
<1>8. ASSUME pc' = "requested", NEW n \in 1..Len(requested), n < x + 1
      PROVE  Honoured(n)' \/ requested[n] \in missing'
  <2>1. CASE n = x
    BY <1>1, <1>7, <1>8, <2>1, Zenon
  <2>2. CASE n # x
    <3>1. n < next
      BY <1>0, <1>2, <1>8, <2>2 DEF IInv, TypeOK
    <3> QED
      BY <1>1, <1>3, <1>4, <3>1, Zenon DEF NeededInv
  <2> QED
    BY <2>1, <2>2, Zenon
<1> QED
  BY <1>1, <1>3, <1>4, <1>6, <1>8, Zenon DEF NeededInv

\* The end of the loop over the requested names selects nothing.
LEMMA AllRequestedIsNeeded == ASSUME IInv, NeededInv, AllRequested PROVE NeededInv'
<1>1. /\ UNCHANGED <<inputs, selected, edges>> /\ UNCHANGED <<requested>> /\ pc = "requested" /\ next > Len(requested)
      /\ pc' = IF missing = {} THEN "pending" ELSE "missing"
  BY Zenon DEF AllRequested, inputs
<1>2. /\ Bootstrap' = Bootstrap /\ \A n : Honoured(n) => Honoured(n)'
      /\ \A j : Explained(j) => Explained(j)'
  BY <1>1, SameRoots, Zenon
<1>3. \A n \in 1..Len(requested) : n < next
  BY <1>1 DEF IInv, TypeOK
<1> QED
  BY <1>1, <1>2, <1>3, Zenon DEF NeededInv

\* A package that satisfies a group and was not selected has another name than
\* the one that depends on it, so the dependency is recorded.
LEMMA SatisfyIsNeeded == ASSUME IInv, IInv', NeededInv, SatisfyGroup PROVE NeededInv'
<1>1. PICK i \in Installable :
        /\ Satisfies(Groups[next], i)
        /\ select(i, "groups")
        /\ edges' = IF Name(i) = Name(current) THEN edges
                    ELSE edges \cup {[from |-> current, to |-> i]}
  BY Zenon DEF SatisfyGroup
<1>2. /\ UNCHANGED inputs /\ UNCHANGED <<universe, requested, current>> /\ pc = "groups"
  BY Zenon DEF SatisfyGroup, inputs
<1>3. i \in Places /\ current \in Places /\ current \in selected
  BY <1>2, Zenon DEF Installable, IInv, Progress, TypeOK
<1>4. selected \subseteq selected' /\ selected' \subseteq selected \cup {i} /\ pc' \in {"groups", "conflict"}
  BY <1>1, Zenon DEF select
<1>5. edges \subseteq edges'
  BY <1>1, Zenon
<1>6. /\ Bootstrap' = Bootstrap /\ \A n : Honoured(n) => Honoured(n)'
      /\ \A j : Explained(j) => Explained(j)'
  BY <1>2, <1>4, <1>5, SameRoots, Zenon
<1>7. ASSUME i \in selected', i \notin selected PROVE Explained(i)'
  <2>1. Taken(Name(i)) = {}
    BY <1>1, <1>7, Zenon DEF select
  <2>2. Name(i) # Name(current)
    BY <1>3, <2>1, Zenon DEF Taken
  <2>3. PICK c : c = current
    OBVIOUS
  <2>4. [from |-> c, to |-> i] \in edges'
    BY <1>1, <2>2, <2>3, Zenon
  <2>5. Explained(c)'
    BY <1>3, <1>6, <2>3, Zenon DEF NeededInv
  <2>6. Dependency(c, i)' /\ i \in Places'
    BY <1>2, <1>3, <2>4, SameUniverse, Zenon DEF Dependency
  <2> QED
    BY <2>5, <2>6, DependencyThen, Zenon
<1>8. \A j \in selected' : Explained(j)'
  BY <1>4, <1>6, <1>7, Zenon DEF NeededInv
<1> QED
  BY <1>2, <1>4, <1>6, <1>8, Zenon DEF NeededInv

\* NeededInv is an invariant of the resolution.
LEMMA NeededInductive == Spec => []NeededInv
<1>1. IInv /\ IInv' /\ NeededInv /\ [Next]_vars => NeededInv'
  <2> SUFFICES ASSUME IInv, IInv', NeededInv, [Next]_vars PROVE NeededInv'
    OBVIOUS
  <2>1. CASE TakePackage \/ Finish \/ AllSatisfied \/ Unsatisfiable
    <3>1. UNCHANGED <<inputs, selected, edges>> /\ pc \in {"pending", "groups"}
          /\ pc' \in {"pending", "groups", "done", "unsatisfiable"}
      BY <2>1, Zenon DEF TakePackage, Finish, AllSatisfied, Unsatisfiable, Fail
    <3> QED
      BY <3>1, NeededStays, Zenon
  <2>2. CASE UNCHANGED vars
    <3>1. UNCHANGED <<inputs, selected, edges>> /\ UNCHANGED <<pc, next, missing>>
      BY <2>2, Zenon DEF vars
    <3> QED
      BY <3>1, NeededStays, Zenon
  <2> QED
    BY <2>1, <2>2, BuildIsNeeded, RequestedIsNeeded, AllRequestedIsNeeded, SatisfyIsNeeded, Zenon DEF Next
<1>2. Init => NeededInv
  BY NeededBegins
<1> QED
  BY <1>1, <1>2, InductiveInvariant, PTL DEF Spec

\* The beginning of a way is one.
LEMMA WayBefore ==
    ASSUME NEW n, NEW p, IsWay(p, n), NEW m \in 0..n
    PROVE  \E q : IsWay(q, m) /\ q[m] = p[m]
<1> DEFINE q == [k \in 0..m |-> p[k]]
<1>1. n \in Nat /\ p \in [0..n -> Places] /\ p[0] \in Roots /\ \A k \in 1..n : Dependency(p[k - 1], p[k])
  BY Zenon DEF IsWay
<1>2. m \in Nat /\ q \in [0..m -> Places] /\ q[0] = p[0] /\ q[m] = p[m]
  BY <1>1
<1>3. ASSUME NEW k \in 1..m PROVE Dependency(q[k - 1], q[k])
  <2>1. k \in 1..n /\ q[k - 1] = p[k - 1] /\ q[k] = p[k]
    BY <1>1, <1>2
  <2> QED
    BY <1>1, <2>1, Zenon
<1> HIDE DEF q
<1> QED
  BY <1>1, <1>2, <1>3, Zenon DEF IsWay

\* The recursive definition of Reached has a solution: what is reached along at
\* most n dependencies.
LEMMA ReachedIs ==
    ASSUME TypeOK
    PROVE  /\ Reached[0] = Roots
           /\ \A n \in Nat \ {0} : Reached[n] = Reached[n - 1] \cup {e.to : e \in {e \in edges : e.from \in Reached[n - 1]}}
<1> DEFINE On(S) == S \cup {e.to : e \in {e \in edges : e.from \in S}}
           Within(n) == {j \in Places : \E m \in 0..n : \E p : IsWay(p, m) /\ p[m] = j}
           F(f) == [n \in Nat |-> IF n = 0 THEN Roots ELSE On(f[n - 1])]
           g == [n \in Nat |-> Within(n)]
<1>1. Within(0) = Roots
  <2>1. \A j \in Roots : j \in Places /\ \E p : IsWay(p, 0) /\ p[0] = j
    <3> TAKE j \in Roots
    <3> DEFINE p == [k \in 0..0 |-> j]
    <3>1. j \in Places
      BY Zenon DEF Roots, TypeOK
    <3>2. IsWay(p, 0) /\ p[0] = j
      BY <3>1 DEF IsWay
    <3> QED
      BY <3>1, <3>2, Zenon
  <2>2. 0 \in 0..0 /\ \A m \in 0..0 : m = 0
    OBVIOUS
  <2> QED
    BY <2>1, <2>2, Zenon DEF IsWay
<1>2. ASSUME NEW n \in Nat \ {0} PROVE Within(n) = On(Within(n - 1))
  <2>1. n - 1 \in Nat /\ (n - 1) + 1 = n /\ \A m \in 0..n : m \in 0..(n - 1) \/ m = n
    OBVIOUS
  <2>2. \A m \in 0..(n - 1) : m \in 0..n /\ m + 1 \in 0..n
    BY <2>1
  <2>3. ASSUME NEW j \in Within(n) PROVE j \in On(Within(n - 1))
    <3>0. PICK m \in 0..n : \E p : IsWay(p, m) /\ p[m] = j
      BY <2>3, Zenon
    <3>1. PICK p : IsWay(p, m) /\ p[m] = j
      BY <3>0, Zenon
    <3>2. CASE m \in 0..(n - 1)
      BY <2>3, <3>1, <3>2, Zenon
    <3>3. CASE m = n
      <4>1. n - 1 \in 0..n /\ n - 1 \in 0..(n - 1) /\ n \in 1..n
        BY <2>1
      <4>2. \E q : IsWay(q, n - 1) /\ q[n - 1] = p[n - 1]
        <5>1. IsWay(p, n)
          BY <3>1, <3>3, Zenon
        <5> QED  BY <4>1, <5>1, WayBefore, Zenon
      <4>3. p[n - 1] \in Places /\ Dependency(p[n - 1], j)
        BY <3>1, <3>3, <4>1, Zenon DEF IsWay
      <4>4. p[n - 1] \in Within(n - 1)
        BY <4>1, <4>2, <4>3, Zenon
      <4> HIDE DEF Within
      <4> DEFINE e == [from |-> p[n - 1], to |-> j]
      <4>5. e \in edges /\ e.from = p[n - 1] /\ e.to = j
        BY <4>3, Zenon DEF Dependency
      <4> QED
        BY Zenon, <4>4, <4>5
    <3> QED
      BY <2>1, <3>1, <3>2, <3>3, Zenon
  <2>4. ASSUME NEW j \in Within(n - 1) PROVE j \in Within(n)
    BY <2>2, <2>4, Zenon
  <2>5. ASSUME NEW e \in edges, e.from \in Within(n - 1) PROVE e.to \in Within(n)
    <3>1. e = [from |-> e.from, to |-> e.to] /\ e.to \in Places
      BY Zenon DEF TypeOK, Pairs
    <3>2. Dependency(e.from, e.to)
      BY <3>1, Zenon DEF Dependency
    <3>0. PICK m \in 0..(n - 1) : \E p : IsWay(p, m) /\ p[m] = e.from
      BY <2>5, Zenon
    <3>3. PICK p : IsWay(p, m) /\ p[m] = e.from
      BY <3>0, Zenon
    <3>4. \E q : IsWay(q, m + 1) /\ q[m + 1] = e.to
      BY <3>1, <3>2, <3>3, WayOn, Zenon
    <3> QED
      BY <2>2, <3>1, <3>3, <3>4, Zenon
  <2> HIDE DEF Within
  <2> QED
    BY Zenon, <2>3, <2>4, <2>5
<1> HIDE DEF Within
<1>3. g = F(g)
  <2>1. \A n \in Nat : n # 0 => n - 1 \in Nat /\ g[n - 1] = Within(n - 1)
    OBVIOUS
  <2>2. \A n \in Nat : g[n] = IF n = 0 THEN Roots ELSE On(g[n - 1])
    <3> HIDE DEF On
    <3> QED
      BY Zenon, <1>1, <1>2, <2>1
  <2> HIDE DEF On
  <2> QED
    BY Zenon, <2>2
<1> DEFINE f == CHOOSE h : h = F(h)
<1>4. f = F(f)
  BY <1>3, Zenon
<1>5. Reached = f
  BY Zenon DEF Reached, Roots
<1> HIDE DEF f
<1>6. \A n \in Nat : f[n] = IF n = 0 THEN Roots ELSE On(f[n - 1])
  <2> HIDE DEF On
  <2> QED
    BY Zenon, <1>4
<1> QED
  BY <1>5, <1>6, Zenon

\* What a way leads to is reached, and what is reached stays so.
LEMMA WayReaches ==
    ASSUME TypeOK, NEW n, NEW p, IsWay(p, n), NEW m \in Nat, n <= m
    PROVE  p[n] \in Reached[m]
<1>1. /\ Reached[0] = Roots
      /\ \A k \in Nat \ {0} : Reached[k] = Reached[k - 1] \cup {e.to : e \in {e \in edges : e.from \in Reached[k - 1]}}
  BY ReachedIs, Zenon
<1>2. n \in Nat /\ p[0] \in Roots /\ \A k \in 1..n : Dependency(p[k - 1], p[k])
  BY Zenon DEF IsWay
<1>3. \A k \in 0..n : p[k] \in Reached[k]
  <2> DEFINE T == {k \in 0..n : p[k] \notin Reached[k]}
  <2>1. T = {}
    <3> SUFFICES ASSUME T # {} PROVE FALSE
      OBVIOUS
    <3>1. T \in SUBSET Nat
      BY <1>2
    <3>2. PICK k \in T : \A y \in T : k <= y
      BY <3>1, Least, Zenon
    <3>3. k # 0
      BY <1>1, <1>2, <3>2, Zenon
    <3>4. k - 1 \in 0..n /\ ~(k <= k - 1) /\ k \in 1..n /\ k \in Nat \ {0}
      BY <1>2, <3>2, <3>3
    <3>5. p[k - 1] \in Reached[k - 1]
      BY <3>2, <3>4, Zenon
    <3> DEFINE e == [from |-> p[k - 1], to |-> p[k]]
    <3>6. e \in edges /\ e.from = p[k - 1] /\ e.to = p[k]
      BY <1>2, <3>4, Zenon DEF Dependency
    <3> HIDE DEF e
    <3>7. e.to \in Reached[k]
      BY <1>1, <3>4, <3>5, <3>6
    <3> QED
      BY <3>2, <3>6, <3>7, Zenon
  <2> QED
    BY <2>1, Zenon
<1>4. \A k \in n..m : p[n] \in Reached[k]
  <2> DEFINE T == {k \in n..m : p[n] \notin Reached[k]}
  <2>1. T = {}
    <3> SUFFICES ASSUME T # {} PROVE FALSE
      BY Zenon
    <3>1. T \in SUBSET Nat
      BY <1>2
    <3>2. PICK k \in T : \A y \in T : k <= y
      BY <3>1, Least, Zenon
    <3>3. k # n
      <4>1. n \in 0..n
        BY <1>2
      <4> QED
        BY <1>3, <3>2, <4>1, Zenon
    <3>4. k - 1 \in n..m /\ ~(k <= k - 1) /\ k \in Nat \ {0}
      BY <1>2, <3>2, <3>3
    <3>5. p[n] \in Reached[k - 1]
      BY <3>2, <3>4, Zenon
    <3> QED
      BY <1>1, <3>2, <3>4, <3>5, Zenon
  <2> QED
    BY <2>1, Zenon
<1>5. m \in n..m
  BY <1>2
<1> QED
  BY <1>4, <1>5, Zenon

\* A way that comes to a package twice can be made shorter.
LEMMA WayWithout ==
    ASSUME NEW n, NEW p, IsWay(p, n), NEW a \in 0..n, NEW b \in 0..n, a < b, p[a] = p[b]
    PROVE  \E m \in Nat : m < n /\ \E q : IsWay(q, m) /\ q[m] = p[n]
<1> DEFINE d == b - a
           m == n - d
           q == [k \in 0..m |-> IF k <= a THEN p[k] ELSE p[k + d]]
<1>1. n \in Nat /\ p \in [0..n -> Places] /\ p[0] \in Roots /\ \A k \in 1..n : Dependency(p[k - 1], p[k])
  BY Zenon DEF IsWay
<1>2. d \in Nat /\ d > 0 /\ m \in Nat /\ m < n /\ m >= a /\ a \in Nat /\ a + d = b /\ m + d = n /\ b <= n
  BY <1>1
<1> HIDE DEF d, m
<1>3. \A k \in 0..m : k \in 0..n /\ (k > a => k + d \in 0..n)
  BY <1>1, <1>2
<1>4. q \in [0..m -> Places] /\ q[0] = p[0]
  BY <1>1, <1>2, <1>3
<1>5. q[m] = p[n]
  <2>1. CASE m = a
    <3>1. n = b
      BY Zenon, <1>2, <2>1
    <3> QED
      BY <1>2, <2>1, <3>1
  <2>2. CASE m # a
    BY <1>2, <2>2
  <2> QED
    BY Zenon, <2>1, <2>2
<1>6. ASSUME NEW k \in 1..m PROVE Dependency(q[k - 1], q[k])
  <2>1. CASE k <= a
    <3>1. k \in 1..n /\ q[k - 1] = p[k - 1] /\ q[k] = p[k]
      BY <1>2, <2>1
    <3> QED
      BY <1>1, <3>1, Zenon
  <2>2. CASE k = a + 1
    <3>1. k + d \in 1..n /\ (k + d) - 1 = b /\ q[k - 1] = p[a] /\ q[k] = p[k + d]
      BY <1>2, <2>2
    <3> QED
      BY <1>1, <3>1, Zenon
  <2>3. CASE k > a + 1
    <3>1. k + d \in 1..n /\ (k + d) - 1 = (k - 1) + d /\ q[k - 1] = p[(k - 1) + d] /\ q[k] = p[k + d]
      BY <1>2, <2>3
    <3> QED
      BY <1>1, <3>1, Zenon
  <2>4. k <= a \/ k = a + 1 \/ k > a + 1
    BY <1>2
  <2> QED
    BY <2>1, <2>2, <2>3, <2>4, Zenon
<1> HIDE DEF q
<1>7. IsWay(q, m)
  BY <1>1, <1>2, <1>4, <1>6, Zenon DEF IsWay
<1> QED
  BY <1>2, <1>5, <1>7, Zenon

\* A shortest way has no package twice, so it is no longer than the universe.
LEMMA ShortWay ==
    ASSUME TypeOK, NEW j, Explained(j)
    PROVE  \E n, p : IsWay(p, n) /\ p[n] = j /\ n <= Len(universe)
<1> DEFINE S == {n \in Nat : \E p : IsWay(p, n) /\ p[n] = j}
<1>1. S \in SUBSET Nat /\ S # {}
  BY Zenon DEF Explained, IsWay
<1>2. PICK n \in S : \A y \in S : n <= y
  BY <1>1, Least, Zenon
<1>3. PICK p : IsWay(p, n) /\ p[n] = j
  BY <1>2, Zenon
<1>4. n \in Nat /\ Len(universe) \in Nat /\ p \in [0..n -> 1..Len(universe)]
  <2>1. Len(universe) \in Nat
    BY DEF TypeOK
  <2> QED
    BY <1>3, <2>1, Zenon DEF IsWay, Places
<1>5. ASSUME NEW a \in 0..n, NEW b \in 0..n, a < b, p[a] = p[b] PROVE FALSE
  <2>1. PICK m \in Nat : m < n /\ \E q : IsWay(q, m) /\ q[m] = p[n]
    BY <1>3, <1>5, WayWithout, Zenon
  <2>2. m \in S
    BY <1>3, <2>1, Zenon
  <2>3. n <= m
    BY <1>2, <2>2, Zenon
  <2> QED
    BY <1>4, <2>1, <2>3
<1>6. ASSUME ~(n <= Len(universe)) PROVE FALSE
  <2>1. \A a, b \in 0..n : a < b => p[a] # p[b]
    BY <1>5, Zenon
  <2>2. n < Len(universe)
    BY <1>4, <2>1, Pigeonhole, Zenon
  <2> QED
    BY <1>4, <1>6, <2>2
<1> QED
  BY <1>3, <1>6, Zenon

\* _select_bootstrap and _select_requested: the lock has what was asked for.
THEOREM RequestsHonouredHolds == Spec => []RequestsHonoured
<1>1. NeededInv => RequestsHonoured
  BY Zenon DEF NeededInv, RequestsHonoured, Honoured
<1> QED
  BY <1>1, NeededInductive, PTL

\* resolve: every package of a lock is reached from what was asked for.
THEOREM NothingUnneededHolds == Spec => []NothingUnneeded
<1>1. IInv /\ NeededInv => NothingUnneeded
  <2> SUFFICES ASSUME TypeOK, NeededInv, NEW j \in selected PROVE j \in Reached[Len(universe)]
    BY Zenon DEF NothingUnneeded, IInv
  <2>1. PICK n, p : IsWay(p, n) /\ p[n] = j /\ n <= Len(universe)
    BY ShortWay, Zenon DEF NeededInv
  <2>2. Len(universe) \in Nat
    BY DEF TypeOK
  <2> QED
    BY <2>1, <2>2, WayReaches, Zenon
<1> QED
  BY <1>1, NeededInductive, InductiveInvariant, PTL

\* A lock is what the specification asked for and nothing else, for every
\* universe and every specification.
THEOREM LockIsNeededHolds == Spec => []LockIsNeeded
  BY RequestsHonouredHolds, NothingUnneededHolds, PTL DEF LockIsNeeded

-----------------------------------------------------------------------------
\* refresh: for any number of runs, snapshots and files.

AfterLock == {"python", "provenance", "provenancefill", "users", "userfill",
              "archive", "archivefill"}
AfterProvenance == {"users", "userfill", "archive", "archivefill"}

\* How far the files of the tools have been moved at each place of the run.
ToolsMoved ==
    /\ doing = "lock" => spec \in {new, Truncated}
    /\ doing \in {"lockfill"} \cup AfterLock => spec = new
    /\ doing \in AfterLock => lock = new
    /\ doing \in AfterProvenance => provenance.snapshot = new
    /\ doing \notin {"idle", "provenancefill", "archivefill"} => whole = "yes"
    /\ provenance.lock = provenance.snapshot
    /\ outcome = "success" => doing = "idle"
    /\ SuccessIsConsistent

\* Where the other files are, as long as no run ended in the loop: they follow
\* the provenance before the loop and the new snapshot behind it.
UsersMoved ==
    /\ doing \notin {"idle"} \cup AfterProvenance => old = provenance.snapshot
    /\ doing = "provenancefill" => todo = Users
    /\ doing = "userfill" => file \in Users /\ file \notin todo
    /\ stranded = "no" =>
        /\ doing \notin {"users", "userfill"} =>
            \A u \in Users : users[u] = provenance.snapshot
        /\ doing \in {"users", "userfill"} =>
            \A u \in Users : IF u \in todo THEN users[u] = old
                             ELSE users[u] = new \/ (doing = "userfill" /\ u = file)

RefreshInv == RefreshTypeOK /\ ToolsMoved /\ UsersMoved

\* Before the first refresh all pins agree.
LEMMA RefreshBegins == RefreshInit => RefreshInv
  BY RefreshAssumption
  DEF RefreshInit, RefreshInv, RefreshTypeOK, ToolsMoved, UsersMoved, SuccessIsConsistent, Contents, RefreshPlaces,
      AfterLock, AfterProvenance

\* Every step of a refresh, early ends included, keeps RefreshInv.
LEMMA RefreshKeeps == RefreshInv /\ [RefreshNext]_refreshVars => RefreshInv'
<1> SUFFICES ASSUME RefreshInv, [RefreshNext]_refreshVars PROVE RefreshInv'
  OBVIOUS
<1> USE RefreshAssumption DEF RefreshInv, RefreshTypeOK, ToolsMoved, UsersMoved, SuccessIsConsistent,
        Contents, RefreshPlaces, AfterLock, AfterProvenance, End, Goto, Same, Values, Archive, checkout
<1>1. ASSUME NEW s \in Snapshots, Start(s) PROVE RefreshInv'
  BY <1>1 DEF Start
<1>3. CASE StepFails
  BY <1>3, Zenon DEF StepFails
<1>4. CASE OpenSpec
  BY <1>4, Zenon DEF OpenSpec
<1>5. CASE FillSpec
  BY <1>5, Zenon DEF FillSpec
<1>6. CASE OpenLock
  BY <1>6, Zenon DEF OpenLock
<1>7. CASE FillLock
  BY <1>7, Zenon DEF FillLock
<1>8. CASE PinPython
  BY <1>8, Zenon DEF PinPython
<1>9. CASE OpenProvenance
  BY <1>9, Zenon DEF OpenProvenance
<1>10. CASE FillProvenance
  BY <1>10, Zenon DEF FillProvenance
<1>11. CASE OpenUser
  BY <1>11, Zenon DEF OpenUser
<1>12. CASE FillUser
  BY <1>12, Zenon DEF FillUser
<1>13. CASE UsersDone
  BY <1>13, Zenon DEF UsersDone
<1>14. CASE OpenArchive
  BY <1>14, Zenon DEF OpenArchive
<1>15. CASE FillArchive
  BY <1>15, Zenon DEF FillArchive
<1>16. CASE UNCHANGED refreshVars
  BY <1>16 DEF refreshVars, process
<1> HIDE DEF RefreshInv
<1> QED BY Zenon, <1>1, <1>3, <1>4, <1>5, <1>6, <1>7, <1>8, <1>9, <1>10, <1>11, <1>12,
           <1>13, <1>14, <1>15, <1>16 DEF RefreshNext

\* The inductive invariant: which files have been moved at each place of a run.
THEOREM RefreshInvariant == RefreshSpec => []RefreshInv
  BY RefreshBegins, RefreshKeeps, PTL DEF RefreshSpec

\* Success is consistent, after any sequence of runs that ended early.
THEOREM SuccessIsConsistentHolds == RefreshSpec => []SuccessIsConsistent
<1>1. RefreshInv => SuccessIsConsistent
  BY Zenon DEF RefreshInv, ToolsMoved
<1> QED BY <1>1, RefreshInvariant, PTL

\* The provenance never pairs a snapshot with the lock of another.
THEOREM DigestMatchesSnapshotHolds == RefreshSpec => []DigestMatchesSnapshot
<1>1. RefreshInv => DigestMatchesSnapshot
  BY Zenon DEF RefreshInv, ToolsMoved, DigestMatchesSnapshot
<1> QED BY <1>1, RefreshInvariant, PTL

\* The pins agree, after any sequence of runs that ended early.
THEOREM PinsAgreeHolds == RefreshSpec => []PinsAgree
  BY SuccessIsConsistentHolds, DigestMatchesSnapshotHolds, PTL DEF PinsAgree

\* Success has moved every file, after any sequence of runs that ended early
\* outside the loop over these files.
THEOREM FailuresAreRepeatableHolds == RefreshSpec => []FailuresAreRepeatable
<1>1. RefreshInv => FailuresAreRepeatable
  BY DEF RefreshInv, ToolsMoved, UsersMoved, SuccessIsConsistent, FailuresAreRepeatable
<1> QED BY <1>1, RefreshInvariant, PTL
=============================================================================
