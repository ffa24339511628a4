---------------------------- MODULE LockResolver ----------------------------
(***************************************************************************)
(* mkosi/debian/generate_lock.py: the install closure that a Debian lock   *)
(* records.  The universe is built from the package indexes; the bootstrap *)
(* set and the requested packages are selected; then every group of        *)
(* alternatives of every selected package is satisfied, in the order of a  *)
(* queue, by a selected package or by the first candidate whose name is    *)
(* still free.  Nothing is ever taken back.                                *)
(*                                                                         *)
(* Names and versions are numbers in their order.  A package is known by   *)
(* its place in the indexes.                                               *)
(***************************************************************************)
EXTENDS Integers, Sequences

CONSTANTS
    Universes,   \* sequences of packages, in the order of the indexes
    Requests     \* sequences of requested names

Operators == {"none", "<<", "<=", "=", ">=", ">>"}
NoVersion == 0
Relations == [name : Nat, foreign : {"yes", "no"}, operator : Operators, version : Nat]
Packages == [name : Nat, version : Nat \ {NoVersion}, arch : {"amd64", "all"},
             multiArch : {"foreign", "no"}, bootstrap : {"yes", "no"}, rank : Nat,
             provides : SUBSET [name : Nat, version : Nat],
             groups : Seq(Seq(Relations))]

ASSUME ResolverAssumption ==
    /\ Universes \subseteq Seq(Packages)
    /\ Requests \subseteq Seq(Nat)

VARIABLES
    universe,   \* the packages of the indexes
    requested,  \* the names of the specification
    pc,         \* the phase, or how the resolution ended
    next,       \* the requested name or the group that is looked at
    missing,    \* the requested names without a candidate
    selected,   \* the selected packages
    edges,      \* pairs of a selected package and one that satisfied it
    queue,      \* the selected packages whose dependencies are pending
    current     \* the package whose dependencies are looked at, 0 for none

inputs == <<universe, requested>>
vars == <<inputs, pc, next, missing, selected, edges, queue, current>>

Places == 1..Len(universe)
Name(i) == universe[i].name
Version(i) == universe[i].version

-----------------------------------------------------------------------------
\* The universe and apt's order of preference.

SameIdentity(i, j) == /\ Name(i) = Name(j)
                      /\ Version(i) = Version(j)
                      /\ universe[i].arch = universe[j].arch
\* A package that another index has repeated counts once.
Installable == {i \in Places : \A j \in 1..(i - 1) : ~SameIdentity(i, j)}
ConflictingDuplicate == \E i, j \in Places : SameIdentity(i, j) /\ universe[i] # universe[j]

version_satisfies(version, operator, required) ==
    \/ operator = "<<" /\ version < required
    \/ operator = "<=" /\ version <= required
    \/ operator = "=" /\ version = required
    \/ operator = ">=" /\ version >= required
    \/ operator = ">>" /\ version > required
Accepts(relation, version) ==
    \/ relation.operator = "none"
    \/ version # NoVersion /\ version_satisfies(version, relation.operator, relation.version)

\* Every package of the indexes is native, so only a foreign qualifier matters.
ArchitectureMatches(i, relation) ==
    relation.foreign = "yes" => universe[i].multiArch = "foreign"
IsReal(i, relation) == Name(i) = relation.name /\ Accepts(relation, Version(i))
IsProvider(i, relation) ==
    \E provided \in universe[i].provides :
        provided.name = relation.name /\ Accepts(relation, provided.version)
Candidates(relation) ==
    {i \in Installable : /\ ArchitectureMatches(i, relation)
                         /\ IsReal(i, relation) \/ IsProvider(i, relation)}

\* The packages of one name: the newest first, then the order of the indexes.
Newer(i, j) == Version(i) > Version(j) \/ (Version(i) = Version(j) /\ i < j)
\* Providers: by priority, then by name.
BetterProvider(i, j) ==
    \/ universe[i].rank < universe[j].rank
    \/ /\ universe[i].rank = universe[j].rank
       /\ Name(i) < Name(j) \/ (Name(i) = Name(j) /\ Newer(i, j))
\* The packages of that name come before those that provide it.
Preferred(relation, i, j) ==
    \/ i = j
    \/ IsReal(i, relation) /\ ~IsReal(j, relation)
    \/ IsReal(i, relation) /\ IsReal(j, relation) /\ Newer(i, j)
    \/ ~IsReal(i, relation) /\ ~IsReal(j, relation) /\ BetterProvider(i, j)
IsFirst(relation, i, S) == i \in S /\ \A j \in S : Preferred(relation, i, j)

IsNewest(i) == /\ i \in Installable
               /\ \A j \in Installable : Name(j) = Name(i) => j = i \/ Newer(i, j)
\* The bootstrap set has a name if any version of it is essential or required.
Bootstrap == {i \in Installable :
                /\ IsNewest(i)
                /\ \E j \in Installable : Name(j) = Name(i) /\ universe[j].bootstrap = "yes"}
AnyVersion(name) == [name |-> name, foreign |-> "no", operator |-> "none", version |-> NoVersion]

-----------------------------------------------------------------------------
Outcomes == {"universe", "requested", "pending", "groups", "done",
             "duplicate", "conflict", "virtual", "missing", "unsatisfiable"}
Pairs == [from : Places, to : Places]

\* Every variable has its type.
TypeOK ==
    /\ universe \in Seq(Packages)
    /\ requested \in Seq(Nat)
    /\ pc \in Outcomes
    /\ next \in Nat \ {0}
    /\ missing \in SUBSET Nat
    /\ selected \in SUBSET Places
    /\ edges \in SUBSET Pairs
    /\ queue \in Seq(selected)
    /\ current \in Places \cup {0}

ResolverStarts ==
    /\ pc = "universe"
    /\ next = 1
    /\ missing = {}
    /\ selected = {}
    /\ edges = {}
    /\ queue = <<>>
    /\ current = 0
Init == universe \in Universes /\ requested \in Requests /\ ResolverStarts

Fail(reason) == pc' = reason /\ UNCHANGED <<next, missing, selected, edges, queue, current>>

\* The names of the bootstrap set in order: no two packages have one name.
InNameOrder(q, S) ==
    /\ \A i \in S : \E k \in 1..Len(q) : q[k] = i
    /\ \A k \in 1..Len(q) : q[k] \in S
    /\ \A k, l \in 1..Len(q) : k < l => Name(q[k]) < Name(q[l])

\* Universe.__init__ and _select_bootstrap.
BuildUniverse ==
    /\ pc = "universe"
    /\ IF ConflictingDuplicate THEN Fail("duplicate")
       ELSE /\ pc' = "requested"
            /\ selected' = Bootstrap
            /\ queue' \in UNION {[1..n -> Bootstrap] : n \in 0..Len(universe)}
            /\ InNameOrder(queue', Bootstrap)
            /\ UNCHANGED <<next, missing, edges, current>>
    /\ UNCHANGED inputs

Taken(name) == {j \in selected : Name(j) = name}
\* Mutation: a package is selected whatever is selected under its name.
SelectAny(i, phase) ==
    /\ pc' = phase
    /\ selected' = selected \cup {i}
    /\ queue' = IF i \in selected THEN queue ELSE Append(queue, i)
\* _Closure.select: a name is selected once, and never in another version.
select(i, phase) ==
    IF Taken(Name(i)) = {}
    THEN /\ pc' = phase
         /\ selected' = selected \cup {i}
         /\ queue' = Append(queue, i)
    ELSE /\ pc' = IF i \in selected THEN phase ELSE "conflict"
         /\ UNCHANGED <<selected, queue>>

\* Mutation: the first package of the indexes, whatever its version.
FirstListed(relation, i, S) == i \in S /\ \A j \in S : i <= j
FirstReal(relation, i, S) == IsFirst(relation, i, S)
\* _select_requested: a package of that name, or else its only provider.
SelectRequested ==
    /\ pc = "requested"
    /\ next <= Len(requested)
    /\ LET relation == AnyVersion(requested[next])
           candidates == Candidates(relation)
           real == {i \in candidates : Name(i) = requested[next]}
       IN \/ /\ real # {}
             /\ \E i \in real : FirstReal(relation, i, real) /\ select(i, "requested")
             /\ UNCHANGED missing
          \/ /\ real = {}
             /\ \E i \in candidates : candidates = {i} /\ select(i, "requested")
             /\ UNCHANGED missing
          \/ /\ real = {}
             /\ \E i, j \in candidates : i # j
             /\ pc' = "virtual"
             /\ UNCHANGED <<missing, selected, queue>>
          \/ /\ candidates = {}
             /\ missing' = missing \cup {requested[next]}
             /\ UNCHANGED <<pc, selected, queue>>
    /\ next' = next + 1
    /\ UNCHANGED <<inputs, edges, current>>
AllRequested ==
    /\ pc = "requested"
    /\ next > Len(requested)
    /\ pc' = IF missing = {} THEN "pending" ELSE "missing"
    /\ UNCHANGED <<inputs, next, missing, selected, edges, queue, current>>

\* Mutation: the package stays in the queue.
TakePackageKeeps ==
    /\ pc = "pending"
    /\ queue # <<>>
    /\ pc' = "groups"
    /\ current' = Head(queue)
    /\ next' = 1
    /\ UNCHANGED <<inputs, missing, selected, edges, queue>>
\* resolve: take a package from the queue, satisfy its groups one by one.
TakePackage ==
    /\ pc = "pending"
    /\ queue # <<>>
    /\ pc' = "groups"
    /\ current' = Head(queue)
    /\ queue' = Tail(queue)
    /\ next' = 1
    /\ UNCHANGED <<inputs, missing, selected, edges>>
Finish ==
    /\ pc = "pending"
    /\ queue = <<>>
    /\ pc' = "done"
    /\ UNCHANGED <<inputs, next, missing, selected, edges, queue, current>>

Groups == universe[current].groups
\* The candidates of one alternative that are selected, or whose name is free.
Present(relation) == Candidates(relation) \cap selected
Free(relation) == {i \in Candidates(relation) : Taken(Name(i)) = {}}
\* The first candidate of the first alternative that has one.
FirstOf(group, Eligible(_), i) ==
    \E k \in 1..Len(group) :
        /\ IsFirst(group[k], i, Eligible(group[k]))
        /\ \A l \in 1..(k - 1) : Eligible(group[l]) = {}
NoneOf(group, Eligible(_)) == \A k \in 1..Len(group) : Eligible(group[k]) = {}

\* Mutation: the candidates whose name is taken are not left out.
SatisfiesCarelessly(group, i) ==
    \/ FirstOf(group, Present, i)
    \/ NoneOf(group, Present) /\ FirstOf(group, Candidates, i)
\* _satisfying_candidate: what is selected comes before what is preferred.
Satisfies(group, i) ==
    \/ FirstOf(group, Present, i)
    \/ NoneOf(group, Present) /\ FirstOf(group, Free, i)

\* Mutation: the other providers of the first alternative are selected as well.
SatisfyGroupAll ==
    /\ pc = "groups"
    /\ next <= Len(Groups)
    /\ \E i \in Installable :
        /\ Satisfies(Groups[next], i)
        /\ selected' = selected \cup {i} \cup {j \in Free(Groups[next][1]) : Name(j) # Name(i)}
        /\ queue' = IF i \in selected THEN queue ELSE Append(queue, i)
        /\ edges' = IF Name(i) = Name(current) THEN edges
                    ELSE edges \cup {[from |-> current, to |-> i]}
    /\ next' = next + 1
    /\ UNCHANGED <<inputs, pc, missing, current>>
SatisfyGroup ==
    /\ pc = "groups"
    /\ next <= Len(Groups)
    /\ \E i \in Installable :
        /\ Satisfies(Groups[next], i)
        /\ select(i, "groups")
        /\ edges' = IF Name(i) = Name(current) THEN edges
                    ELSE edges \cup {[from |-> current, to |-> i]}
    /\ next' = next + 1
    /\ UNCHANGED <<inputs, missing, current>>
Unsatisfiable ==
    /\ pc = "groups"
    /\ next <= Len(Groups)
    /\ NoneOf(Groups[next], Present)
    /\ NoneOf(Groups[next], Free)
    /\ Fail("unsatisfiable")
    /\ UNCHANGED inputs
\* Mutation: the last group of a package is forgotten.
AllButLastSatisfied ==
    /\ pc = "groups"
    /\ next >= Len(Groups)
    /\ pc' = "pending"
    /\ current' = 0
    /\ UNCHANGED <<inputs, next, missing, selected, edges, queue>>
AllSatisfied ==
    /\ pc = "groups"
    /\ next > Len(Groups)
    /\ pc' = "pending"
    /\ current' = 0
    /\ UNCHANGED <<inputs, next, missing, selected, edges, queue>>

Next == \/ BuildUniverse \/ SelectRequested \/ AllRequested \/ TakePackage \/ Finish
        \/ SatisfyGroup \/ Unsatisfiable \/ AllSatisfied

Spec == Init /\ [][Next]_vars
\* The generator is one process that runs on.
FairSpec == Spec /\ WF_vars(Next)

-----------------------------------------------------------------------------
Ended == pc \notin {"universe", "requested", "pending", "groups"}

\* A group of alternatives of a package is met by a selected package, and the
\* lock records it as a dependency unless it is the package itself.
Met(i, group) ==
    \E k \in 1..Len(group) : \E j \in selected :
        /\ j \in Candidates(group[k])
        /\ Name(j) # Name(i) => [from |-> i, to |-> j] \in edges

\* The lock is closed: every dependency of every locked package is met by a
\* locked package that the lock names, although later selections were made
\* without looking back.
ClosureComplete ==
    pc = "done" =>
        \A i \in selected : \A g \in 1..Len(universe[i].groups) : Met(i, universe[i].groups[g])

\* No name is ever locked in two versions or architectures.
OneVersion == \A i, j \in selected : Name(i) = Name(j) => i = j

\* Only the specification can ask for a version that clashes with one that is
\* already selected: satisfying a dependency never does.
NoLateConflict == pc = "conflict" => current = 0

\* A lock is one consistent set of packages, although the search never goes
\* back: every dependency is met, each name has one version, and dependencies
\* never bring in a second one (resolve).
LockIsClosed == ClosureComplete /\ OneVersion /\ NoLateConflict

\* The lock has the whole bootstrap set in its newest versions, and for every
\* requested name its newest package or else a provider.
RequestsHonoured ==
    pc = "done" =>
        /\ Bootstrap \subseteq selected
        /\ \A n \in 1..Len(requested) : \E i \in selected :
            IF \E j \in Installable : Name(j) = requested[n]
            THEN Name(i) = requested[n] /\ IsNewest(i)
            ELSE i \in Candidates(AnyVersion(requested[n]))

\* Nothing is locked without a reason: what is neither in the bootstrap set nor
\* requested is reached from those through the recorded dependencies.
Reached[n \in Nat] ==
    IF n = 0
    THEN {i \in selected : i \in Bootstrap \/ \E k \in 1..Len(requested) :
                               i \in Candidates(AnyVersion(requested[k]))}
    ELSE LET before == Reached[n - 1]
         IN before \cup {e.to : e \in {e \in edges : e.from \in before}}
NothingUnneeded == pc = "done" => selected \subseteq Reached[Len(universe)]

\* The lock is what the specification asked for and nothing else
\* (_select_bootstrap, _select_requested, resolve).
LockIsNeeded == RequestsHonoured /\ NothingUnneeded

\* The resolution ends for every universe and specification: a package enters
\* the queue once.
ResolutionEnds == <>Ended
=============================================================================
