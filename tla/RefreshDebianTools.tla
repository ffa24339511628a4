------------------------- MODULE RefreshDebianTools -------------------------
(***************************************************************************)
(* mkosi/debian/refresh_debian_tools.py: moves a checkout to a new Debian  *)
(* snapshot.  The specification, the lock, the provenance and the files    *)
(* that mention the snapshot are rewritten one after the other, in place;  *)
(* the command may fail or be interrupted anywhere, also between the       *)
(* truncation of a file and its new content, and it is then run again, for *)
(* the same snapshot or another one.                                       *)
(***************************************************************************)
EXTENDS Integers, FiniteSets

CONSTANTS
    Snapshots,  \* the snapshots that the checkout may be moved to
    Users,      \* the files that mention the snapshot
    MaxRuns     \* bound: how often the command is run

Truncated == "truncated"
RefreshPlaces == {"idle", "spec", "specfill", "lock", "lockfill", "python", "provenance",
           "provenancefill", "users", "userfill", "archive", "archivefill"}

ASSUME RefreshAssumption ==
    /\ Snapshots # {} /\ Truncated \notin Snapshots
    /\ MaxRuns \in Nat

VARIABLES
    spec,        \* the snapshot that the specification names
    lock,        \* the snapshot whose packages the lock lists
    whole,       \* "no" while the provenance is truncated
    provenance,  \* the snapshot, and those of which the two digests are
    users,       \* the snapshot that each of the other files mentions
    doing,          \* what the command does
    runs,        \* how often it was started
    new,         \* the snapshot it was started for
    old,         \* the snapshot it found in the provenance
    todo,        \* the files it has not looked at
    file,        \* the file it is rewriting
    outcome,     \* how the last run ended
    stranded     \* "yes" once a run ended within the loop over those files

checkout == <<spec, lock, whole, provenance, users>>
process == <<doing, runs, new, old, todo, file, outcome, stranded>>
refreshVars == <<checkout, process>>

Contents == Snapshots \cup {Truncated}
\* Every variable has its type.
RefreshTypeOK ==
    /\ spec \in Contents
    /\ lock \in Contents
    /\ whole \in {"yes", "no"}
    /\ provenance \in [snapshot : Snapshots, lock : Snapshots, archive : Snapshots]
    /\ users \in [Users -> Contents]
    /\ doing \in RefreshPlaces
    /\ runs \in 0..MaxRuns
    /\ new \in Snapshots
    /\ old \in Snapshots
    /\ todo \in SUBSET Users
    /\ file \in Users \cup {"none"}
    /\ outcome \in {"none", "success", "failure"}
    /\ stranded \in {"no", "yes"}

\* A checkout that follows one snapshot everywhere.
RefreshInit ==
    /\ \E s \in Snapshots :
        /\ spec = s
        /\ lock = s
        /\ whole = "yes"
        /\ provenance = [snapshot |-> s, lock |-> s, archive |-> s]
        /\ users = [u \in Users |-> s]
        /\ new = s
        /\ old = s
    /\ doing = "idle"
    /\ runs = 0
    /\ todo = {}
    /\ file = "none"
    /\ outcome = "none"
    /\ stranded = "no"

End(how) ==
    /\ doing' = "idle"
    /\ outcome' = how
    /\ todo' = {}
    /\ file' = "none"
Goto(place) == doing' = place /\ UNCHANGED <<todo, file, outcome>>
Same == UNCHANGED <<runs, new, old, stranded>>

\* The command ends early: generate_lock, the download of the Python digests
\* or the build of the archive fails, there is no snapshot URL left in the
\* specification, a file cannot be read or written, or the command is
\* interrupted.  What is on disk stays as it is.
StepFails ==
    /\ doing # "idle"
    /\ End("failure")
    /\ stranded' = IF doing \in {"users", "userfill"} THEN "yes" ELSE stranded
    /\ UNCHANGED <<checkout, runs, new, old>>

\* refresh: the old snapshot is the one in the provenance.
Start(s) ==
    /\ doing = "idle"
    /\ runs < MaxRuns
    /\ runs' = runs + 1
    /\ new' = s
    /\ IF whole = "no"
       THEN End("failure") /\ UNCHANGED old
       ELSE /\ old' = provenance.snapshot
            /\ doing' = "spec"
            /\ outcome' = "none"
            /\ UNCHANGED <<todo, file>>
    /\ UNCHANGED <<checkout, stranded>>

\* _update: a file that changes is truncated first.  A specification that was
\* left truncated names no snapshot that could be replaced.
OpenSpec ==
    /\ doing = "spec"
    /\ IF spec \in {new, Truncated} THEN Goto("lock") /\ UNCHANGED spec
       ELSE Goto("specfill") /\ spec' = Truncated
    /\ Same /\ UNCHANGED <<lock, whole, provenance, users>>
FillSpec ==
    /\ doing = "specfill"
    /\ spec' = new
    /\ Goto("lock")
    /\ Same /\ UNCHANGED <<lock, whole, provenance, users>>

\* generate_lock.main resolves the specification that is on disk.
OpenLock ==
    /\ doing = "lock"
    /\ spec # Truncated
    /\ lock' = Truncated
    /\ Goto("lockfill")
    /\ Same /\ UNCHANGED <<spec, whole, provenance, users>>
\* Mutation: the snapshot in the provenance is moved together with the lock.
FillLockAndProvenance ==
    /\ doing = "lockfill"
    /\ lock' = spec
    /\ provenance' = [provenance EXCEPT !.snapshot = new, !.lock = spec]
    /\ Goto("python")
    /\ Same /\ UNCHANGED <<spec, whole, users>>
FillLock ==
    /\ doing = "lockfill"
    /\ lock' = spec
    /\ Goto("python")
    /\ Same /\ UNCHANGED <<spec, whole, provenance, users>>

\* python_pin, if one was asked for.
PinPython ==
    /\ doing = "python"
    /\ Goto("provenance")
    /\ Same /\ UNCHANGED checkout

\* Mutation: the digest was taken before the lock was regenerated.
ValuesBeforeLock == [provenance EXCEPT !.snapshot = new, !.lock = old]
\* rewrite_provenance: the snapshot, the digest of the lock and the Python pin;
\* nothing is written when all of them are the ones already there.
Values == [provenance EXCEPT !.snapshot = new, !.lock = lock]
OpenProvenance ==
    /\ doing = "provenance"
    /\ todo' = Users
    /\ \/ Values = provenance /\ doing' = "users" /\ UNCHANGED whole
       \/ doing' = "provenancefill" /\ whole' = "no"
    /\ UNCHANGED <<file, outcome>>
    /\ Same /\ UNCHANGED <<spec, lock, provenance, users>>
FillProvenance ==
    /\ doing = "provenancefill"
    /\ provenance' = Values
    /\ whole' = "yes"
    /\ Goto("users")
    /\ Same /\ UNCHANGED <<spec, lock, users>>

\* _snapshot_files and replace_snapshot: the files that mention the old
\* snapshot, one after the other.
OpenUser ==
    /\ doing = "users"
    /\ \E u \in todo :
        /\ todo' = todo \ {u}
        /\ IF users[u] = old /\ old # new
           THEN /\ users' = [users EXCEPT ![u] = Truncated]
                /\ file' = u
                /\ doing' = "userfill"
           ELSE UNCHANGED <<users, file, doing>>
    /\ UNCHANGED outcome
    /\ Same /\ UNCHANGED <<spec, lock, provenance, whole>>
FillUser ==
    /\ doing = "userfill"
    /\ users' = [users EXCEPT ![file] = new]
    /\ file' = "none"
    /\ doing' = "users"
    /\ UNCHANGED <<todo, outcome>>
    /\ Same /\ UNCHANGED <<spec, lock, provenance, whole>>
UsersDone ==
    /\ doing = "users"
    /\ todo = {}
    /\ Goto("archive")
    /\ Same /\ UNCHANGED checkout

\* Mutation: the archive of the old lock, which is still in the cache.
CachedArchive == [provenance EXCEPT !.archive = old]
\* _archive_sha256 builds the tree from the lock that is on disk.
Archive == [provenance EXCEPT !.archive = lock]
OpenArchive ==
    /\ doing = "archive"
    /\ whole' = IF Archive = provenance THEN whole ELSE "no"
    /\ IF Archive = provenance THEN End("success") ELSE Goto("archivefill")
    /\ Same /\ UNCHANGED <<spec, lock, provenance, users>>
FillArchive ==
    /\ doing = "archivefill"
    /\ provenance' = Archive
    /\ whole' = "yes"
    /\ End("success")
    /\ Same /\ UNCHANGED <<spec, lock, users>>

RefreshNext == \/ \E s \in Snapshots : Start(s)
               \/ StepFails
               \/ OpenSpec \/ FillSpec \/ OpenLock \/ FillLock \/ PinPython
               \/ OpenProvenance \/ FillProvenance
               \/ OpenUser \/ FillUser \/ UsersDone
               \/ OpenArchive \/ FillArchive

RefreshSpec == RefreshInit /\ [][RefreshNext]_refreshVars

-----------------------------------------------------------------------------
\* A run that ends successfully leaves the specification, the lock, the
\* snapshot and both digests in agreement, whatever earlier runs left behind.
SuccessIsConsistent ==
    outcome = "success" =>
        /\ spec = new /\ lock = new /\ whole = "yes"
        /\ provenance = [snapshot |-> new, lock |-> new, archive |-> new]

\* The provenance never names a snapshot together with the digest of the lock
\* of another one, also when a run ended early.
DigestMatchesSnapshot == provenance.lock = provenance.snapshot

\* The pinned tools are consistent: after a success all of them are at the new
\* snapshot, and a digest is never beside another snapshot (refresh).
PinsAgree == SuccessIsConsistent /\ DigestMatchesSnapshot

\* Runs that end early, at any step but the loop over the other files, can be
\* repeated for any snapshot: the next success moves every file (refresh).
FailuresAreRepeatable ==
    outcome = "success" /\ stranded = "no" => \A u \in Users : users[u] = new

\* What refresh_debian_tools.py says of itself: a refresh moves the test
\* configurations and the README examples to the new snapshot.  After a run
\* that ended within the loop it does not: the provenance names the new
\* snapshot by then, which the repetition takes for the old one, and the files
\* that were not reached mention neither.
EveryFileIsMoved == outcome = "success" => \A u \in Users : users[u] = new
=============================================================================
