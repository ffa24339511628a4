-------------------------- MODULE DebianRepository --------------------------
(***************************************************************************)
(* From a mirror to the repository that an image is built from: the lock   *)
(* is generated, perhaps edited by hand, and committed; later, the files   *)
(* that it names are fetched, perhaps from another state of the mirror,    *)
(* and staged.                                                             *)
(***************************************************************************)
EXTENDS LockGenerator, DebianSnapshot

CONSTANT Edits(_)   \* what an edit by hand can make of a lock

VARIABLE disturbed  \* what happened that the programs do not control

repositoryVars == <<mirrorVars, generatorVars, stageVars, disturbed>>

RepositoryInit == GeneratorInit /\ StageInit /\ disturbed = {}

Generate == GeneratorNext /\ UNCHANGED <<stageVars, disturbed>>
MirrorMoves ==
    /\ spc = "idle"
    /\ MirrorChanges
    /\ disturbed' = disturbed \cup {"moved"}
    /\ UNCHANGED stageVars
EditLock ==
    /\ gpc = "done" /\ spc = "idle" /\ disturbed = {}
    /\ lockFile' \in Edits(lockFile)
    /\ disturbed' = {"edited"}
    /\ UNCHANGED <<mirrorVars, gpc, attempt, got, stageVars>>

\* _package_records: the packages with local names.
Records(packages) ==
    [n \in DOMAIN packages |->
       [name |-> packages[n].name, version |-> packages[n].version, arch |-> packages[n].arch,
        filename |-> packages[n].filename, size |-> packages[n].size,
        sha256 |-> packages[n].sha256, local |-> n]]
Requested == [codename |-> lockFile.codename, files |-> lockFile.files, indexes |-> lockFile.indexes,
              packages |-> Records(lockFile.packages)]
\* The files of the lock in one state of the mirror.  Bazel compares what it
\* downloads with the digests of the lock; stage does not rely on that.
Fetched(a) ==
    LET archive == Archives[a]
        packages == lockFile.packages
    IN  [files |-> <<archive.files[InRelease], archive.files[Release], archive.files[ReleaseGpg]>>,
         indexes |-> [n \in DOMAIN lockFile.indexes |->
                        archive.files[<<lockFile.indexes[n].component, lockFile.indexes[n].arch>>]],
         names |-> [n \in DOMAIN packages |-> n],
         packages |-> [n \in DOMAIN packages |-> archive.pool[packages[n].filename]]]
Serves(a) ==
    /\ \A n \in DOMAIN lockFile.indexes :
         <<lockFile.indexes[n].component, lockFile.indexes[n].arch>> \in DOMAIN Archives[a].files
    /\ \A p \in Range2(lockFile.packages) : p.filename \in DOMAIN Archives[a].pool
\* One of the files of a is replaced by the one of b.
Replaced(a, b) ==
    UNION {{[Fetched(a) EXCEPT !.files[n] = Fetched(b).files[n]] : n \in 1..3},
           {[Fetched(a) EXCEPT !.indexes[n] = Fetched(b).indexes[n]] : n \in DOMAIN lockFile.indexes},
           {[Fetched(a) EXCEPT !.packages[n] = Fetched(b).packages[n]]
              : n \in DOMAIN lockFile.packages}}
\* The files that the lock names, wherever they come from.
Content(digest) == digest[2]
Own == [files |-> [n \in 1..3 |-> Content(lockFile.files[n])],
        indexes |-> [n \in DOMAIN lockFile.indexes |-> Content(lockFile.indexes[n].sha256)],
        names |-> [n \in DOMAIN lockFile.packages |-> n],
        packages |-> [n \in DOMAIN lockFile.packages |-> Content(lockFile.packages[n].sha256)]]
StartStaging ==
    /\ gpc = "done" /\ spc = "idle"
    /\ request' = Requested
    /\ \/ supplied' = Own /\ UNCHANGED disturbed
       \/ /\ Serves(mirror)
          /\ supplied' = Fetched(mirror)
          /\ UNCHANGED disturbed
       \/ /\ disturbed = {}
          /\ \E b \in DOMAIN Archives \ {mirror} :
               Serves(mirror) /\ Serves(b) /\ supplied' \in Replaced(mirror, b)
          /\ disturbed' = {"replaced"}
    /\ Called
    /\ UNCHANGED <<mirrorVars, generatorVars>>
Stage == StageNext /\ UNCHANGED <<mirrorVars, generatorVars, disturbed>>

RepositoryNext == Generate \/ MirrorMoves \/ EditLock \/ StartStaging \/ Stage
RepositorySpec == RepositoryInit /\ [][RepositoryNext]_repositoryVars

-----------------------------------------------------------------------------
\* A lock that was generated is consistent in itself although its files were
\* downloaded one after the other from a mirror that may have changed: its
\* InRelease and Release agree, Release lists every index with its digest, and
\* every package is in one of these indexes (generate).  Release.gpg may be of
\* another state: the generator compares it with nothing.
LockIsConsistent ==
    gpc = "done" /\ "edited" \notin disturbed =>
        LET release == Content(lockFile.files[2])
            index(n) == Content(lockFile.indexes[n].sha256)
        IN  /\ Content(lockFile.files[1]).body = release.body
            /\ \A n \in DOMAIN lockFile.indexes : \E e \in Range2(Sha256Field(release.body)) :
                 /\ e.path = <<lockFile.indexes[n].component, lockFile.indexes[n].arch>>
                 /\ e.sha256 = lockFile.indexes[n].sha256 /\ e.size = index(n).size
            /\ \A p \in Range2(lockFile.packages) :
                 \E n \in DOMAIN lockFile.indexes : \E q \in Range2(index(n).packages) :
                   Identity(p) = Identity(q) /\ FileRecord(p) = FileRecord(q)

\* Stage is given exactly the files that the lock names.
Named ==
    /\ \A n \in 1..3 : Sha256(supplied.files[n]) = lockFile.files[n]
    /\ \A n \in DOMAIN lockFile.indexes : Sha256(supplied.indexes[n]) = lockFile.indexes[n].sha256
    /\ \A n \in DOMAIN lockFile.packages : Sha256(supplied.packages[n]) = lockFile.packages[n].sha256
\* What stage looks at and generate does not, or does otherwise.
Unsigned == \/ ~SqvAccepts(supplied.files[1].signature, supplied.files[1].body)
            \/ ~SqvAccepts(supplied.files[3], supplied.files[2])
OneNewlineMore == supplied.files[1].newlines = supplied.files[2].newlines + 1
FieldAfterList ==
    LET fields == supplied.files[2].body.fields
    IN  \E i \in DOMAIN fields : /\ fields[i].name = "SHA256" /\ i + 1 \in DOMAIN fields
                                 /\ fields[i + 1].kind # "list"
PackageDiffers ==
    LET packages == lockFile.packages
    IN  \E n \in DOMAIN packages :
          \/ packages[n].filename \notin SafePaths
          \/ supplied.packages[n].size # packages[n].size
          \/ \E m \in DOMAIN packages \ {n} : packages[m].filename = packages[n].filename

\* The two programs agree but for what is named here.  When the files of a
\* generated lock, which may be of several states of the mirror, are refused,
\* then a signature does not verify, which generate leaves to stage; or the text
\* of InRelease has one newline more than Release; or a field on one line comes
\* right after the SHA256 list; or a package has a path that is not safe, a path
\* of another package or not the size that its index says (generate, stage).
GeneratedIsStaged ==
    spc = "refused" /\ "edited" \notin disturbed /\ Named =>
        Unsigned \/ OneNewlineMore \/ FieldAfterList \/ PackageDiffers

\* What the generator writes is consistent, and the stager accepts it but for the
\* differences above.
LockIsUsable == LockIsConsistent /\ GeneratedIsStaged

\* What is staged is authentic, whatever the lock says and whichever files were
\* supplied: both signatures are over the staged Release file, which lists every
\* staged index, and those list every staged package with its digest; each
\* package of the lock has a file of its own; the repository has nothing else,
\* no path twice, and no file keeps its time (stage).
StagedIsAuthentic ==
    spc = "staged" =>
        LET release == supplied.files[2]
            Is(path, content) == [at |-> path, is |-> content, time |-> "zero"]
            dists(name) == <<"dists", request.codename, name>>
            releases == {Is(dists("InRelease"), supplied.files[1]), Is(dists("Release"), release),
                         Is(dists("Release.gpg"), supplied.files[3])}
            indexes == {Is(<<"dists", request.codename, request.indexes[n].component, request.indexes[n].arch>>,
                           supplied.indexes[n].packages) : n \in DOMAIN request.indexes}
            listed == UNION {Range2(i.is) : i \in indexes}
            packages == tree \ (releases \cup indexes)
        IN  /\ SqvAccepts(supplied.files[1].signature, release.body)
            /\ SqvAccepts(supplied.files[3], release)
            /\ \A n \in DOMAIN request.indexes :
                 \E f \in Range2(release.body.fields) : \E e \in Range2(f.entries) :
                 /\ f.name = "SHA256"
                 /\ e.path = <<request.indexes[n].component, request.indexes[n].arch>>
                 /\ e.sha256 = Sha256(supplied.indexes[n])
            /\ releases \cup indexes \subseteq tree
            /\ \A t \in packages : \E p \in listed :
                 t = Is(<<p.filename>>, t.is) /\ Sha256(t.is) = p.sha256 /\ t.is.size = p.size
            /\ {t.at : t \in packages} = {<<p.filename>> : p \in Range2(request.packages)}
            /\ Distinct([n \in DOMAIN request.packages |-> request.packages[n].filename])
            /\ \A t, u \in tree : t.at = u.at => t = u
=============================================================================
