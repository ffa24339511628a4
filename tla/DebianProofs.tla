---------------------------- MODULE DebianProofs ----------------------------
(***************************************************************************)
(* The locked repository, for any archives, edits of the lock, changes of  *)
(* the mirror and replaced files: what is staged is authentic; a generated *)
(* lock is consistent, and staging its own files is refused for the named  *)
(* reasons only.  StageInv speaks of what stage has checked and written,   *)
(* GeneratorInv of what the generator has checked, SuppliedInv of what     *)
(* stage was given.                                                        *)
(***************************************************************************)
EXTENDS DebianRepository, TLAPS

-----------------------------------------------------------------------------
\* The staged repository.

\* The places of stage, from the last one back.
FinishOn == {"finish", "staged"}
PackagesOn == FinishOn \cup {"packages"}
MetadataOn == PackagesOn \cup {"metadata"}
LockOn == MetadataOn \cup {"lock"}
CopyOn == LockOn \cup {"copy"}
AuthenticatedOn == CopyOn \cup {"authenticated"}
ReleaseOn == AuthenticatedOn \cup {"release"}
InReleaseOn == ReleaseOn \cup {"inrelease"}
DigestsOn == InReleaseOn \cup {"digests"}
RequestOn == DigestsOn \cup {"request"}

\* What each check has shown, for as long as stage goes on.
Checked ==
    /\ spc \in RequestOn => /\ IsList(request.indexes) /\ IsList(request.packages)
                            /\ IsList(supplied.names) /\ IsList(supplied.files[2].body.fields)
    /\ spc \in DigestsOn => request.codename \in Identifiers /\ _component_indexes
    /\ spc \in InReleaseOn => _verify_input_digests
    /\ spc \in ReleaseOn => /\ SqvAccepts(supplied.files[1].signature, supplied.files[1].body)
                            /\ verified.body = supplied.files[1].body
    /\ spc \in AuthenticatedOn => SqvAccepts(supplied.files[3], supplied.files[2])
    /\ spc \in CopyOn => /\ _authenticated_release_matches
                         /\ \A n \in DOMAIN Indexes : _release_hash(verified.body, n)
    /\ spc \in LockOn => \A n \in DOMAIN Indexes : supplied.indexes[n].compressed = "xz"
    /\ spc \in MetadataOn => _locked_packages
    /\ spc \in PackagesOn => _verify_package_metadata
    /\ spc \in FinishOn => NamesAgree /\ place > Len(supplied.names)

\* The m-th package has been compared with its record.
PackageChecked(m) ==
    LET n == RecordOf(supplied.names[m])
    IN  /\ n \in DOMAIN Locked /\ Locked[n].local = supplied.names[m]
        /\ Sha256(supplied.packages[m]) = Locked[n].sha256
        /\ supplied.packages[m].size = Locked[n].size
PackagesChecked ==
    /\ place \in Nat \ {0}
    /\ spc \in RequestOn \ PackagesOn => place = 1
    /\ spc \in PackagesOn => \A m \in 1..(place - 1) : PackageChecked(m)

\* The files that have been written.
VerifiedRelease == Written(<<"verified-release">>, supplied.files[1].body)
ReleaseFiles == {Written(<<"dists", request.codename, <<"InRelease", "Release", "Release.gpg">>[n]>>,
                         supplied.files[n]) : n \in 1..3}
IndexFiles == {Staged(n) : n \in DOMAIN Indexes}
PackageFile(m) == Written(<<Locked[RecordOf(supplied.names[m])].filename>>, supplied.packages[m])
PackageFiles == {PackageFile(m) : m \in 1..(place - 1)}
Zeroed(t) == [t EXCEPT !.time = "zero"]
TreeWritten ==
    /\ spc \in {"idle", "request", "digests", "inrelease"} => tree = {}
    /\ spc \in {"release", "authenticated", "copy"} => tree = {VerifiedRelease}
    /\ spc \in LockOn \ {"staged"} =>
         tree = {VerifiedRelease} \cup ReleaseFiles \cup IndexFiles \cup PackageFiles
    /\ spc = "staged" => tree = {Zeroed(t) : t \in ReleaseFiles \cup IndexFiles \cup PackageFiles}

StageInv ==
    /\ spc \in RequestOn \cup {"idle", "refused", "failed"}
    /\ spc = "idle" => place = 1
    /\ Checked /\ PackagesChecked /\ TreeWritten

\* Before stage is called, nothing is claimed.
LEMMA Begun == RepositoryInit => StageInv
  BY DEF RepositoryInit, StageInit, StageInv, Checked, PackagesChecked, TreeWritten, RequestOn, DigestsOn,
         InReleaseOn, ReleaseOn, AuthenticatedOn, CopyOn, LockOn, MetadataOn, PackagesOn, FinishOn

\* What has been checked of the arguments stays true.
LEMMA SameChecks ==
  ASSUME request' = request, supplied' = supplied
  PROVE  /\ _component_indexes' = _component_indexes
         /\ _verify_input_digests' = _verify_input_digests
         /\ _locked_packages' = _locked_packages
         /\ _verify_package_metadata' = _verify_package_metadata
         /\ NamesAgree' = NamesAgree
         /\ Indexes' = Indexes
         /\ Locked' = Locked
         /\ VerifiedRelease' = VerifiedRelease
         /\ ReleaseFiles' = ReleaseFiles
         /\ IndexFiles' = IndexFiles
<1>1. Indexes' = Indexes /\ Locked' = Locked
  BY DEF Indexes, Locked
<1>2. _component_indexes' = _component_indexes
  BY DEF _component_indexes, Indexes
<1>3. _verify_input_digests' = _verify_input_digests
  BY <1>1, Zenon DEF _verify_input_digests
<1>4. _locked_packages' = _locked_packages
  BY <1>1, Zenon DEF _locked_packages
<1>5. Paragraphs' = Paragraphs
  BY DEF Paragraphs, Indexes
<1>6. _verify_package_metadata' = _verify_package_metadata
  BY <1>1, <1>5 DEF _verify_package_metadata, _read_package_metadata
<1>7. NamesAgree' = NamesAgree
  BY <1>1, Zenon DEF NamesAgree
<1>8. VerifiedRelease' = VerifiedRelease /\ ReleaseFiles' = ReleaseFiles
  BY Zenon DEF VerifiedRelease, ReleaseFiles
<1>9. IndexFiles' = IndexFiles
  BY <1>1, Zenon DEF IndexFiles, Staged
<1> QED  BY <1>1, <1>2, <1>3, <1>4, <1>6, <1>7, <1>8, <1>9, Zenon

\* What has been read of the verified Release file stays true.
LEMMA SameRelease ==
  ASSUME request' = request, supplied' = supplied, verified' = verified
  PROVE  /\ _authenticated_release_matches' = _authenticated_release_matches
         /\ \A n : _release_hash(verified.body, n)' = _release_hash(verified.body, n)
  BY Zenon DEF _authenticated_release_matches, _release_hash, Indexes

\* What has been checked of a package stays true.
LEMMA SamePackages ==
  ASSUME request' = request, supplied' = supplied
  PROVE  \A m : /\ PackageChecked(m)' = PackageChecked(m)
                /\ PackageFile(m)' = PackageFile(m)
                /\ RecordOf(m)' = RecordOf(m)
  BY Zenon DEF PackageChecked, PackageFile, RecordOf, Locked

\* Once stage has failed, nothing is claimed.
LEMMA FailureKeeps ==
  ASSUME StageInv, spc' \in {"refused", "failed"}, place' \in Nat \ {0}
  PROVE  StageInv'
  BY Zenon DEF StageInv, Checked, PackagesChecked, TreeWritten, RequestOn, DigestsOn,
         InReleaseOn, ReleaseOn, AuthenticatedOn, CopyOn, LockOn, MetadataOn, PackagesOn, FinishOn

\* A check that succeeds adds what it has shown.
LEMMA CheckKeeps ==
  ASSUME StageInv, UNCHANGED <<verified, tree, place>>,
         CheckRequest \/ VerifyInputDigests \/ VerifyRelease \/ VerifyAuthenticatedRelease
           \/ CheckLock \/ VerifyPackageMetadata
  PROVE  StageInv'
<1>1. spc # "idle" /\ UNCHANGED <<request, supplied>>
  BY Zenon DEF CheckRequest, VerifyInputDigests, VerifyRelease, VerifyAuthenticatedRelease, CheckLock,
         VerifyPackageMetadata, StageStep
<1>2. CASE spc' = "refused"
  BY <1>2, FailureKeeps, Zenon DEF StageInv, PackagesChecked
<1> USE SameChecks, SameRelease, SamePackages, <1>1
    DEF RequestOn, DigestsOn, InReleaseOn, ReleaseOn, AuthenticatedOn, CopyOn, LockOn, MetadataOn,
        PackagesOn, FinishOn
<1>3. ASSUME spc' # "refused" PROVE Checked'
  <2>1. CASE CheckRequest
    BY <1>3, <2>1, Zenon DEF CheckRequest, StageStep, StageInv, Checked
  <2>2. CASE VerifyInputDigests
    BY <1>3, <2>2, Zenon DEF VerifyInputDigests, StageStep, StageInv, Checked
  <2>3. CASE VerifyRelease
    BY <1>3, <2>3, Zenon DEF VerifyRelease, StageStep, StageInv, Checked
  <2>4. CASE VerifyAuthenticatedRelease
    BY <1>3, <2>4, Zenon DEF VerifyAuthenticatedRelease, StageStep, StageInv, Checked
  <2>5. CASE CheckLock
    BY <1>3, <2>5, Zenon DEF CheckLock, StageStep, StageInv, Checked
  <2>6. CASE VerifyPackageMetadata
    BY <1>3, <2>6, Zenon DEF VerifyPackageMetadata, StageStep, StageInv, Checked
  <2> QED  BY <2>1, <2>2, <2>3, <2>4, <2>5, <2>6, Zenon
<1>4. ASSUME spc' # "refused"
      PROVE  /\ spc' \in RequestOn \ FinishOn
             /\ spc \in RequestOn \ PackagesOn
             /\ spc \in LockOn <=> spc' \in LockOn
             /\ spc \in {"request", "digests", "inrelease"} <=> spc' \in {"request", "digests", "inrelease"}
  BY <1>4, Zenon DEF CheckRequest, VerifyInputDigests, VerifyRelease, VerifyAuthenticatedRelease, CheckLock,
         VerifyPackageMetadata, StageStep
<1>5. ASSUME spc' # "refused" PROVE PackagesChecked'
  BY <1>4, <1>5 DEF StageInv, PackagesChecked
<1>6. PackageFiles' = PackageFiles
  BY Zenon DEF PackageFiles
<1>7. ASSUME spc' # "refused" PROVE TreeWritten'
  BY <1>4, <1>6, <1>7, Zenon DEF StageInv, TreeWritten
<1> QED  BY <1>2, <1>3, <1>4, <1>5, <1>7, Zenon DEF StageInv

\* The output of sqv on InRelease is what it has verified (_verify_signature).
LEMMA InReleaseKeeps ==
  ASSUME StageInv, VerifyInRelease
  PROVE  StageInv'
<1>1. UNCHANGED <<request, supplied, place>> /\ spc = "inrelease"
  BY Zenon DEF VerifyInRelease, StageStep
<1>2. CASE spc' = "refused"
  BY <1>1, <1>2, FailureKeeps, Zenon DEF StageInv, PackagesChecked
<1>3. ASSUME spc' # "refused"
      PROVE  /\ spc' = "release" /\ SqvAccepts(supplied.files[1].signature, supplied.files[1].body)
             /\ verified'.body = supplied.files[1].body
             /\ tree' = {VerifiedRelease}
  BY <1>3 DEF VerifyInRelease, StageStep, VerifiedRelease
<1> USE SameChecks, <1>1
    DEF RequestOn, DigestsOn, InReleaseOn, ReleaseOn, AuthenticatedOn, CopyOn, LockOn, MetadataOn,
        PackagesOn, FinishOn
<1>4. ASSUME spc' # "refused" PROVE StageInv'
  <2>1. Checked'
    BY <1>3, <1>4, Zenon DEF StageInv, Checked
  <2>2. PackagesChecked'
    BY <1>3, <1>4, Zenon DEF StageInv, PackagesChecked
  <2>3. TreeWritten'
    BY <1>3, <1>4, Zenon DEF StageInv, TreeWritten
  <2> QED  BY <1>3, <1>4, <2>1, <2>2, <2>3, Zenon DEF StageInv
<1> QED  BY Zenon, <1>2, <1>4

\* _stage_release_files adds the Release files and the indexes.
LEMMA FilesKeep ==
  ASSUME StageInv, StageReleaseFiles
  PROVE  StageInv'
<1>1. UNCHANGED <<request, supplied, place, verified>> /\ spc = "copy" /\ spc' \in {"lock", "refused"}
  BY Zenon DEF StageReleaseFiles, StageStep
<1>2. CASE spc' = "refused"
  BY <1>1, <1>2, FailureKeeps, Zenon DEF StageInv, PackagesChecked
<1> USE SameChecks, SameRelease, <1>1
    DEF RequestOn, DigestsOn, InReleaseOn, ReleaseOn, AuthenticatedOn, CopyOn, LockOn, MetadataOn,
        PackagesOn, FinishOn
<1>3. ASSUME spc' = "lock" PROVE StageInv'
  <2>1. /\ \A n \in DOMAIN Indexes : supplied.indexes[n].compressed = "xz"
        /\ tree' = tree \cup ReleaseFiles \cup IndexFiles
    <3>1. \A n \in DOMAIN Indexes : supplied.indexes[n].compressed = "xz"
      BY <1>3, Zenon DEF StageReleaseFiles, StageStep
    <3>2. DOMAIN Indexes = {m \in DOMAIN Indexes : supplied.indexes[m].compressed = "xz"}
      BY Zenon, <3>1
    <3> QED  BY <3>1, <3>2, Zenon DEF StageReleaseFiles, ReleaseFiles, IndexFiles
  <2>2. Checked'
    BY <1>3, <2>1, Zenon DEF StageInv, Checked
  <2>3. PackagesChecked'
    BY <1>3, Zenon DEF StageInv, PackagesChecked
  <2>4. PackageFiles' = {}
    BY DEF StageInv, PackagesChecked, PackageFiles
  <2>5. TreeWritten'
    BY <1>3, <2>1, <2>4, Zenon DEF StageInv, TreeWritten
  <2> QED  BY <1>3, <2>2, <2>3, <2>5, Zenon DEF StageInv
<1> QED  BY Zenon, <1>2, <1>3

\* The end of stage removes the verified copy and resets the times.
LEMMA FinishKeeps ==
  ASSUME StageInv, Finish
  PROVE  StageInv'
<1>1. UNCHANGED <<request, supplied, place, verified>> /\ spc = "finish" /\ spc' = "staged"
  BY DEF Finish, StageStep
<1> USE SameChecks, SameRelease, SamePackages, <1>1
    DEF RequestOn, DigestsOn, InReleaseOn, ReleaseOn, AuthenticatedOn, CopyOn, LockOn, MetadataOn,
        PackagesOn, FinishOn
<1>2. Checked'
  BY Zenon DEF StageInv, Checked
<1>3. PackagesChecked'
  BY Zenon DEF StageInv, PackagesChecked
<1>4. PackageFiles' = PackageFiles
  BY Zenon DEF PackageFiles
<1> DEFINE files == ReleaseFiles \cup IndexFiles \cup PackageFiles
<1>5. \A t \in files : t.at # <<"verified-release">>
  <2>1. \A t \in ReleaseFiles : t.at # <<"verified-release">>
    BY DEF ReleaseFiles, Written
  <2>2. ASSUME NEW n \in DOMAIN Indexes PROVE Staged(n).at # <<"verified-release">>
    <3>1. Indexes[n].path = <<request.codename, Indexes[n].component, Indexes[n].arch>>
      BY <2>2, Zenon DEF StageInv, Checked, _component_indexes
    <3> QED  BY <3>1 DEF Staged, Written
  <2>3. ASSUME NEW m \in 1..(place - 1) PROVE PackageFile(m).at # <<"verified-release">>
    <3>1. Locked[RecordOf(supplied.names[m])].filename \in SafePaths
      BY <2>3, Zenon DEF StageInv, Checked, PackagesChecked, PackageChecked, _locked_packages
    <3> QED  BY <3>1, PathsAssumption, Zenon DEF PackageFile, Written
  <2> QED  BY <2>1, <2>2, <2>3, Zenon DEF IndexFiles, PackageFiles
<1>6. {t \in tree : t.at # <<"verified-release">>} = files
  <2>1. VerifiedRelease.at = <<"verified-release">>
    BY Zenon DEF VerifiedRelease, Written
  <2>2. tree = {VerifiedRelease} \cup ReleaseFiles \cup IndexFiles \cup PackageFiles
    BY Zenon DEF StageInv, TreeWritten
  <2> HIDE DEF ReleaseFiles, IndexFiles, PackageFiles
  <2> QED  BY Zenon, <1>5, <2>1, <2>2
<1>7. tree' = {Zeroed(t) : t \in files}
  BY <1>6, Zenon DEF Finish, Zeroed
<1>8. TreeWritten'
  BY <1>4, <1>7, Zenon DEF TreeWritten
<1> QED  BY <1>2, <1>3, <1>8, Zenon DEF StageInv

\* A turn of the loop of _stage_packages adds one package, the one that it has verified.
LEMMA PackageKeeps ==
  ASSUME StageInv, StagePackage
  PROVE  StageInv'
<1>1. /\ UNCHANGED <<request, supplied, verified>> /\ spc = "packages"
      /\ spc' \in {"packages", "finish", "refused"} /\ place \in Nat \ {0}
      /\ place' \in {place, place + 1}
  BY Zenon DEF StagePackage, StageStep, StageInv, PackagesChecked
<1>2. CASE spc' = "refused"
  BY <1>1, <1>2, FailureKeeps
<1> USE SameChecks, SameRelease, SamePackages, <1>1
    DEF RequestOn, DigestsOn, InReleaseOn, ReleaseOn, AuthenticatedOn, CopyOn, LockOn, MetadataOn,
        PackagesOn, FinishOn
<1>3. ASSUME spc' # "refused" PROVE NamesAgree
  BY <1>3, Zenon DEF StagePackage, StageStep
<1>4. CASE spc' = "finish"
  <2>1. UNCHANGED <<tree, place>> /\ place > Len(supplied.names)
    BY <1>3, <1>4, Zenon DEF StagePackage, StageStep
  <2>2. Checked'
    BY <1>3, <1>4, <2>1, Zenon DEF StageInv, Checked
  <2>3. PackagesChecked'
    BY <1>4, <2>1, Zenon DEF StageInv, PackagesChecked
  <2>4. PackageFiles' = PackageFiles
    BY <2>1, Zenon DEF PackageFiles
  <2>5. TreeWritten'
    BY <1>4, <2>1, <2>4, Zenon DEF StageInv, TreeWritten
  <2> QED  BY <1>4, <2>2, <2>3, <2>5, Zenon DEF StageInv
<1>5. CASE spc' = "packages"
  <2> DEFINE n == RecordOf(supplied.names[place])
  <2>1. /\ place' = place + 1 /\ place <= Len(supplied.names)
        /\ Sha256(supplied.packages[place]) = Locked[n].sha256
        /\ supplied.packages[place].size = Locked[n].size
        /\ tree' = tree \cup {PackageFile(place)}
    <3>1. ~(place > Len(supplied.names))
      BY <1>3, <1>5, Zenon DEF StagePackage, StageStep
    <3>2. Len(supplied.names) \in Nat
      BY DEF StageInv, Checked, IsList
    <3> QED  BY <1>3, <1>5, <3>1, <3>2 DEF StagePackage, StageStep, PackageFile
  <2>2. n \in DOMAIN Locked /\ Locked[n].local = supplied.names[place]
    <3>1. place \in DOMAIN supplied.names
      BY <2>1 DEF StageInv, Checked, IsList
    <3>2. supplied.names[place] \in {Locked[m].local : m \in DOMAIN Locked}
      BY <1>3, <1>5, <3>1, Zenon DEF NamesAgree, Range2
    <3>3. \E m \in DOMAIN Locked : Locked[m].local = supplied.names[place]
      BY Zenon, <3>2
    <3> QED  BY <3>3, Zenon DEF RecordOf
  <2>3. PackageChecked(place)
    BY <2>1, <2>2, Zenon DEF PackageChecked
  <2> HIDE DEF n
  <2>4. 1..(place' - 1) = (1..(place - 1)) \cup {place}
    BY <2>1
  <2>5. Checked'
    BY <1>5, Zenon DEF StageInv, Checked
  <2>6. PackagesChecked'
    <3>1. \A m \in 1..(place - 1) : PackageChecked(m)
      BY Zenon DEF StageInv, PackagesChecked
    <3>2. \A m \in 1..(place' - 1) : PackageChecked(m)'
      BY <2>3, <2>4, <3>1, Zenon
    <3> QED  BY <1>5, <2>1, <3>2 DEF PackagesChecked
  <2>7. PackageFiles' = PackageFiles \cup {PackageFile(place)}
    BY <2>4, Zenon DEF PackageFiles
  <2>8. TreeWritten'
    BY <1>5, <2>1, <2>7, Zenon DEF StageInv, TreeWritten
  <2> QED  BY <1>5, <2>5, <2>6, <2>8, Zenon DEF StageInv
<1> QED  BY Zenon, <1>2, <1>4, <1>5

\* No step of the repository breaks what stage has shown so far.
LEMMA StageInductive == StageInv /\ [RepositoryNext]_repositoryVars => StageInv'
<1> SUFFICES ASSUME StageInv, [RepositoryNext]_repositoryVars PROVE StageInv'
  OBVIOUS
<1>1. CASE UNCHANGED stageVars
  <2>1. UNCHANGED <<request, supplied, spc, verified, tree, place>>
    BY <1>1 DEF stageVars
  <2>2. Checked'
    BY <2>1, SameChecks, SameRelease DEF StageInv, Checked
  <2>3. PackagesChecked'
    BY <2>1, SamePackages, Zenon DEF StageInv, PackagesChecked
  <2>4. PackageFiles' = PackageFiles
    BY <2>1, SamePackages, Zenon DEF PackageFiles
  <2>5. TreeWritten'
    BY <2>1, <2>4, SameChecks, Zenon DEF StageInv, TreeWritten
  <2> QED  BY <2>1, <2>2, <2>3, <2>5, Zenon DEF StageInv
<1>2. CASE Called
  BY <1>2, Zenon DEF Called, StageInv, Checked, PackagesChecked, TreeWritten, RequestOn, DigestsOn, InReleaseOn,
      ReleaseOn, AuthenticatedOn, CopyOn, LockOn, MetadataOn, PackagesOn, FinishOn
<1>3. CASE StageNext
  <2>1. CASE CheckRequest \/ VerifyInputDigests \/ VerifyRelease \/ VerifyAuthenticatedRelease
               \/ CheckLock \/ VerifyPackageMetadata
    <3>1. UNCHANGED <<verified, tree, place>>
      BY <2>1, Zenon DEF CheckRequest, VerifyInputDigests, VerifyRelease, VerifyAuthenticatedRelease,
           CheckLock, VerifyPackageMetadata
    <3> QED  BY <2>1, <3>1, CheckKeeps, Zenon
  <2>2. CASE StepFails
    BY <2>2, FailureKeeps, Zenon DEF StepFails, StageInv, PackagesChecked
  <2> QED  BY <1>3, <2>1, <2>2, InReleaseKeeps, FilesKeep, PackageKeeps, FinishKeeps, Zenon DEF StageNext
<1> QED
  BY <1>1, <1>2, <1>3, Zenon DEF RepositoryNext, repositoryVars, Generate, MirrorMoves, EditLock, StartStaging, Stage

-----------------------------------------------------------------------------
\* What StageInv says of a repository that is staged.

Is(path, content) == [at |-> path, is |-> content, time |-> "zero"]
StagedPackage(m) == Is(<<Locked[RecordOf(supplied.names[m])].filename>>, supplied.packages[m])
StagedPackages == {StagedPackage(m) : m \in 1..(place - 1)}
StagedReleases == {Is(<<"dists", request.codename, "InRelease">>, supplied.files[1]),
                   Is(<<"dists", request.codename, "Release">>, supplied.files[2]),
                   Is(<<"dists", request.codename, "Release.gpg">>, supplied.files[3])}
StagedIndex(n) == Is(<<"dists", request.codename, Indexes[n].component, Indexes[n].arch>>,
                     supplied.indexes[n].packages)
StagedIndexes == {StagedIndex(n) : n \in DOMAIN Indexes}

\* The entry that _release_hash finds is one of a field named SHA256: a list that
\* is read as entries begins its own section.
LEMMA ListedInRelease ==
  ASSUME NEW body, IsList(body.fields), NEW n, _release_hash(body, n),
         Indexes[n].path = <<request.codename, Indexes[n].component, Indexes[n].arch>>
  PROVE  \E f \in Range2(body.fields) : \E e \in Range2(f.entries) :
            f.name = "SHA256" /\ e.path = <<Indexes[n].component, Indexes[n].arch>> /\ e.sha256 = Indexes[n].sha256
<1>1. PICK l \in Lines(body) :
        EntryAt(body, l).path = Tail(Indexes[n].path) /\ EntryAt(body, l).sha256 = Indexes[n].sha256
  BY Zenon DEF _release_hash
<1>2. PICK i \in DOMAIN body.fields : InSha256(body, i) /\ l \in {<<i, k>> : k \in DOMAIN body.fields[i].entries}
  BY <1>1, Zenon DEF Lines
<1>3. PICK k \in DOMAIN body.fields[i].entries : l = <<i, k>>
  BY Zenon, <1>2
<1>4. DOMAIN body.fields \subseteq Nat
  BY DEF IsList
<1>5. i \in Sections(body)
  BY <1>2, Zenon DEF _release_hash, EntriesRead, Sections
<1>6. body.fields[i].name = "SHA256"
  <2>1. PICK j \in Sections(body) : body.fields[j].name = "SHA256" /\ j <= i /\ \A m \in Sections(body) : j < m => i < m
    BY <1>2, Zenon DEF InSha256
  <2>2. i \in Nat /\ j \in Nat /\ ~(i < i)
    BY <1>4, <2>1 DEF Sections
  <2>3. ~(j < i)
    BY <1>5, <2>1, <2>2, Zenon
  <2>4. i = j
    BY <2>1, <2>2, <2>3
  <2> QED  BY Zenon, <2>1, <2>4
<1>7. EntryAt(body, l) = body.fields[i].entries[k]
  BY <1>3, Zenon DEF EntryAt
<1>8. Tail(Indexes[n].path) = <<Indexes[n].component, Indexes[n].arch>>
  OBVIOUS
<1>9. body.fields[i].entries[k].path = <<Indexes[n].component, Indexes[n].arch>> /\ body.fields[i].entries[k].sha256 = Indexes[n].sha256
  BY Zenon, <1>1, <1>7, <1>8
<1> QED  BY <1>6, <1>9, Zenon DEF Range2

\* The repository is made of the Release files, the indexes and the packages.
LEMMA StagedTree ==
  ASSUME StageInv, spc = "staged"
  PROVE  tree = StagedReleases \cup StagedIndexes \cup StagedPackages
<1>1. {Zeroed(t) : t \in ReleaseFiles} = StagedReleases
  <2> DEFINE path(name) == <<"dists", request.codename, name>>
  <2>1. ReleaseFiles = {Written(path("InRelease"), supplied.files[1]), Written(path("Release"), supplied.files[2]),
                        Written(path("Release.gpg"), supplied.files[3])}
    <3>1. 1..3 = {1, 2, 3}
      OBVIOUS
    <3> QED  BY <3>1 DEF ReleaseFiles
  <2>2. \A name, content : Zeroed(Written(path(name), content)) = Is(path(name), content)
    BY DEF Zeroed, Written, Is
  <2> QED  BY <2>1, <2>2, Zenon DEF StagedReleases
<1>2. \A n \in DOMAIN Indexes : Zeroed(Staged(n)) = StagedIndex(n)
  <2> TAKE n \in DOMAIN Indexes
  <2>1. Indexes[n].path = <<request.codename, Indexes[n].component, Indexes[n].arch>>
    BY Zenon DEF StageInv, Checked, DigestsOn, InReleaseOn, ReleaseOn, AuthenticatedOn, CopyOn, LockOn, MetadataOn,
           PackagesOn, FinishOn, _component_indexes
  <2> QED  BY <2>1 DEF Zeroed, Staged, StagedIndex, Written, Is
<1>3. \A m \in 1..(place - 1) : Zeroed(PackageFile(m)) = StagedPackage(m)
  BY DEF Zeroed, PackageFile, StagedPackage, Written, Is
<1>4. tree = {Zeroed(t) : t \in ReleaseFiles \cup IndexFiles \cup PackageFiles}
  BY DEF StageInv, TreeWritten
<1>5. {Zeroed(t) : t \in IndexFiles} = StagedIndexes
  BY <1>2 DEF IndexFiles, StagedIndexes
<1>6. {Zeroed(t) : t \in PackageFiles} = StagedPackages
  BY <1>3 DEF PackageFiles, StagedPackages
<1> QED  BY Zenon, <1>1, <1>4, <1>5, <1>6

\* Each record of the lock has one staged package.
LEMMA PackagesAre ==
  ASSUME StageInv, spc = "staged"
  PROVE  /\ {t.at : t \in StagedPackages} = {<<p.filename>> : p \in Range2(request.packages)}
         /\ Distinct([n \in DOMAIN request.packages |-> request.packages[n].filename])
         /\ \A t, u \in StagedPackages : t.at = u.at => t = u
<1> USE DEF RequestOn, DigestsOn, InReleaseOn, ReleaseOn, AuthenticatedOn, CopyOn, LockOn, MetadataOn,
        PackagesOn, FinishOn
<1>1. /\ \A m \in 1..(place - 1) : PackageChecked(m)
      /\ _locked_packages /\ NamesAgree
      /\ Len(supplied.names) \in Nat /\ place \in Nat /\ place > Len(supplied.names)
      /\ DOMAIN supplied.names = 1..Len(supplied.names)
      /\ Len(Locked) \in Nat /\ DOMAIN Locked = 1..Len(Locked)
  BY DEF StageInv, Checked, PackagesChecked, IsList, Locked
<1> DEFINE At(n) == <<Locked[n].filename>>
           Rec(m) == RecordOf(supplied.names[m])
<1>2. \A m \in 1..(place - 1) : /\ Rec(m) \in DOMAIN Locked /\ StagedPackage(m).at = At(Rec(m))
                                /\ Locked[Rec(m)].local = supplied.names[m]
                                /\ StagedPackage(m) = Is(At(Rec(m)), supplied.packages[m])
                                /\ <<"sha256", supplied.packages[m]>> = Locked[Rec(m)].sha256
  BY <1>1, Zenon DEF PackageChecked, StagedPackage, Is, Sha256
<1>3. \A n, k \in DOMAIN Locked : /\ At(n) = At(k) => n = k
                                  /\ Locked[n].local = Locked[k].local => n = k
  BY <1>1, Zenon DEF _locked_packages, Distinct
<1> HIDE DEF At, Rec
<1>4. \A m, k \in 1..(place - 1) : StagedPackage(m).at = StagedPackage(k).at => StagedPackage(m) = StagedPackage(k)
  <2> TAKE m, k \in 1..(place - 1)
  <2> HAVE StagedPackage(m).at = StagedPackage(k).at
  <2>1. Rec(m) = Rec(k)
    <3>1. Rec(m) \in DOMAIN Locked /\ Rec(k) \in DOMAIN Locked /\ At(Rec(m)) = At(Rec(k))
      BY <1>2, Zenon
    <3> QED  BY <1>3, <3>1, Zenon
  <2>2. supplied.packages[m] = supplied.packages[k]
    <3>1. <<"sha256", supplied.packages[m]>> = <<"sha256", supplied.packages[k]>>
      BY <1>2, <2>1, Zenon
    <3> QED  BY <3>1
  <2> QED  BY <1>2, <2>1, <2>2, Zenon
<1>5. \A n \in DOMAIN Locked : \E t \in StagedPackages : t.at = At(n)
  <2> TAKE n \in DOMAIN Locked
  <2>1. Locked[n].local \in Range2(supplied.names)
    BY <1>1, Zenon DEF NamesAgree
  <2>2. PICK m \in DOMAIN supplied.names : supplied.names[m] = Locked[n].local
    BY <2>1 DEF Range2
  <2>3. m \in 1..(place - 1)
    BY <1>1
  <2>4. Rec(m) = n
    <3>1. Rec(m) \in DOMAIN Locked /\ Locked[Rec(m)].local = Locked[n].local
      BY <1>2, <2>2, <2>3, Zenon
    <3> QED  BY <1>3, <3>1, Zenon
  <2> QED  BY <1>2, <2>3, <2>4, Zenon DEF StagedPackages
<1>6. \A t \in StagedPackages : \E n \in DOMAIN Locked : t.at = At(n)
  BY <1>2, Zenon DEF StagedPackages
<1>7. {t.at : t \in StagedPackages} = {At(n) : n \in DOMAIN Locked}
  <2>1. {t.at : t \in StagedPackages} \subseteq {At(n) : n \in DOMAIN Locked}
    BY <1>6, Zenon
  <2>2. {At(n) : n \in DOMAIN Locked} \subseteq {t.at : t \in StagedPackages}
    BY <1>5, Zenon
  <2> QED  BY <2>1, <2>2, Zenon
<1>8. {At(n) : n \in DOMAIN Locked} = {<<p.filename>> : p \in Range2(request.packages)}
  BY Zenon DEF At, Locked, Range2
<1>9. \A t, u \in StagedPackages : t.at = u.at => t = u
  BY <1>4, Zenon DEF StagedPackages
<1>10. Distinct([n \in DOMAIN request.packages |-> request.packages[n].filename])
  BY <1>1, Zenon DEF _locked_packages, Locked
<1> QED  BY <1>7, <1>8, <1>9, <1>10, Zenon

\* No two files of the repository have the same path.
LEMMA PathsDiffer ==
  ASSUME StageInv, spc = "staged", NEW t \in tree, NEW u \in tree, t.at = u.at
  PROVE  t = u
<1>1. t \in StagedReleases \cup StagedIndexes \cup StagedPackages
      /\ u \in StagedReleases \cup StagedIndexes \cup StagedPackages
  BY StagedTree, Zenon
<1>2. \A v \in StagedReleases : Len(v.at) = 3
  BY DEF StagedReleases, Is
<1>3. \A v \in StagedIndexes : Len(v.at) = 4
  BY DEF StagedIndexes, StagedIndex, Is
<1>4. \A v \in StagedPackages : Len(v.at) = 1
  BY DEF StagedPackages, StagedPackage, Is
<1>5. CASE t \in StagedReleases /\ u \in StagedReleases
  BY <1>5 DEF StagedReleases, Is
<1>6. CASE t \in StagedIndexes /\ u \in StagedIndexes
  <2>1. PICK n \in DOMAIN Indexes : t = StagedIndex(n)
    BY <1>6, Zenon DEF StagedIndexes
  <2>2. PICK m \in DOMAIN Indexes : u = StagedIndex(m)
    BY <1>6, Zenon DEF StagedIndexes
  <2>3. <<"dists", request.codename, Indexes[n].component, Indexes[n].arch>>
          = <<"dists", request.codename, Indexes[m].component, Indexes[m].arch>>
    BY <2>1, <2>2, Zenon DEF StagedIndex, Is
  <2>4. <<Indexes[n].component, Indexes[n].arch>> = <<Indexes[m].component, Indexes[m].arch>>
    BY <2>3
  <2>5. Distinct([k \in DOMAIN Indexes |-> <<Indexes[k].component, Indexes[k].arch>>])
    BY Zenon DEF StageInv, Checked, DigestsOn, InReleaseOn, ReleaseOn, AuthenticatedOn, CopyOn, LockOn, MetadataOn,
           PackagesOn, FinishOn, _component_indexes
  <2>6. n = m
    BY <2>1, <2>2, <2>4, <2>5, Zenon DEF Distinct
  <2> QED  BY <2>1, <2>2, <2>6, Zenon
<1>7. CASE t \in StagedPackages /\ u \in StagedPackages
  BY <1>7, PackagesAre, Zenon
<1>8. 3 # 4 /\ 1 # 3 /\ 1 # 4
  OBVIOUS
<1> QED  BY Zenon, <1>1, <1>2, <1>3, <1>4, <1>5, <1>6, <1>7, <1>8

\* At the end, what was checked and what was written make up StagedIsAuthentic.
LEMMA StagedIsSound ==
  ASSUME StageInv
  PROVE  StagedIsAuthentic
<1> SUFFICES ASSUME spc = "staged" PROVE StagedIsAuthentic
  BY Zenon DEF StagedIsAuthentic
<1> DEFINE release == supplied.files[2]
           dists(name) == <<"dists", request.codename, name>>
           releases == {Is(dists("InRelease"), supplied.files[1]), Is(dists("Release"), release),
                        Is(dists("Release.gpg"), supplied.files[3])}
           indexes == {Is(<<"dists", request.codename, request.indexes[n].component, request.indexes[n].arch>>,
                          supplied.indexes[n].packages) : n \in DOMAIN request.indexes}
           listed == UNION {Range2(i.is) : i \in indexes}
<1>1. releases = StagedReleases
  BY Zenon DEF StagedReleases
<1>2. indexes = StagedIndexes
  BY Zenon DEF StagedIndexes, StagedIndex, Indexes
<1>3. tree = releases \cup indexes \cup StagedPackages
  BY <1>1, <1>2, StagedTree, Zenon
<1> HIDE DEF releases, indexes
<1>4. /\ IsList(Indexes) /\ IsList(release.body.fields)
      /\ _component_indexes /\ _verify_input_digests
      /\ SqvAccepts(supplied.files[1].signature, supplied.files[1].body)
      /\ verified.body = supplied.files[1].body
      /\ SqvAccepts(supplied.files[3], supplied.files[2])
      /\ _authenticated_release_matches
      /\ _verify_package_metadata
      /\ \A m \in 1..(place - 1) : PackageChecked(m)
      /\ \A n \in DOMAIN Indexes : _release_hash(verified.body, n)
  BY Zenon DEF StageInv, Checked, PackagesChecked, RequestOn, DigestsOn, InReleaseOn, ReleaseOn, AuthenticatedOn,
         CopyOn, LockOn, MetadataOn, PackagesOn, FinishOn, Indexes
<1>5. verified.body = release.body
  BY <1>4, Zenon DEF _authenticated_release_matches
<1>6. ASSUME NEW n \in DOMAIN request.indexes
      PROVE  \E g \in Range2(release.body.fields) : \E e \in Range2(g.entries) :
               /\ g.name = "SHA256"
               /\ e.path = <<request.indexes[n].component, request.indexes[n].arch>>
               /\ e.sha256 = Sha256(supplied.indexes[n])
  <2>1. n \in DOMAIN Indexes /\ request.indexes = Indexes
    BY <1>6 DEF Indexes
  <2>2. /\ Indexes[n].path = <<request.codename, Indexes[n].component, Indexes[n].arch>>
        /\ Sha256(supplied.indexes[n]) = Indexes[n].sha256
    BY <1>4, <2>1, Zenon DEF _component_indexes, _verify_input_digests
  <2>3. _release_hash(release.body, n)
    BY <1>4, <1>5, <2>1, Zenon
  <2>4. \E g \in Range2(release.body.fields) : \E e \in Range2(g.entries) :
          g.name = "SHA256" /\ e.path = <<Indexes[n].component, Indexes[n].arch>> /\ e.sha256 = Indexes[n].sha256
    <3>1. IsList(release.body.fields)
      BY <1>4, Zenon
    <3> QED  BY <2>2, <2>3, <3>1, ListedInRelease, Zenon
  <2> QED  BY <2>1, <2>2, <2>4, Zenon
<1>7. tree \ (releases \cup indexes) = StagedPackages
  <2>1. \A t \in releases : Len(t.at) = 3
    BY <1>1 DEF StagedReleases, Is
  <2>2. \A t \in indexes : Len(t.at) = 4
    BY <1>2 DEF StagedIndexes, StagedIndex, Is
  <2>3. \A t \in StagedPackages : Len(t.at) = 1
    BY DEF StagedPackages, StagedPackage, Is
  <2> QED  BY <1>3, <2>1, <2>2, <2>3
<1>8. ASSUME NEW t \in tree \ (releases \cup indexes)
      PROVE  \E p \in listed : t = Is(<<p.filename>>, t.is) /\ Sha256(t.is) = p.sha256 /\ t.is.size = p.size
  <2>1. PICK m \in 1..(place - 1) : t = StagedPackage(m)
    BY <1>3, <1>8, Zenon DEF StagedPackages
  <2> DEFINE n == RecordOf(supplied.names[m])
  <2>2. /\ n \in DOMAIN Locked
        /\ Sha256(supplied.packages[m]) = Locked[n].sha256
        /\ supplied.packages[m].size = Locked[n].size
    BY <1>4, Zenon DEF PackageChecked
  <2>3. t.is = supplied.packages[m] /\ t = Is(<<Locked[n].filename>>, t.is)
    BY <2>1, Zenon DEF StagedPackage, Is
  <2> HIDE DEF n
  <2>4. PICK p \in Paragraphs : FileRecord(p[1]) = FileRecord(Locked[n])
    BY <1>4, <2>2, Zenon DEF _verify_package_metadata
  <2>5. PICK k \in DOMAIN Indexes : p \in {<<q, Indexes[k].arch>> : q \in Range2(supplied.indexes[k].packages)}
    BY <2>4, Zenon DEF Paragraphs
  <2>6. p[1] \in Range2(supplied.indexes[k].packages)
    BY <2>5
  <2>7. StagedIndex(k) \in indexes /\ StagedIndex(k).is = supplied.indexes[k].packages
    BY <1>2, <2>5, Zenon DEF StagedIndexes, StagedIndex, Is
  <2>8. p[1] \in listed
    BY Zenon, <2>6, <2>7
  <2>9. p[1].filename = Locked[n].filename /\ p[1].size = Locked[n].size /\ p[1].sha256 = Locked[n].sha256
    BY <2>4, Zenon DEF FileRecord
  <2> QED  BY <2>2, <2>3, <2>8, <2>9, Zenon
<1>9. /\ {t.at : t \in tree \ (releases \cup indexes)} = {<<p.filename>> : p \in Range2(request.packages)}
      /\ Distinct([n \in DOMAIN request.packages |-> request.packages[n].filename])
  BY <1>7, PackagesAre, Zenon
<1>10. \A t, u \in tree : t.at = u.at => t = u
  BY PathsDiffer, Zenon
<1>11. releases \cup indexes \subseteq tree
  BY <1>3, Zenon
<1> QED
  BY <1>4, <1>5, <1>6, <1>8, <1>9, <1>10, <1>11, Zenon DEF StagedIsAuthentic, releases, indexes, Is

\* What stage leaves is authentic, whatever the archives, the lock, the edits of it
\* and the supplied files are: signed, listed in the Release file and in an index,
\* locked, and nothing else.
THEOREM StagedIsAuthenticHolds == RepositorySpec => []StagedIsAuthentic
<1>1. RepositorySpec => []StageInv
  BY Begun, StageInductive, PTL DEF RepositorySpec
<1> QED  BY <1>1, StagedIsSound, PTL

-----------------------------------------------------------------------------
\* The lock.

\* What the generator has checked of the files that it has.
GeneratorInv ==
    /\ gpc \in {"fetch", "check", "resolve", "done", "failed"}
    /\ IsList(got)
    /\ gpc = "fetch" => Len(got) < Len(Wanted)
    /\ gpc = "check" => Len(got) >= 3 /\ Len(got) <= Len(Wanted)
    /\ gpc \in {"resolve", "done"} => Len(got) = Len(Wanted)
    /\ gpc # "failed" /\ (Len(got) > 3 \/ (Len(got) = 3 /\ gpc # "check")) =>
         PayloadMatches /\ release_checksums
    /\ gpc # "failed" => \A n \in 4..Len(got) : n < Len(got) \/ gpc # "check" => IndexMatches(n)
    /\ gpc = "done" /\ "edited" \notin disturbed =>
         ~ConflictingDuplicate /\ \E S \in Resolved : \E selected \in Orders(S) : lockFile = Generated(selected)

\* Every file that was downloaded is of some state of the mirror, and stage is
\* called with the records of the lock.
FromArchives(files) == \A n \in DOMAIN files : \E a \in DOMAIN Archives :
    Wanted[n] \in DOMAIN Archives[a].files /\ files[n] = Archives[a].files[Wanted[n]]
SuppliedInv ==
    /\ mirror \in DOMAIN Archives
    /\ FromArchives(got)
    /\ spc # "idle" => /\ gpc = "done" /\ request = Requested
                       /\ supplied.names = [n \in DOMAIN lockFile.packages |-> n]
    /\ spc \in ReleaseOn => \E kept \in {0, 1} :
         verified.newlines = supplied.files[1].newlines - 1 + kept

\* About lists.
LEMMA ListOf ==
  ASSUME NEW T, NEW s \in Seq(T)
  PROVE  IsList(s)
<1>1. /\ Len(s) \in Nat /\ s = [i \in 1..Len(s) |-> s[i]]
      /\ DOMAIN s = 1..Len(s)
  OBVIOUS
<1>2. \A i \in 1..Len(s) : s[i] \in Range2(s)
  BY <1>1, Zenon DEF Range2
<1> HIDE DEF Range2
<1> QED  BY <1>1, <1>2 DEF IsList

\* A list is a function on 1..Len(s).
LEMMA ListIs ==
  ASSUME NEW s, IsList(s)
  PROVE  Len(s) \in Nat /\ DOMAIN s = 1..Len(s)
  BY DEF IsList

\* Appending to a list keeps its elements.
LEMMA LongerList ==
  ASSUME NEW s, IsList(s), NEW e
  PROVE  /\ IsList(Append(s, e)) /\ Len(Append(s, e)) = Len(s) + 1
         /\ \A n \in 1..Len(s) : Append(s, e)[n] = s[n]
         /\ Append(s, e)[Len(s) + 1] = e
<1> DEFINE T == Range2(s) \cup {e}
<1>1. s \in Seq(Range2(s))
  BY DEF IsList
<1> HIDE DEF Range2
<1>2. s \in Seq(T) /\ e \in T
  BY <1>1
<1> HIDE DEF T
<1>3. Append(s, e) \in Seq(T)
  BY <1>2
<1>4. IsList(Append(s, e))
  BY <1>3, ListOf, Zenon
<1>5. /\ Len(Append(s, e)) = Len(s) + 1
      /\ \A n \in 1..Len(s) : Append(s, e)[n] = s[n]
      /\ Append(s, e)[Len(s) + 1] = e
  BY <1>2
<1> QED  BY <1>4, <1>5, Zenon

\* Concatenation of two lists.
LEMMA Joined ==
  ASSUME NEW T, NEW s \in Seq(T), NEW t \in Seq(T)
  PROVE  /\ Len(s \o t) = Len(s) + Len(t) /\ DOMAIN (s \o t) = 1..(Len(s) + Len(t))
         /\ \A i \in 1..Len(s) : (s \o t)[i] = s[i]
         /\ \A i \in 1..Len(t) : (s \o t)[i + Len(s)] = t[i]
  OBVIOUS

\* The indexes that are wanted: two of each component, behind the Release files.
LEMMA PathsAre ==
  /\ DOMAIN IndexPaths = 1..(2 * Len(Components)) /\ Len(Components) \in Nat
  /\ DOMAIN Components = 1..Len(Components)
  /\ \A n \in DOMAIN IndexPaths :
       IndexPaths[n] = <<Components[(n + 1) \div 2], IF n % 2 = 1 THEN "amd64" ELSE "all">>
<1>1. Len(Components) \in Nat /\ DOMAIN Components = 1..Len(Components)
  BY ChannelAssumption DEF IsList
<1> QED  BY <1>1, Zenon DEF IndexPaths, Architectures

\* The downloads of generate: three Release files, then the indexes.
LEMMA WantedAre ==
  /\ Len(Wanted) = 3 + 2 * Len(Components) /\ Len(Wanted) \in Nat
  /\ DOMAIN Wanted = 1..Len(Wanted)
  /\ Wanted[1] = InRelease /\ Wanted[2] = Release /\ Wanted[3] = ReleaseGpg
  /\ \A n \in DOMAIN IndexPaths : n + 3 \in DOMAIN Wanted /\ Wanted[n + 3] = IndexPaths[n]
<1> DEFINE S == {InRelease, Release, ReleaseGpg} \cup Range2(IndexPaths)
<1>1. <<InRelease, Release, ReleaseGpg>> \in Seq(S)
  OBVIOUS
<1>2. IndexPaths \in Seq(S) /\ Len(IndexPaths) = 2 * Len(Components)
  <2>1. \A n \in 1..(2 * Len(Components)) : IndexPaths[n] \in S
    BY PathsAre, Zenon DEF Range2
  <2>2. IndexPaths = [n \in 1..(2 * Len(Components)) |-> IndexPaths[n]]
    BY Zenon DEF IndexPaths
  <2> QED  BY <2>1, <2>2, PathsAre
<1> DEFINE three == <<InRelease, Release, ReleaseGpg>>
<1>3. Len(three) = 3 /\ three[1] = InRelease /\ three[2] = Release /\ three[3] = ReleaseGpg
  OBVIOUS
<1>4. Wanted = three \o IndexPaths
  BY DEF Wanted
<1> HIDE DEF three, S
<1>5. /\ Len(Wanted) = 3 + 2 * Len(Components) /\ DOMAIN Wanted = 1..(3 + 2 * Len(Components))
      /\ \A i \in 1..3 : Wanted[i] = three[i]
      /\ \A i \in 1..(2 * Len(Components)) : Wanted[i + 3] = IndexPaths[i]
  <2>1. three \in Seq(S)
    BY <1>1 DEF three
  <2>2. /\ Len(three \o IndexPaths) = Len(three) + Len(IndexPaths)
        /\ DOMAIN (three \o IndexPaths) = 1..(Len(three) + Len(IndexPaths))
        /\ \A i \in 1..Len(three) : (three \o IndexPaths)[i] = three[i]
        /\ \A i \in 1..Len(IndexPaths) : (three \o IndexPaths)[i + Len(three)] = IndexPaths[i]
    <3>1. IndexPaths \in Seq(S)
      BY <1>2, Zenon
    <3> QED  BY <2>1, <3>1, Joined
  <2> QED  BY <1>2, <1>3, <1>4, <2>2, Zenon
<1>6. 1 \in 1..3 /\ 2 \in 1..3 /\ 3 \in 1..3
  OBVIOUS
<1>7. Wanted[1] = InRelease /\ Wanted[2] = Release /\ Wanted[3] = ReleaseGpg
  BY <1>3, <1>5, <1>6, Zenon
<1>8. \A n \in DOMAIN IndexPaths : n + 3 \in DOMAIN Wanted /\ Wanted[n + 3] = IndexPaths[n]
  BY <1>5, PathsAre
<1> QED  BY <1>5, <1>7, <1>8, PathsAre

\* The checks read only files that the generator has.
LEMMA SameGot ==
  ASSUME got' = got
  PROVE  /\ PayloadMatches' = PayloadMatches
         /\ release_checksums' = release_checksums
         /\ \A n : IndexMatches(n)' = IndexMatches(n)
         /\ ConflictingDuplicate' = ConflictingDuplicate
         /\ Resolved' = Resolved
         /\ \A S : Generated(S)' = Generated(S)
<1>1. PayloadMatches' = PayloadMatches /\ release_checksums' = release_checksums
  BY Zenon DEF PayloadMatches, release_checksums
<1>2. \A n : IndexMatches(n)' = IndexMatches(n)
  BY Zenon DEF IndexMatches, Entry
<1>3. Listed' = Listed
  BY DEF Listed
<1>4. ConflictingDuplicate' = ConflictingDuplicate /\ Resolved' = Resolved
  BY <1>3, Zenon DEF ConflictingDuplicate, Resolved
<1>5. \A S : Generated(S)' = Generated(S)
  BY Zenon DEF Generated, _metadata_entry
<1> QED  BY <1>1, <1>2, <1>4, <1>5, Zenon

\* Before the first download nothing has been checked.
LEMMA GeneratorBegins == RepositoryInit => GeneratorInv /\ SuppliedInv
<1> SUFFICES ASSUME RepositoryInit PROVE GeneratorInv /\ SuppliedInv
  OBVIOUS
<1>1. got = <<>> /\ gpc = "fetch" /\ spc = "idle" /\ mirror \in DOMAIN Archives
  BY DEF RepositoryInit, GeneratorInit, StageInit
<1>2. IsList(got) /\ Len(got) = 0 /\ DOMAIN got = {}
  BY <1>1 DEF IsList
<1>3. GeneratorInv
  BY <1>1, <1>2, WantedAre, PathsAre DEF GeneratorInv
<1> QED  BY <1>1, <1>2, <1>3, Zenon DEF SuppliedInv, FromArchives, ReleaseOn, AuthenticatedOn, CopyOn, LockOn, MetadataOn, PackagesOn, FinishOn

\* One more file leaves what was checked of the others as it is.
LEMMA DownloadKeeps ==
  ASSUME GeneratorInv, Download, UNCHANGED disturbed
  PROVE  GeneratorInv'
<1>1. /\ gpc = "fetch" /\ IsList(got) /\ Len(got) \in Nat /\ Len(got) < Len(Wanted)
      /\ got' = Append(got, Served[NextWanted])
      /\ gpc' = IF Len(got) < 2 THEN "fetch" ELSE "check"
  BY DEF Download, GeneratorInv, IsList
<1>2. /\ IsList(got') /\ Len(got') = Len(got) + 1
      /\ \A n \in 1..Len(got) : got'[n] = got[n]
  <2> DEFINE e == Served[NextWanted]
  <2>1. /\ IsList(Append(got, e)) /\ Len(Append(got, e)) = Len(got) + 1
        /\ \A n \in 1..Len(got) : Append(got, e)[n] = got[n]
    <3>1. IsList(got)
      BY <1>1, Zenon
    <3> HIDE DEF e
    <3> QED  BY <3>1, LongerList
  <2> HIDE DEF e
  <2>2. got' = Append(got, e)
    BY <1>1, Zenon DEF e
  <2> QED  BY <2>1, <2>2, Zenon
<1>3. ASSUME Len(got') > 3 PROVE (PayloadMatches /\ release_checksums)'
  <2>1. Len(got) >= 3 /\ PayloadMatches /\ release_checksums
    <3>0. Len(got) \in Nat /\ Len(got') = Len(got) + 1
      BY <1>1, <1>2, Zenon
    <3>1. Len(got) > 3 \/ Len(got) = 3
      <4>1. \A a \in Nat : \A b : b = a + 1 /\ b > 3 => a > 3 \/ a = 3
        OBVIOUS
      <4> QED  BY <1>3, <3>0, <4>1, Zenon
    <3>2. Len(got) >= 3
      BY <3>0, <3>1
    <3> QED  BY <1>1, <3>1, <3>2, Zenon DEF GeneratorInv
  <2>2. got'[1] = got[1] /\ got'[2] = got[2]
    BY <1>1, <1>2, <2>1
  <2> QED  BY <2>1, <2>2, Zenon DEF PayloadMatches, release_checksums
<1>4. ASSUME NEW n \in 4..Len(got), gpc' = "check" PROVE IndexMatches(n)'
  <2>1. IndexMatches(n)
    BY <1>1, <1>4, Zenon DEF GeneratorInv
  <2>2. got'[n] = got[n] /\ got'[2] = got[2]
    BY <1>1, <1>2, <1>4
  <2> QED  BY <2>1, <2>2, Zenon DEF IndexMatches, Entry
<1> QED  BY <1>1, <1>2, <1>3, <1>4, WantedAre DEF GeneratorInv

\* A check adds what it has shown.
LEMMA GeneratorCheckKeeps ==
  ASSUME GeneratorInv, Check, UNCHANGED disturbed
  PROVE  GeneratorInv'
<1>1. /\ gpc = "check" /\ got' = got /\ gpc' \in {"failed", "resolve", "fetch"}
      /\ IsList(got) /\ Len(got) \in Nat /\ Len(got) >= 3 /\ Len(got) <= Len(Wanted)
  BY ListIs, Zenon DEF Check, LockError, GeneratorInv
<1>2. CASE gpc' = "failed"
  BY <1>1, <1>2, Zenon DEF GeneratorInv
<1>3. CASE gpc' # "failed"
  <2>1. /\ gpc' = IF Len(got) = Len(Wanted) THEN "resolve" ELSE "fetch"
        /\ Len(got) = 3 => PayloadMatches /\ release_checksums
        /\ Len(got) # 3 => IndexMatches(Len(got))
    BY <1>1, <1>3, Zenon DEF Check, LockError
  <2>2. PayloadMatches /\ release_checksums
    <3>1. CASE Len(got) = 3
      BY <2>1, <3>1, Zenon
    <3>2. CASE Len(got) # 3
      <4>1. Len(got) > 3
        <5>1. \A a \in Nat : a >= 3 /\ a # 3 => a > 3
          OBVIOUS
        <5> QED  BY <1>1, <3>2, <5>1, Zenon
      <4> QED  BY <1>1, <4>1, Zenon DEF GeneratorInv
    <3> QED  BY Zenon, <3>1, <3>2
  <2>3. ASSUME NEW n \in 4..Len(got) PROVE IndexMatches(n)
    <3>1. CASE n < Len(got)
      BY <1>1, <2>3, <3>1, Zenon DEF GeneratorInv
    <3>2. CASE n = Len(got)
      BY <2>1, <2>3, <3>2
    <3> QED  BY <1>1, <2>3, <3>1, <3>2
  <2>4. gpc' = "resolve" => Len(got) = Len(Wanted)
    BY <2>1
  <2>5. gpc' = "fetch" => Len(got) < Len(Wanted)
    BY <1>1, <2>1, WantedAre
  <2> QED  BY <1>1, <2>1, <2>2, <2>3, <2>4, <2>5, SameGot, Zenon DEF GeneratorInv
<1> QED  BY Zenon, <1>2, <1>3

\* generate writes a lock of the packages that it has chosen.
LEMMA ResolveKeeps ==
  ASSUME GeneratorInv, Resolve, UNCHANGED disturbed
  PROVE  GeneratorInv'
<1>1. gpc = "resolve" /\ got' = got
  BY DEF Resolve
<1>2. CASE gpc' = "failed"
  BY <1>1, <1>2, Zenon DEF GeneratorInv
<1>3. CASE gpc' # "failed"
  <2>1. gpc' = "done" /\ ~ConflictingDuplicate
        /\ \E S \in Resolved : \E selected \in Orders(S) : lockFile' = Generated(selected)
    BY <1>3, Zenon DEF Resolve, LockError
  <2> QED  BY <1>1, <2>1, SameGot DEF GeneratorInv
<1> QED  BY Zenon, <1>2, <1>3

\* No step of the repository breaks what the generator has checked.
LEMMA GeneratorInductive == GeneratorInv /\ [RepositoryNext]_repositoryVars => GeneratorInv'
<1> SUFFICES ASSUME GeneratorInv, [RepositoryNext]_repositoryVars PROVE GeneratorInv'
  OBVIOUS
<1>1. ASSUME got' = got, gpc' = gpc, lockFile' = lockFile, "edited" \in disturbed => "edited" \in disturbed'
      PROVE  GeneratorInv'
  BY <1>1, SameGot DEF GeneratorInv
<1>2. CASE Generate
  <2>1. CASE TransientFailure \/ PermanentFailure
    <3>1. got' = got /\ gpc' \in {gpc, "failed"} /\ lockFile' = lockFile /\ gpc = "fetch" /\ disturbed' = disturbed
      BY <1>2, <2>1, Zenon DEF Generate, TransientFailure, PermanentFailure, LockError
    <3>2. CASE gpc' = "failed"
      BY <3>1, <3>2, Zenon DEF GeneratorInv
    <3> QED  BY Zenon, <1>1, <3>1, <3>2
  <2> QED  BY <1>2, <2>1, DownloadKeeps, GeneratorCheckKeeps, ResolveKeeps, Zenon DEF Generate, GeneratorNext
<1>3. CASE MirrorMoves
  BY <1>1, <1>3, Zenon DEF MirrorMoves, MirrorChanges, generatorVars
<1>4. CASE EditLock
  <2>1. got' = got /\ gpc' = gpc /\ "edited" \in disturbed'
    BY <1>4 DEF EditLock
  <2> QED  BY <2>1, SameGot, Zenon DEF GeneratorInv
<1>5. CASE StartStaging
  <2>1. UNCHANGED generatorVars /\ (disturbed' = disturbed \/ disturbed = {})
    BY <1>5, Zenon DEF StartStaging
  <2> QED  BY <1>1, <2>1, Zenon DEF generatorVars
<1>6. CASE Stage \/ UNCHANGED repositoryVars
  BY <1>1, <1>6, Zenon DEF Stage, repositoryVars, generatorVars
<1> QED  BY <1>2, <1>3, <1>4, <1>5, <1>6, Zenon DEF RepositoryNext

\* When the lock is written, each wanted index was downloaded and matched.
LEMMA IndexIs ==
  ASSUME GeneratorInv, gpc = "done", NEW n \in DOMAIN IndexPaths
  PROVE  /\ n + 3 \in 4..Len(got) /\ n + 3 \in DOMAIN got /\ Wanted[n + 3] = IndexPaths[n]
         /\ IndexMatches(n + 3)
<1>1. Len(got) = Len(Wanted) /\ IsList(got)
  BY DEF GeneratorInv
<1>2. n + 3 \in 4..Len(got) /\ n + 3 \in DOMAIN got /\ Wanted[n + 3] = IndexPaths[n]
  BY <1>1, PathsAre, WantedAre, ListIs
<1> QED  BY <1>2, Zenon DEF GeneratorInv

\* An index belongs to a component and to one of the two architectures.
LEMMA PathIs ==
  ASSUME NEW n \in DOMAIN IndexPaths
  PROVE  /\ IndexPaths[n] = <<IndexPaths[n][1], IndexPaths[n][2]>>
         /\ IndexPaths[n][2] \in {"amd64", "all"} /\ IndexPaths[n][1] \in Range2(Components)
<1>1. IndexPaths[n] = <<Components[(n + 1) \div 2], IF n % 2 = 1 THEN "amd64" ELSE "all">>
  BY PathsAre, Zenon
<1>2. (n + 1) \div 2 \in DOMAIN Components
  BY PathsAre
<1>3. Components[(n + 1) \div 2] \in Range2(Components)
  BY <1>2, Zenon DEF Range2
<1> QED  BY <1>1, <1>3

\* A generated lock is consistent.
LEMMA GeneratedIsConsistent ==
  ASSUME GeneratorInv
  PROVE  LockIsConsistent
<1> SUFFICES ASSUME gpc = "done", "edited" \notin disturbed PROVE LockIsConsistent
  BY Zenon DEF LockIsConsistent
<1>1a. PICK S \in Resolved : \E selected \in Orders(S) : lockFile = Generated(selected)
  BY Zenon DEF GeneratorInv
<1>1. PICK selected \in Orders(S) : lockFile = Generated(selected)
  BY <1>1a, Zenon
<1>2. /\ lockFile.files[1] = Sha256(got[1]) /\ lockFile.files[2] = Sha256(got[2])
      /\ lockFile.indexes = [n \in DOMAIN IndexPaths |-> _metadata_entry(n)]
      /\ lockFile.packages = [n \in DOMAIN selected |-> _locked_package(selected[n])]
  BY <1>1 DEF Generated
<1>3. \A c : Content(Sha256(c)) = c
  BY DEF Content, Sha256
<1>4. Len(got) = Len(Wanted) /\ IsList(got) /\ PayloadMatches
  <2>1. Len(got) = Len(Wanted) /\ IsList(got)
    BY Zenon DEF GeneratorInv
  <2>2. Len(got) > 3 \/ Len(got) = 3
    BY <2>1, WantedAre, PathsAre
  <2> QED  BY <2>1, <2>2, Zenon DEF GeneratorInv
<1>5. ASSUME NEW n \in DOMAIN lockFile.indexes
      PROVE  /\ \E e \in Range2(Sha256Field(got[2].body)) :
                  /\ e.path = <<lockFile.indexes[n].component, lockFile.indexes[n].arch>>
                  /\ e.sha256 = lockFile.indexes[n].sha256 /\ e.size = got[n + 3].size
             /\ Content(lockFile.indexes[n].sha256) = got[n + 3]
  <2>1. n \in DOMAIN IndexPaths
    BY Zenon, <1>2, <1>5
  <2>2. /\ lockFile.indexes[n].component = IndexPaths[n][1] /\ lockFile.indexes[n].arch = IndexPaths[n][2]
        /\ lockFile.indexes[n].sha256 = Sha256(got[n + 3])
    <3>1. lockFile.indexes[n] = _metadata_entry(n)
      BY <1>2, <2>1, Zenon
    <3> QED  BY <3>1 DEF _metadata_entry
  <2>3. PICK e \in Entry(Wanted[n + 3]) : e.size = got[n + 3].size /\ e.sha256 = Sha256(got[n + 3])
    BY <2>1, IndexIs, Zenon DEF IndexMatches
  <2>4. e \in Range2(Sha256Field(got[2].body)) /\ e.path = <<IndexPaths[n][1], IndexPaths[n][2]>>
    BY <2>1, <2>3, IndexIs, PathIs, Zenon DEF Entry
  <2> QED  BY <1>3, <2>2, <2>3, <2>4, Zenon
<1>6. ASSUME NEW p \in Range2(lockFile.packages)
      PROVE  \E n \in DOMAIN lockFile.indexes : \E q \in Range2(got[n + 3].packages) :
               Identity(p) = Identity(q) /\ FileRecord(p) = FileRecord(q)
  <2>1. PICK q \in S : p = _locked_package(q)
    <3>1. \A n \in DOMAIN selected : selected[n] \in S
      BY DEF Orders
    <3> QED  BY <1>2, <1>6, <3>1 DEF Range2
  <2>2. q \in Listed
    BY <2>1, Zenon DEF Resolved
  <2>3. PICK m \in 4..Len(got) : q \in Range2(got[m].packages)
    BY <2>2, Zenon DEF Listed
  <2>4. m - 3 \in DOMAIN lockFile.indexes /\ (m - 3) + 3 = m
    BY <1>2, <1>4, PathsAre, WantedAre
  <2>5. Identity(p) = Identity(q) /\ FileRecord(p) = FileRecord(q)
    BY <2>1, Zenon DEF _locked_package, Identity, FileRecord
  <2> QED  BY <2>3, <2>4, <2>5, Zenon
<1>7. Content(lockFile.files[1]) = got[1] /\ Content(lockFile.files[2]) = got[2] /\ got[1].body = got[2].body
  BY <1>2, <1>3, <1>4, Zenon DEF PayloadMatches
<1> QED  BY <1>5, <1>6, <1>7, Zenon DEF LockIsConsistent

\* stage is called with the records of the lock.
LEMMA SameRequested ==
  ASSUME lockFile' = lockFile
  PROVE  Requested' = Requested
  BY Zenon DEF Requested

\* The generator takes each file from the mirror as it is then.
LEMMA SuppliedGenerate ==
  ASSUME SuppliedInv, GeneratorInv, Generate
  PROVE  SuppliedInv'
<1>1. mirror' = mirror /\ UNCHANGED stageVars /\ gpc # "done"
  BY Zenon DEF Generate, GeneratorNext, Download, TransientFailure, PermanentFailure, Check, Resolve, LockError, mirrorVars
<1>2. spc = "idle" /\ spc' = "idle"
  BY <1>1, Zenon DEF SuppliedInv, stageVars
<1>3. FromArchives(got')
  <2>1. mirror \in DOMAIN Archives /\ FromArchives(got)
    BY Zenon DEF SuppliedInv
  <2>2. CASE got' = got
    BY <2>1, <2>2, Zenon
  <2>3. CASE Download
    <3>1. IsList(got) /\ NextWanted \in DOMAIN Served /\ got' = Append(got, Served[NextWanted])
      BY <2>3, Zenon DEF Download, GeneratorInv
    <3>2. /\ IsList(got') /\ Len(got') = Len(got) + 1
          /\ \A n \in 1..Len(got) : got'[n] = got[n]
          /\ got'[Len(got) + 1] = Served[NextWanted]
      BY <3>1, LongerList, Zenon
    <3>3. DOMAIN got' = 1..(Len(got) + 1) /\ DOMAIN got = 1..Len(got) /\ Len(got) \in Nat
      BY <3>1, <3>2, ListIs, Zenon
    <3>4. \A n \in DOMAIN got' : n \in 1..Len(got) \/ n = Len(got) + 1
      <4>1. \A l \in Nat : \A n \in 1..(l + 1) : n \in 1..l \/ n = l + 1
        OBVIOUS
      <4> QED  BY <3>3, <4>1, Zenon
    <3>5. Wanted[Len(got) + 1] \in DOMAIN Archives[mirror].files
          /\ got'[Len(got) + 1] = Archives[mirror].files[Wanted[Len(got) + 1]]
      BY <3>1, <3>2, Zenon DEF NextWanted, Served
    <3>6. ASSUME NEW n \in DOMAIN got'
          PROVE  \E a \in DOMAIN Archives : Wanted[n] \in DOMAIN Archives[a].files
                                           /\ got'[n] = Archives[a].files[Wanted[n]]
      <4>1. CASE n \in 1..Len(got)
        <5>1. n \in DOMAIN got /\ got'[n] = got[n]
          BY <3>2, <3>3, <4>1, Zenon
        <5> QED  BY <2>1, <5>1, Zenon DEF FromArchives
      <4>2. CASE n = Len(got) + 1
        BY <2>1, <3>5, <4>2, Zenon
      <4> QED  BY <3>4, <3>6, <4>1, <4>2, Zenon
    <3> QED  BY <3>6, Zenon DEF FromArchives
  <2> QED  BY <2>2, <2>3, Zenon DEF Generate, GeneratorNext, TransientFailure, PermanentFailure, Check, Resolve
<1> QED
  BY <1>1, <1>2, <1>3, Zenon DEF SuppliedInv, ReleaseOn, AuthenticatedOn, CopyOn, LockOn, MetadataOn, PackagesOn, FinishOn

\* stage does not change what it was given.
LEMMA StageGiven ==
  ASSUME Stage
  PROVE  /\ UNCHANGED <<mirror, gpc, got, lockFile, disturbed, request, supplied>>
         /\ spc # "idle" /\ spc # "refused" /\ StageNext
<1>1. UNCHANGED <<mirrorVars, generatorVars, disturbed>> /\ StageNext
  BY Zenon DEF Stage
<1>2. mirror' = mirror /\ gpc' = gpc /\ got' = got /\ lockFile' = lockFile /\ disturbed' = disturbed
  BY <1>1 DEF mirrorVars, generatorVars
<1>3. request' = request /\ supplied' = supplied /\ spc # "idle" /\ spc # "refused"
  BY <1>1, Zenon DEF StageNext, CheckRequest, VerifyInputDigests, VerifyInRelease, VerifyRelease, VerifyAuthenticatedRelease,
       StageReleaseFiles, CheckLock, VerifyPackageMetadata, StagePackage, Finish, StepFails, StageStep
<1> QED  BY <1>1, <1>2, <1>3, Zenon

\* sqv keeps the last newline or not.
LEMMA SuppliedStage ==
  ASSUME SuppliedInv, Stage
  PROVE  SuppliedInv'
<1>1. ASSUME spc' \in ReleaseOn
      PROVE  \E kept \in {0, 1} : verified'.newlines = supplied.files[1].newlines - 1 + kept
  <2>1. CASE VerifyInRelease
    <3>1. spc' # "refused"
      BY <1>1, Zenon DEF ReleaseOn, AuthenticatedOn, CopyOn, LockOn, MetadataOn, PackagesOn, FinishOn
    <3>2. PICK kept \in {0, 1} : verified' = [body |-> supplied.files[1].body,
                                             newlines |-> supplied.files[1].newlines - 1 + kept]
      BY <2>1, <3>1, Zenon DEF VerifyInRelease
    <3> QED  BY <3>2, Zenon
  <2>2. CASE ~VerifyInRelease
    <3>1. verified' = verified /\ spc \in ReleaseOn
      BY <1>1, <2>2, StageGiven, Zenon DEF StageNext, CheckRequest, VerifyInputDigests, VerifyRelease, VerifyAuthenticatedRelease,
       StageReleaseFiles, CheckLock, VerifyPackageMetadata, StagePackage, Finish, StepFails, StageStep,
       ReleaseOn, AuthenticatedOn, CopyOn, LockOn, MetadataOn, PackagesOn, FinishOn
    <3> QED  BY <3>1, Zenon DEF SuppliedInv
  <2> QED  BY Zenon, <2>1, <2>2
<1> QED  BY <1>1, StageGiven, SameRequested, Zenon DEF SuppliedInv

\* However the mirror changes, and whatever stage is given.
LEMMA SuppliedInductive == SuppliedInv /\ GeneratorInv /\ [RepositoryNext]_repositoryVars => SuppliedInv'
<1> SUFFICES ASSUME SuppliedInv, GeneratorInv, [RepositoryNext]_repositoryVars PROVE SuppliedInv'
  OBVIOUS
<1>1. CASE MirrorMoves \/ EditLock
  <2>1. mirror' \in DOMAIN Archives /\ got' = got /\ spc' = "idle"
    BY <1>1, Zenon DEF MirrorMoves, MirrorChanges, EditLock, mirrorVars, generatorVars, stageVars, SuppliedInv
  <2> QED  BY <2>1, Zenon DEF SuppliedInv, ReleaseOn, AuthenticatedOn, CopyOn, LockOn, MetadataOn, PackagesOn, FinishOn
<1>2. CASE StartStaging
  <2>1. /\ mirror' = mirror /\ gpc' = gpc /\ got' = got /\ lockFile' = lockFile /\ gpc = "done"
        /\ request' = Requested /\ spc' = "request"
    BY <1>2, Zenon DEF StartStaging, Called, mirrorVars, generatorVars
  <2>2. \A a : Fetched(a).names = [n \in DOMAIN lockFile.packages |-> n]
    BY Zenon DEF Fetched
  <2>3. supplied'.names = [n \in DOMAIN lockFile.packages |-> n]
    <3>1. CASE supplied' = Own
      BY <3>1, Zenon DEF Own
    <3>2. CASE supplied' = Fetched(mirror)
      BY <2>2, <3>2, Zenon
    <3>3. ASSUME NEW b, supplied' \in Replaced(mirror, b)
          PROVE  supplied'.names = Fetched(mirror).names
      <4> DEFINE F == Fetched(mirror)
                 G == Fetched(b)
      <4>1. \/ \E n \in 1..3 : supplied' = [F EXCEPT !.files[n] = G.files[n]]
            \/ \E n \in DOMAIN lockFile.indexes : supplied' = [F EXCEPT !.indexes[n] = G.indexes[n]]
            \/ \E n \in DOMAIN lockFile.packages : supplied' = [F EXCEPT !.packages[n] = G.packages[n]]
        BY <3>3, Zenon DEF Replaced
      <4>2. "names" \in DOMAIN F
        BY DEF Fetched
      <4> HIDE DEF F, G
      <4>3. supplied'.names = F.names
        BY <4>1, <4>2
      <4> QED  BY <4>3, Zenon DEF F
    <3> QED  BY <1>2, <2>2, <3>1, <3>2, <3>3, Zenon DEF StartStaging
  <2>4. "request" \notin ReleaseOn
    BY DEF ReleaseOn, AuthenticatedOn, CopyOn, LockOn, MetadataOn, PackagesOn, FinishOn
  <2> QED  BY <2>1, <2>3, <2>4, SameRequested, Zenon DEF SuppliedInv
<1>3. CASE UNCHANGED repositoryVars
  <2>1. UNCHANGED <<mirror, gpc, got, lockFile, request, supplied, spc, verified>>
    BY <1>3, Zenon DEF repositoryVars, mirrorVars, generatorVars, stageVars
  <2> QED  BY <2>1, SameRequested, Zenon DEF SuppliedInv
<1> QED  BY <1>1, <1>2, <1>3, SuppliedGenerate, SuppliedStage, Zenon DEF RepositoryNext

\* What is staged when the files are those of a generated lock and nothing
\* that stage alone looks at is wrong with them.
Unnamed == Unsigned \/ OneNewlineMore \/ FieldAfterList \/ PackageDiffers
InOrder == /\ SuppliedInv /\ GeneratorInv /\ "edited" \notin disturbed /\ spc # "idle"
           /\ Named /\ ~Unnamed

\* A digest has one content.
LEMMA OneContent == \A a, b : Sha256(a) = Sha256(b) => a = b
  BY DEF Sha256

\* stage is given the Release files that the generator has checked.
LEMMA FilesAre ==
  ASSUME InOrder
  PROVE  /\ gpc = "done" /\ IsList(got) /\ Len(got) = Len(Wanted)
         /\ ~ConflictingDuplicate
         /\ \E S \in Resolved : \E selected \in Orders(S) : lockFile = Generated(selected)
         /\ \A n \in 1..3 : supplied.files[n] = got[n] /\ request.files[n] = Sha256(got[n])
         /\ request = Requested
         /\ request.codename = Suite /\ request.packages = Records(lockFile.packages)
         /\ PayloadMatches /\ release_checksums
         /\ got[2].newlines \in Nat /\ IsList(got[2].body.fields)
         /\ \A f \in Range2(got[2].body.fields) : f.kind # "list" => f.entries = <<>>
<1>1. gpc = "done" /\ request = Requested /\ FromArchives(got)
  BY Zenon DEF InOrder, SuppliedInv
<1>2a. PICK S \in Resolved : \E selected \in Orders(S) : lockFile = Generated(selected) /\ ~ConflictingDuplicate
  BY <1>1, Zenon DEF InOrder, GeneratorInv
<1>2. PICK selected \in Orders(S) : lockFile = Generated(selected) /\ ~ConflictingDuplicate
  BY <1>2a, Zenon
<1>3. IsList(got) /\ Len(got) = Len(Wanted)
  BY <1>1, Zenon DEF InOrder, GeneratorInv
<1>4. 2 \in DOMAIN got
  BY <1>3, ListIs, WantedAre, PathsAre
<1>5. PICK a \in DOMAIN Archives : Release \in DOMAIN Archives[a].files /\ got[2] = Archives[a].files[Release]
  BY <1>1, <1>4, WantedAre, Zenon DEF FromArchives
<1>6. /\ got[2].newlines \in Nat /\ IsList(got[2].body.fields)
      /\ \A f \in Range2(got[2].body.fields) : f.kind # "list" => f.entries = <<>>
  BY <1>5, ArchivesAssumption, Zenon
<1>7. /\ request.codename = Suite /\ lockFile.files = [n \in 1..3 |-> Sha256(got[n])]
      /\ request.files = lockFile.files
      /\ request.packages = Records(lockFile.packages)
  BY <1>1, <1>2, Zenon DEF Requested, Generated
<1>8. ASSUME NEW n \in 1..3 PROVE supplied.files[n] = got[n] /\ request.files[n] = Sha256(got[n])
  <2>1. request.files[n] = Sha256(got[n]) /\ Sha256(supplied.files[n]) = Sha256(got[n])
    BY <1>7, <1>8, Zenon DEF InOrder, Named
  <2> QED  BY <2>1, OneContent, Zenon
<1>9. PayloadMatches /\ release_checksums
  <2>1. Len(got) > 3 \/ Len(got) = 3
    BY <1>3, WantedAre, PathsAre
  <2> QED  BY <1>1, <2>1, Zenon DEF InOrder, GeneratorInv
<1> QED  BY <1>1, <1>2, <1>3, <1>6, <1>7, <1>8, <1>9, Zenon

\* stage is given the indexes that the generator has checked.
LEMMA IndexesAre ==
  ASSUME InOrder
  PROVE  /\ DOMAIN Indexes = DOMAIN IndexPaths
         /\ \A n \in DOMAIN IndexPaths :
              /\ Indexes[n].component = IndexPaths[n][1] /\ Indexes[n].arch = IndexPaths[n][2]
              /\ Indexes[n].path = <<Suite, IndexPaths[n][1], IndexPaths[n][2]>>
              /\ Indexes[n].sha256 = Sha256(got[n + 3])
              /\ supplied.indexes[n] = got[n + 3]
              /\ IndexMatches(n + 3) /\ Wanted[n + 3] = IndexPaths[n]
              /\ n + 3 \in 4..Len(got)
<1>1a. PICK S \in Resolved : \E selected \in Orders(S) : lockFile = Generated(selected)
  BY FilesAre, Zenon
<1>1. PICK selected \in Orders(S) : lockFile = Generated(selected)
  BY <1>1a, Zenon
<1>3. lockFile.indexes = [n \in DOMAIN IndexPaths |-> _metadata_entry(n)]
  BY <1>1, Zenon DEF Generated
<1>2. request = Requested
  BY FilesAre, Zenon
<1>4. Indexes = lockFile.indexes
  BY <1>2, Zenon DEF Indexes, Requested
<1>5. DOMAIN Indexes = DOMAIN IndexPaths
  BY Zenon, <1>3, <1>4
<1>7. ASSUME NEW n \in DOMAIN IndexPaths
      PROVE  /\ Indexes[n].component = IndexPaths[n][1] /\ Indexes[n].arch = IndexPaths[n][2]
             /\ Indexes[n].path = <<Suite, IndexPaths[n][1], IndexPaths[n][2]>>
             /\ Indexes[n].sha256 = Sha256(got[n + 3])
             /\ supplied.indexes[n] = got[n + 3]
             /\ IndexMatches(n + 3) /\ Wanted[n + 3] = IndexPaths[n]
             /\ n + 3 \in 4..Len(got)
  <2>1. Indexes[n] = _metadata_entry(n)
    BY Zenon, <1>3, <1>4, <1>7
  <2>2. /\ Indexes[n].component = IndexPaths[n][1] /\ Indexes[n].arch = IndexPaths[n][2]
        /\ Indexes[n].path = <<Suite, IndexPaths[n][1], IndexPaths[n][2]>>
        /\ Indexes[n].sha256 = Sha256(got[n + 3])
    BY <2>1 DEF _metadata_entry
  <2>3. /\ n + 3 \in 4..Len(got) /\ Wanted[n + 3] = IndexPaths[n]
        /\ IndexMatches(n + 3)
    BY <1>7, IndexIs, FilesAre, Zenon DEF InOrder
  <2>4. Sha256(supplied.indexes[n]) = Indexes[n].sha256
    BY <1>4, <1>5, <1>7, Zenon DEF InOrder, Named
  <2>5. supplied.indexes[n] = got[n + 3]
    BY <2>2, <2>4, OneContent, Zenon
  <2> QED  BY <2>2, <2>3, <2>5, Zenon
<1> QED  BY <1>5, <1>7, Zenon

\* About pairs.
LEMMA Halves ==
  ASSUME NEW l \in Nat, NEW n \in 1..(2 * l)
  PROVE  /\ (n + 1) \div 2 \in 1..l
         /\ n = IF n % 2 = 1 THEN 2 * ((n + 1) \div 2) - 1 ELSE 2 * ((n + 1) \div 2)
  OBVIOUS

\* The two indexes of the component c are numbered 2c - 1 and 2c.
LEMMA Doubles ==
  ASSUME NEW l \in Nat, NEW c \in 1..l
  PROVE  /\ 2 * c \in 1..(2 * l) /\ (2 * c + 1) \div 2 = c /\ (2 * c) % 2 # 1
         /\ 2 * c - 1 \in 1..(2 * l) /\ ((2 * c - 1) + 1) \div 2 = c /\ (2 * c - 1) % 2 = 1
  OBVIOUS

\* CheckRequest: two indexes of each component, no one twice.
LEMMA RequestIsGood ==
  ASSUME InOrder
  PROVE  request.codename \in Identifiers /\ _component_indexes
<1> USE IndexesAre
<1>1. request.codename = Suite /\ Suite \in Identifiers
  BY FilesAre, ChannelAssumption, Zenon
<1>2. ASSUME NEW n \in DOMAIN Indexes
      PROVE  /\ Indexes[n].component \in Identifiers
             /\ Indexes[n].arch \in {"amd64", "all"}
             /\ Indexes[n].path = <<request.codename, Indexes[n].component, Indexes[n].arch>>
  BY <1>1, <1>2, PathIs, ChannelAssumption
<1>3. ASSUME NEW n \in DOMAIN Indexes, NEW m \in DOMAIN Indexes,
             Indexes[n].component = Indexes[m].component, Indexes[n].arch = Indexes[m].arch
      PROVE  n = m
  <2>1. IndexPaths[n][1] = IndexPaths[m][1] /\ IndexPaths[n][2] = IndexPaths[m][2]
    BY Zenon, <1>3
  <2>2. /\ IndexPaths[n] = <<Components[(n + 1) \div 2], IF n % 2 = 1 THEN "amd64" ELSE "all">>
        /\ IndexPaths[m] = <<Components[(m + 1) \div 2], IF m % 2 = 1 THEN "amd64" ELSE "all">>
        /\ n \in 1..(2 * Len(Components)) /\ m \in 1..(2 * Len(Components)) /\ Len(Components) \in Nat
        /\ DOMAIN Components = 1..Len(Components)
    BY <1>3, PathsAre, Zenon
  <2>3. Components[(n + 1) \div 2] = Components[(m + 1) \div 2] /\ (n % 2 = 1 <=> m % 2 = 1)
    <3>1. \A a, b : <<a, b>>[1] = a /\ <<a, b>>[2] = b
      OBVIOUS
    <3>2. /\ IndexPaths[n][1] = Components[(n + 1) \div 2] /\ IndexPaths[m][1] = Components[(m + 1) \div 2]
          /\ IndexPaths[n][2] = IF n % 2 = 1 THEN "amd64" ELSE "all"
          /\ IndexPaths[m][2] = IF m % 2 = 1 THEN "amd64" ELSE "all"
      BY <2>2, <3>1
    <3> QED  BY <2>1, <3>2, Zenon
  <2>4. (n + 1) \div 2 \in DOMAIN Components /\ (m + 1) \div 2 \in DOMAIN Components
    BY <2>2, Halves, Zenon
  <2>5. (n + 1) \div 2 = (m + 1) \div 2
    BY <2>3, <2>4, ChannelAssumption, Zenon DEF Distinct
  <2>6. n = IF n % 2 = 1 THEN 2 * ((n + 1) \div 2) - 1 ELSE 2 * ((n + 1) \div 2)
    BY <2>2, Halves, Zenon
  <2>7. m = IF m % 2 = 1 THEN 2 * ((m + 1) \div 2) - 1 ELSE 2 * ((m + 1) \div 2)
    BY <2>2, Halves, Zenon
  <2>8. CASE n % 2 = 1
    BY <2>3, <2>5, <2>6, <2>7, <2>8, Zenon
  <2>9. CASE n % 2 # 1
    BY <2>3, <2>5, <2>6, <2>7, <2>9, Zenon
  <2> QED  BY <2>8, <2>9, Zenon
<1> DEFINE seen == {<<Indexes[n].component, Indexes[n].arch>> : n \in DOMAIN Indexes}
<1>4. seen = {i[1] : i \in seen} \X {"amd64", "all"}
  <2>1. ASSUME NEW n \in DOMAIN Indexes, NEW a \in {"amd64", "all"}
        PROVE  \E m \in DOMAIN Indexes : Indexes[m].component = Indexes[n].component /\ Indexes[m].arch = a
    <3> DEFINE c == (n + 1) \div 2
               m == IF a = "amd64" THEN 2 * c - 1 ELSE 2 * c
    <3>1. /\ n \in 1..(2 * Len(Components)) /\ Len(Components) \in Nat
          /\ IndexPaths[n] = <<Components[c], IF n % 2 = 1 THEN "amd64" ELSE "all">>
      BY Zenon, <2>1, PathsAre
    <3>2. c \in 1..Len(Components) /\ m \in 1..(2 * Len(Components)) /\ (m + 1) \div 2 = c
          /\ (m % 2 = 1 <=> a = "amd64")
      <4>1. c \in 1..Len(Components)
        BY <3>1, Halves, Zenon
      <4> HIDE DEF c
      <4> QED  BY <3>1, <4>1, Doubles, Zenon
    <3>3. m \in DOMAIN Indexes /\ IndexPaths[m] = <<Components[(m + 1) \div 2], IF m % 2 = 1 THEN "amd64" ELSE "all">>
      BY Zenon, <3>2, PathsAre
    <3> HIDE DEF m, c
    <3>4. IndexPaths[m][1] = Components[c] /\ IndexPaths[m][2] = a /\ IndexPaths[n][1] = Components[c]
      <4>1. IndexPaths[m] = <<Components[c], a>>
        BY <2>1, <3>2, <3>3, Zenon
      <4> QED  BY <3>1, <4>1
    <3> QED  BY <2>1, <3>3, <3>4
  <2>2. \A i \in seen : i = <<i[1], i[2]>> /\ i[2] \in {"amd64", "all"}
    BY <1>2
  <2>3. ASSUME NEW i \in seen, NEW a \in {"amd64", "all"} PROVE <<i[1], a>> \in seen
    <3>1. PICK n \in DOMAIN Indexes : i = <<Indexes[n].component, Indexes[n].arch>>
      BY Zenon, <2>3
    <3>2. PICK m \in DOMAIN Indexes : Indexes[m].component = Indexes[n].component /\ Indexes[m].arch = a
      BY <2>1, <2>3, Zenon
    <3> QED  BY Zenon, <3>1, <3>2
  <2> HIDE DEF seen
  <2> QED  BY <2>2, <2>3
<1>5. Distinct([n \in DOMAIN Indexes |-> <<Indexes[n].component, Indexes[n].arch>>])
  BY <1>3, Zenon DEF Distinct
<1> QED  BY <1>1, <1>2, <1>4, <1>5, Zenon DEF _component_indexes

\* VerifyInputDigests: the lock has the digests of what was downloaded.
LEMMA DigestsAreGood ==
  ASSUME InOrder
  PROVE  _verify_input_digests
<1>1. \A n \in 1..3 : Sha256(supplied.files[n]) = request.files[n]
  BY FilesAre, Zenon
<1>2. ASSUME NEW n \in DOMAIN Indexes PROVE Sha256(supplied.indexes[n]) = Indexes[n].sha256
  <2>1. n \in DOMAIN IndexPaths
    BY <1>2, IndexesAre, Zenon
  <2> QED  BY <2>1, IndexesAre, Zenon
<1> QED  BY <1>1, <1>2, Zenon DEF _verify_input_digests

\* _sha256_entries reads one list, that of release_checksums, when no field on one
\* line comes right after it.
LEMMA EntriesAreRead ==
  ASSUME InOrder
  PROVE  EntriesRead(got[2].body)
<1> DEFINE body == got[2].body
           fields == body.fields
<1>0. /\ Distinct([i \in DOMAIN fields |-> fields[i].name])
      /\ \A n \in DOMAIN Sha256Field(body) : Sha256Field(body)[n].form = "lower"
      /\ Distinct([n \in DOMAIN Sha256Field(body) |-> Sha256Field(body)[n].path])
  BY FilesAre, Zenon DEF release_checksums
<1>1. /\ \A i, j \in DOMAIN fields : fields[i].name = fields[j].name => i = j
      /\ \A n \in DOMAIN Sha256Field(body) : Sha256Field(body)[n].form = "lower"
      /\ \A n, m \in DOMAIN Sha256Field(body) : Sha256Field(body)[n].path = Sha256Field(body)[m].path => n = m
  <2> DEFINE list == Sha256Field(body)
  <2>1. \A i, j \in DOMAIN fields : fields[i].name = fields[j].name => i = j
    BY <1>0, Zenon DEF Distinct
  <2>2. \A n, m \in DOMAIN list : list[n].path = list[m].path => n = m
    <3>1. Distinct([n \in DOMAIN list |-> list[n].path])
      BY <1>0, Zenon
    <3> HIDE DEF list
    <3> QED  BY <3>1, Zenon DEF Distinct
  <2> QED  BY <1>0, <2>1, <2>2, Zenon
<1>2. \A i \in DOMAIN fields : fields[i].name = "SHA256" /\ i + 1 \in DOMAIN fields => fields[i + 1].kind = "list"
  <2>1. 2 \in 1..3
    OBVIOUS
  <2>2. supplied.files[2] = got[2]
    BY <2>1, FilesAre, Zenon
  <2> QED  BY <2>2, Zenon DEF InOrder, Unnamed, FieldAfterList
<1>3. IsList(fields) /\ Len(fields) \in Nat /\ DOMAIN fields = 1..Len(fields)
  BY FilesAre, ListIs, Zenon
<1>4. ASSUME NEW i \in DOMAIN fields, InSha256(body, i)
      PROVE  fields[i].name = "SHA256" /\ fields[i].kind = "list"
  <2>1. PICK j \in Sections(body) : /\ fields[j].name = "SHA256" /\ j <= i
                                    /\ \A k \in Sections(body) : j < k => i < k
    BY <1>4, Zenon DEF InSha256
  <2>2. \A k \in DOMAIN fields : k \in Sections(body) <=> fields[k].kind = "list"
    BY Zenon DEF Sections
  <2>3. j \in DOMAIN fields
    BY Zenon DEF Sections
  <2> HIDE DEF fields, body
  <2>4. CASE i = j
    BY <2>1, <2>2, <2>3, <2>4, Zenon
  <2>5. CASE i # j
    <3>1. j + 1 \in DOMAIN fields /\ j < j + 1 /\ ~(i < j + 1)
      BY <1>3, <1>4, <2>1, <2>3, <2>5
    <3>2. j + 1 \in Sections(body)
      BY <1>2, <2>1, <2>2, <2>3, <3>1, Zenon
    <3> QED  BY <2>1, <3>1, <3>2, Zenon
  <2> QED  BY <2>4, <2>5, Zenon
<1>5. ASSUME NEW i \in DOMAIN fields, fields[i].name = "SHA256"
      PROVE  fields[i].entries = Sha256Field(body)
  <2> DEFINE here == {k \in DOMAIN fields : fields[k].name = "SHA256"}
  <2>1. here # {} /\ i \in here
    BY <1>5, Zenon
  <2>2. (CHOOSE k \in here : TRUE) \in here
    BY <2>1, Zenon
  <2>3. \A k \in here : k = i
    BY <1>1, <1>5, Zenon
  <2>4. Sha256Field(body) = fields[CHOOSE k \in here : TRUE].entries
    BY <2>1, Zenon DEF Sha256Field
  <2> QED  BY <2>2, <2>3, <2>4, Zenon
<1>6. ASSUME NEW l \in Lines(body)
      PROVE  /\ l = <<l[1], l[2]>> /\ l[1] \in DOMAIN fields /\ fields[l[1]].name = "SHA256"
             /\ l[2] \in DOMAIN Sha256Field(body) /\ EntryAt(body, l) = Sha256Field(body)[l[2]]
  <2>1. PICK i \in DOMAIN fields : /\ InSha256(body, i)
                                   /\ l \in {<<i, n>> : n \in DOMAIN fields[i].entries}
    BY <1>6, Zenon DEF Lines
  <2>2. PICK n \in DOMAIN fields[i].entries : l = <<i, n>>
    BY <2>1, Zenon
  <2>3. l[1] = i /\ l[2] = n /\ l = <<l[1], l[2]>>
    BY <2>2
  <2>4. fields[i].name = "SHA256" /\ fields[i].entries = Sha256Field(body)
    BY <1>4, <1>5, <2>1, Zenon
  <2> QED  BY <2>1, <2>2, <2>3, <2>4, Zenon DEF EntryAt
<1>7. ASSUME NEW l \in Lines(body), NEW k \in Lines(body), EntryAt(body, l).path = EntryAt(body, k).path
      PROVE  l = k
  <2>0. /\ l[1] \in DOMAIN fields /\ k[1] \in DOMAIN fields
        /\ fields[l[1]].name = "SHA256" /\ fields[k[1]].name = "SHA256"
    BY <1>6, <1>7, Zenon
  <2>1. l[1] = k[1]
    <3>1. fields[l[1]].name = fields[k[1]].name
      BY <2>0, Zenon
    <3> QED  BY <1>1, <2>0, <3>1, Zenon
  <2>2. Sha256Field(body)[l[2]].path = Sha256Field(body)[k[2]].path
        /\ l[2] \in DOMAIN Sha256Field(body) /\ k[2] \in DOMAIN Sha256Field(body)
    BY <1>6, <1>7, Zenon
  <2>3. l[2] = k[2]
    BY <1>1, <2>2, Zenon
  <2> QED  BY <1>6, <1>7, <2>1, <2>3, Zenon
<1> QED  BY <1>1, <1>4, <1>6, <1>7, Zenon DEF EntriesRead

\* VerifyInRelease, VerifyRelease: both signatures verify, and the two texts are
\* the same to the last newline.
LEMMA SignaturesAreGood ==
  ASSUME InOrder
  PROVE  /\ SqvAccepts(supplied.files[1].signature, supplied.files[1].body)
         /\ SqvAccepts(supplied.files[3], supplied.files[2])
         /\ supplied.files[1].newlines = supplied.files[2].newlines
         /\ supplied.files[2].newlines \in Nat
         /\ supplied.files[1].body = supplied.files[2].body
         /\ supplied.files[2].body = got[2].body
<1>1. 1 \in 1..3 /\ 2 \in 1..3
  OBVIOUS
<1>2. supplied.files[1] = got[1] /\ supplied.files[2] = got[2]
  BY <1>1, FilesAre, Zenon
<1>3. /\ supplied.files[1].body = supplied.files[2].body
      /\ supplied.files[1].newlines \in {supplied.files[2].newlines, supplied.files[2].newlines + 1}
  BY <1>2, FilesAre, Zenon DEF PayloadMatches
<1>4. supplied.files[1].newlines = supplied.files[2].newlines
  BY <1>3, Zenon DEF InOrder, Unnamed, OneNewlineMore
<1> QED  BY <1>2, <1>3, <1>4, FilesAre, Zenon DEF InOrder, Unnamed, Unsigned

\* VerifyAuthenticatedRelease: the generator has found the entries that stage looks for.
LEMMA ReleaseIsGood ==
  ASSUME InOrder, StageInv, spc = "authenticated"
  PROVE  /\ _authenticated_release_matches
         /\ \A n \in DOMAIN Indexes : _release_hash(verified.body, n)
<1> DEFINE body == supplied.files[2].body
<1>1. verified.body = supplied.files[1].body /\ verified.body = body
  BY SignaturesAreGood, Zenon DEF StageInv, Checked, ReleaseOn, AuthenticatedOn
<1>2. _authenticated_release_matches
  <2>1. \E kept \in {0, 1} : verified.newlines = supplied.files[1].newlines - 1 + kept
    BY Zenon DEF InOrder, SuppliedInv, ReleaseOn, AuthenticatedOn
  <2>2. \A x \in Nat : \A kept \in {0, 1} : x \in {x - 1 + kept, x - 1 + kept + 1}
    OBVIOUS
  <2>3. supplied.files[2].newlines \in {verified.newlines, verified.newlines + 1}
    BY <2>1, <2>2, SignaturesAreGood, Zenon
  <2> QED  BY <1>1, <2>3, Zenon DEF _authenticated_release_matches
<1>3. body = got[2].body /\ IsList(body.fields) /\ \A f \in Range2(body.fields) : f.kind # "list" => f.entries = <<>>
  BY FilesAre, SignaturesAreGood, Zenon
<1> HIDE DEF body
<1>4. ASSUME NEW n \in DOMAIN Indexes PROVE _release_hash(body, n)
  <2>1. EntriesRead(body)
    BY <1>3, EntriesAreRead, Zenon
  <2>2. PICK e \in Entry(Wanted[n + 3]) : e.size = got[n + 3].size /\ e.sha256 = Sha256(got[n + 3])
    BY <1>4, IndexesAre, Zenon DEF IndexMatches
  <2>3. e \in Range2(Sha256Field(body)) /\ e.path = IndexPaths[n]
    BY <1>3, <1>4, <2>2, IndexesAre, Zenon DEF Entry
  <2> DEFINE here == {i \in DOMAIN body.fields : body.fields[i].name = "SHA256"}
             i == CHOOSE i \in here : TRUE
  <2>4. here # {} /\ i \in here /\ Sha256Field(body) = body.fields[i].entries
    <3>1. here # {}
      BY <2>3 DEF Sha256Field, Range2
    <3>2. i \in here
      BY Zenon, <3>1
    <3> QED  BY <3>1, <3>2, Zenon DEF Sha256Field
  <2>5. i \in DOMAIN body.fields /\ body.fields[i].name = "SHA256"
    BY Zenon, <2>4
  <2>6. e \in Range2(body.fields[i].entries)
    BY Zenon, <2>3, <2>4
  <2> HIDE DEF i, here
  <2>7. PICK k \in DOMAIN body.fields[i].entries : body.fields[i].entries[k] = e
    BY <2>6, Zenon DEF Range2
  <2>8. i \in Sections(body)
    <3>1. body.fields[i] \in Range2(body.fields)
      BY <2>5, Zenon DEF Range2
    <3>2. body.fields[i].entries # <<>>
      BY <2>7
    <3> QED  BY <1>3, <2>5, <3>1, <3>2, Zenon DEF Sections
  <2>9. i \in Nat /\ i <= i
    BY <1>3, <2>5, ListIs
  <2>10. InSha256(body, i)
    BY <2>5, <2>8, <2>9, Zenon DEF InSha256
  <2>11. <<i, k>> \in Lines(body) /\ EntryAt(body, <<i, k>>) = e
    BY <2>5, <2>7, <2>10 DEF Lines, EntryAt
  <2>12. Tail(Indexes[n].path) = IndexPaths[n]
    <3>1. Indexes[n].path = <<Suite, IndexPaths[n][1], IndexPaths[n][2]>> /\ IndexPaths[n] = <<IndexPaths[n][1], IndexPaths[n][2]>>
      BY <1>4, IndexesAre, PathIs, Zenon
    <3> QED  BY <3>1
  <2>13. e.path = Tail(Indexes[n].path) /\ e.sha256 = Indexes[n].sha256 /\ e.size = supplied.indexes[n].size
    BY <1>4, <2>2, <2>3, <2>12, IndexesAre, Zenon
  <2> QED  BY <2>1, <2>11, <2>13, Zenon DEF _release_hash
<1> QED  BY <1>1, <1>2, <1>4, Zenon

\* StageReleaseFiles: the generator has decompressed the indexes too.
LEMMA CompressionIsGood ==
  ASSUME InOrder
  PROVE  \A n \in DOMAIN Indexes : supplied.indexes[n].compressed = "xz"
<1> TAKE n \in DOMAIN Indexes
<1>1. n \in DOMAIN IndexPaths
  BY IndexesAre, Zenon
<1>2. IndexMatches(n + 3) /\ supplied.indexes[n] = got[n + 3]
  BY <1>1, IndexesAre, Zenon
<1> QED  BY <1>2, Zenon DEF IndexMatches

\* The packages of the indexes are those that the generator has listed.
LEMMA ParagraphsAre ==
  ASSUME InOrder
  PROVE  /\ \A p \in Paragraphs : \E n \in DOMAIN Indexes :
              p = <<p[1], Indexes[n].arch>> /\ p[1] \in Range2(got[n + 3].packages) /\ p[1] \in Listed
         /\ \A q \in Listed : \E p \in Paragraphs : p[1] = q
<1> USE IndexesAre
<1>1. ASSUME NEW p \in Paragraphs
      PROVE  \E n \in DOMAIN Indexes :
               p = <<p[1], Indexes[n].arch>> /\ p[1] \in Range2(got[n + 3].packages) /\ p[1] \in Listed
  <2>1. PICK n \in DOMAIN Indexes : p \in {<<q, Indexes[n].arch>> : q \in Range2(supplied.indexes[n].packages)}
    BY <1>1, Zenon DEF Paragraphs
  <2>2. p = <<p[1], Indexes[n].arch>> /\ p[1] \in Range2(supplied.indexes[n].packages)
    BY <2>1
  <2>3. p[1] \in Range2(got[n + 3].packages) /\ n + 3 \in 4..Len(got)
    BY <2>1, <2>2, Zenon
  <2>4. p[1] \in Listed
    BY <2>3 DEF Listed
  <2> QED  BY <2>1, <2>2, <2>3, <2>4, Zenon
<1>2. ASSUME NEW q \in Listed
      PROVE  \E p \in Paragraphs : p[1] = q
  <2>1. PICK m \in 4..Len(got) : q \in Range2(got[m].packages)
    BY <1>2, Zenon DEF Listed
  <2>2. m - 3 \in DOMAIN IndexPaths /\ (m - 3) + 3 = m
    <3>1. Len(got) = Len(Wanted)
      BY FilesAre, Zenon
    <3> QED  BY <2>1, <3>1, PathsAre, WantedAre
  <2> DEFINE n == m - 3
  <2>3. n \in DOMAIN Indexes /\ q \in Range2(supplied.indexes[n].packages)
    BY <2>1, <2>2, Zenon
  <2>4. <<q, Indexes[n].arch>> \in Paragraphs
    BY <2>3 DEF Paragraphs
  <2>5. <<q, Indexes[n].arch>>[1] = q
    BY Zenon
  <2> QED  BY <2>4, <2>5, Zenon
<1> QED  BY <1>1, <1>2, Zenon

\* The records of the lock are those of listed packages, each with a name of its own.
LEMMA LockedAre ==
  ASSUME InOrder
  PROVE  /\ \A n \in DOMAIN Locked : /\ Locked[n].local = n
                                     /\ \E q \in Listed : Identity(Locked[n]) = Identity(q) /\ FileRecord(Locked[n]) = FileRecord(q)
         /\ \A n, m \in DOMAIN Locked : Locked[n].name = Locked[m].name => n = m
<1>1a. PICK S \in Resolved : \E selected \in Orders(S) : lockFile = Generated(selected)
  BY FilesAre, Zenon
<1>1. PICK selected \in Orders(S) : lockFile = Generated(selected)
  BY <1>1a, Zenon
<1>2. S \subseteq Listed /\ \A p, q \in S : p.name = q.name => p = q
  BY DEF Resolved
<1>3. Distinct(selected) /\ \A n \in DOMAIN selected : selected[n] \in S
  BY DEF Orders
<1>4. lockFile.packages = [n \in DOMAIN selected |-> _locked_package(selected[n])]
  BY <1>1, Zenon DEF Generated
<1>5. Locked = Records(lockFile.packages)
  BY FilesAre, Zenon DEF Locked
<1>6. DOMAIN Locked = DOMAIN selected
  BY <1>4, <1>5, Zenon DEF Records
<1>7. ASSUME NEW n \in DOMAIN selected
      PROVE  Locked[n] = [name |-> selected[n].name, version |-> selected[n].version, arch |-> selected[n].arch,
                          filename |-> selected[n].filename, size |-> selected[n].size,
                          sha256 |-> selected[n].sha256, local |-> n]
  <2>1. lockFile.packages[n] = _locked_package(selected[n]) /\ n \in DOMAIN lockFile.packages
    BY Zenon, <1>4, <1>7
  <2> QED  BY <1>5, <2>1 DEF Records, _locked_package
<1>8. ASSUME NEW n \in DOMAIN selected
      PROVE  /\ Locked[n].local = n /\ Locked[n].name = selected[n].name
             /\ Identity(Locked[n]) = Identity(selected[n]) /\ FileRecord(Locked[n]) = FileRecord(selected[n])
  <2> DEFINE p == selected[n]
  <2>1. Locked[n] = [name |-> p.name, version |-> p.version, arch |-> p.arch,
                     filename |-> p.filename, size |-> p.size, sha256 |-> p.sha256, local |-> n]
    BY <1>7, <1>8, Zenon
  <2> HIDE DEF p
  <2>2. /\ Locked[n].local = n /\ Locked[n].name = p.name
        /\ Identity(Locked[n]) = Identity(p) /\ FileRecord(Locked[n]) = FileRecord(p)
    BY <2>1 DEF Identity, FileRecord
  <2> QED  BY <2>2, Zenon DEF p
<1>9. ASSUME NEW n \in DOMAIN Locked, NEW m \in DOMAIN Locked, Locked[n].name = Locked[m].name
      PROVE  n = m
  <2>1. n \in DOMAIN selected /\ m \in DOMAIN selected
    BY <1>6, <1>9, Zenon
  <2>2. selected[n].name = selected[m].name
    BY <1>8, <1>9, <2>1, Zenon
  <2>3. selected[n] = selected[m]
    BY <1>2, <1>3, <2>1, <2>2, Zenon
  <2> QED  BY <1>3, <2>1, <2>3, Zenon DEF Distinct
<1> QED  BY <1>2, <1>3, <1>6, <1>8, <1>9, Zenon

\* The packages that stage is given, and their paths.
LEMMA PoolIs ==
  ASSUME InOrder
  PROVE  /\ supplied.names = [n \in DOMAIN Locked |-> n]
         /\ \A n \in DOMAIN Locked :
              /\ Sha256(supplied.packages[n]) = Locked[n].sha256
              /\ supplied.packages[n].size = Locked[n].size
              /\ Locked[n].filename \in SafePaths
              /\ \A m \in DOMAIN Locked \ {n} : Locked[m].filename # Locked[n].filename
<1> DEFINE packages == lockFile.packages
<1>1. Locked = Records(packages)
  BY FilesAre, Zenon DEF Locked
<1>2. /\ DOMAIN Locked = DOMAIN packages
      /\ \A n \in DOMAIN Locked : /\ Locked[n].filename = packages[n].filename
                                  /\ Locked[n].size = packages[n].size /\ Locked[n].sha256 = packages[n].sha256
  BY <1>1, Zenon DEF Records
<1>3. supplied.names = [n \in DOMAIN packages |-> n]
  BY Zenon DEF InOrder, SuppliedInv
<1>4. \A n \in DOMAIN packages : Sha256(supplied.packages[n]) = packages[n].sha256
  BY Zenon DEF InOrder, Named
<1>5. \A n \in DOMAIN packages :
        /\ packages[n].filename \in SafePaths /\ supplied.packages[n].size = packages[n].size
        /\ \A m \in DOMAIN packages \ {n} : packages[m].filename # packages[n].filename
  BY Zenon DEF InOrder, Unnamed, PackageDiffers
<1> HIDE DEF packages
<1>6. supplied.names = [n \in DOMAIN Locked |-> n]
  BY <1>2, <1>3, Zenon
<1>7. ASSUME NEW n \in DOMAIN Locked, NEW m \in DOMAIN Locked \ {n}
      PROVE  Locked[m].filename # Locked[n].filename
  BY <1>2, <1>5, <1>7, Zenon
<1>8. ASSUME NEW n \in DOMAIN Locked
      PROVE  /\ Sha256(supplied.packages[n]) = Locked[n].sha256
             /\ supplied.packages[n].size = Locked[n].size
             /\ Locked[n].filename \in SafePaths
  BY <1>2, <1>4, <1>5, <1>8, Zenon
<1> QED  BY <1>6, <1>7, <1>8, Zenon

\* CheckLock: no two records of the lock collide.
LEMMA LockIsGood ==
  ASSUME InOrder
  PROVE  _locked_packages /\ NamesAgree
<1>1. \A n \in DOMAIN Locked : Locked[n].local = n
  BY LockedAre, Zenon
<1>2. ASSUME NEW n \in DOMAIN Locked, NEW m \in DOMAIN Locked, Identity(Locked[n]) = Identity(Locked[m])
      PROVE  n = m
  <2>1. Locked[n].name = Locked[m].name
    BY <1>2, Zenon DEF Identity
  <2> QED  BY <1>2, <2>1, LockedAre, Zenon
<1>3. ASSUME NEW n \in DOMAIN Locked, NEW m \in DOMAIN Locked, Locked[n].filename = Locked[m].filename
      PROVE  n = m
  BY <1>3, PoolIs, Zenon
<1>4. Range2(supplied.names) = DOMAIN Locked
  <2>1. supplied.names = [n \in DOMAIN Locked |-> n]
    BY PoolIs, Zenon
  <2> QED  BY <2>1 DEF Range2
<1>5. NamesAgree
  BY <1>1, <1>4, Zenon DEF NamesAgree
<1>6. /\ Distinct([n \in DOMAIN Locked |-> Identity(Locked[n])])
      /\ Distinct([n \in DOMAIN Locked |-> Locked[n].filename])
      /\ Distinct([n \in DOMAIN Locked |-> Locked[n].local])
  BY <1>1, <1>2, <1>3 DEF Distinct
<1> QED  BY <1>5, <1>6, PoolIs, Zenon DEF _locked_packages

\* VerifyPackageMetadata: the records are those of the indexes.
LEMMA MetadataIsGood ==
  ASSUME InOrder
  PROVE  _verify_package_metadata
<1>1. ASSUME NEW p \in Paragraphs
      PROVE  /\ p[1].arch \in {"amd64", "all"}
             /\ p[2] = "all" => p[1].arch = "all"
             /\ p[1].form # "incomplete"
             /\ p[1] \in Listed
  <2>1. PICK n \in DOMAIN Indexes :
          p = <<p[1], Indexes[n].arch>> /\ p[1] \in Range2(got[n + 3].packages) /\ p[1] \in Listed
    BY <1>1, ParagraphsAre, Zenon
  <2>2. n \in DOMAIN IndexPaths
    BY <2>1, IndexesAre, Zenon
  <2>3. IndexMatches(n + 3) /\ Wanted[n + 3] = IndexPaths[n] /\ Indexes[n].arch = IndexPaths[n][2]
    BY <2>2, IndexesAre, Zenon
  <2>4. PICK i \in DOMAIN got[n + 3].packages : got[n + 3].packages[i] = p[1]
    BY <2>1, Zenon DEF Range2
  <2>5. _package_record(p[1], Wanted[n + 3][2])
    BY <2>3, <2>4, Zenon DEF IndexMatches
  <2>6. p[2] = IndexPaths[n][2]
    BY <2>1, <2>3
  <2> QED  BY <2>1, <2>3, <2>5, <2>6, Zenon DEF _package_record
<1>2. \A p, q \in Paragraphs : Identity(p[1]) = Identity(q[1]) => p[1] = q[1]
  <2>1. ~ConflictingDuplicate
    BY FilesAre, Zenon
  <2> QED  BY <1>1, <2>1, Zenon DEF ConflictingDuplicate
<1>3. _read_package_metadata
  BY <1>1, <1>2, Zenon DEF _read_package_metadata
<1>4. ASSUME NEW n \in DOMAIN Locked
      PROVE  \E p \in Paragraphs : Identity(p[1]) = Identity(Locked[n]) /\ FileRecord(p[1]) = FileRecord(Locked[n])
  <2>1. PICK q \in Listed : Identity(Locked[n]) = Identity(q) /\ FileRecord(Locked[n]) = FileRecord(q)
    BY <1>4, LockedAre, Zenon
  <2> QED  BY <2>1, ParagraphsAre, Zenon
<1> QED  BY <1>3, <1>4, Zenon DEF _verify_package_metadata

\* StagePackage: each package is the one that the lock names.
LEMMA PackageIsGood ==
  ASSUME InOrder, StageInv, spc = "packages", ~(place > Len(supplied.names))
  PROVE  LET n == RecordOf(supplied.names[place])
         IN  /\ Sha256(supplied.packages[place]) = Locked[n].sha256
             /\ supplied.packages[place].size = Locked[n].size
<1>1. supplied.names = [n \in DOMAIN Locked |-> n]
  BY PoolIs, Zenon
<1>2. place \in DOMAIN supplied.names => place \in DOMAIN Locked /\ supplied.names[place] = place
  BY Zenon, <1>1
<1>3. place \in DOMAIN supplied.names
  <2>1. IsList(supplied.names) /\ place \in Nat \ {0}
    BY Zenon DEF StageInv, Checked, PackagesChecked, RequestOn, DigestsOn, InReleaseOn, ReleaseOn, AuthenticatedOn, CopyOn,
           LockOn, MetadataOn, PackagesOn
  <2>2. Len(supplied.names) \in Nat /\ DOMAIN supplied.names = 1..Len(supplied.names)
    BY <2>1, ListIs, Zenon
  <2> QED  BY <2>1, <2>2
<1>4. place \in DOMAIN Locked /\ supplied.names[place] = place
  BY <1>2, <1>3, Zenon
<1>5. RecordOf(place) = place
  <2>1. \A n \in DOMAIN Locked : Locked[n].local = n
    BY LockedAre, Zenon
  <2> QED  BY <1>4, <2>1, Zenon DEF RecordOf
<1> QED  BY <1>4, <1>5, PoolIs, Zenon

\* No check of stage refuses the files of a generated lock for another reason.
LEMMA NothingIsRefused ==
  ASSUME InOrder, StageInv, StageNext, spc # "refused"
  PROVE  spc' # "refused"
<1>1. CASE CheckRequest
  BY <1>1, RequestIsGood, Zenon DEF CheckRequest, StageStep
<1>2. CASE VerifyInputDigests
  BY <1>2, DigestsAreGood, Zenon DEF VerifyInputDigests, StageStep
<1>3. CASE VerifyInRelease
  BY <1>3, SignaturesAreGood, Zenon DEF VerifyInRelease, StageStep
<1>4. CASE VerifyRelease
  BY <1>4, SignaturesAreGood, Zenon DEF VerifyRelease, StageStep
<1>5. CASE VerifyAuthenticatedRelease
  BY <1>5, ReleaseIsGood, Zenon DEF VerifyAuthenticatedRelease, StageStep
<1>6. CASE StageReleaseFiles
  BY <1>6, CompressionIsGood, Zenon DEF StageReleaseFiles, StageStep
<1>7. CASE CheckLock
  BY <1>7, LockIsGood, Zenon DEF CheckLock, StageStep
<1>8. CASE VerifyPackageMetadata
  BY <1>8, MetadataIsGood, Zenon DEF VerifyPackageMetadata, StageStep
<1>9. CASE StagePackage
  BY <1>9, LockIsGood, PackageIsGood, Zenon DEF StagePackage, StageStep
<1>10. CASE Finish \/ StepFails
  BY <1>10, Zenon DEF Finish, StepFails, StageStep
<1> QED  BY <1>1, <1>2, <1>3, <1>4, <1>5, <1>6, <1>7, <1>8, <1>9, <1>10, Zenon DEF StageNext

RepositoryInv == StageInv /\ GeneratorInv /\ SuppliedInv /\ GeneratedIsStaged

\* The invariant of the composition is inductive.
LEMMA RepositoryInductive == RepositoryInv /\ [RepositoryNext]_repositoryVars => RepositoryInv'
<1> SUFFICES ASSUME RepositoryInv, [RepositoryNext]_repositoryVars PROVE RepositoryInv'
  OBVIOUS
<1>1. StageInv' /\ GeneratorInv' /\ SuppliedInv'
  BY StageInductive, GeneratorInductive, SuppliedInductive, Zenon DEF RepositoryInv
<1>2. ASSUME supplied' = supplied, lockFile' = lockFile PROVE (Named' <=> Named) /\ (Unnamed' <=> Unnamed)
  BY <1>2, Zenon DEF Named, Unnamed, Unsigned, OneNewlineMore, FieldAfterList, PackageDiffers
<1>3. GeneratedIsStaged'
  <2> SUFFICES ASSUME spc' = "refused", "edited" \notin disturbed', Named', ~Unnamed'
               PROVE  FALSE
    BY Zenon DEF GeneratedIsStaged, Unnamed
  <2>1. CASE Stage
    <3>1. /\ lockFile' = lockFile /\ disturbed' = disturbed /\ supplied' = supplied /\ StageNext
          /\ spc # "idle" /\ spc # "refused"
      BY <2>1, StageGiven, Zenon
    <3>2. Named /\ ~Unnamed
      BY <1>2, <3>1, Zenon
    <3>3. InOrder
      BY <3>1, <3>2, Zenon DEF InOrder, RepositoryInv
    <3> QED  BY <3>1, <3>3, NothingIsRefused, Zenon DEF RepositoryInv
  <2>2. CASE ~Stage
    <3>1. spc = "refused" /\ supplied' = supplied
      BY <2>2, Zenon DEF RepositoryNext, repositoryVars, stageVars, Generate, MirrorMoves, EditLock, StartStaging, Called
    <3>2. gpc = "done"
      BY <3>1, Zenon DEF RepositoryInv, SuppliedInv
    <3>3. lockFile' = lockFile /\ ("edited" \in disturbed => "edited" \in disturbed')
      BY <2>2, <3>1, <3>2, Zenon DEF RepositoryNext, repositoryVars, generatorVars, Generate, GeneratorNext, Download, TransientFailure,
         PermanentFailure, Check, Resolve, MirrorMoves, MirrorChanges, EditLock, StartStaging
    <3>4. Named /\ ~Unnamed
      BY <1>2, <3>1, <3>3, Zenon
    <3> QED  BY <3>1, <3>3, <3>4, Zenon DEF RepositoryInv, GeneratedIsStaged, Unnamed
  <2> QED  BY Zenon, <2>1, <2>2
<1> QED  BY <1>1, <1>3, Zenon DEF RepositoryInv

\* A generated lock is consistent, and the stager refuses its own files for none
\* but the reasons that GeneratedIsStaged names, for any archives, components and
\* changes of the mirror.
THEOREM LockIsUsableHolds == RepositorySpec => []LockIsUsable
<1>1. RepositoryInit => RepositoryInv
  BY Begun, GeneratorBegins, Zenon DEF RepositoryInv, GeneratedIsStaged, RepositoryInit, StageInit
<1>2. RepositoryInv => LockIsUsable
  BY GeneratedIsConsistent, Zenon DEF RepositoryInv, LockIsUsable
<1> QED  BY <1>1, <1>2, RepositoryInductive, PTL DEF RepositorySpec
=============================================================================
