--------------------------- MODULE DebianSnapshot ---------------------------
(***************************************************************************)
(* mkosi/private/debian_snapshot.py: stage builds the local repository of  *)
(* an image from the files that it is given and the records of a lock, and *)
(* trusts neither: digests, two signatures, the Release file, the indexes  *)
(* and the packages are checked one after the other.  Any step may fail    *)
(* with an I/O error, and sqv or its launcher for other reasons than the   *)
(* signature.                                                              *)
(***************************************************************************)
EXTENDS DebianArchive

VARIABLES
    request,   \* the records of the lock, with the local names of its packages
    supplied,  \* the files that the action is given
    spc,       \* the next step of stage, or how it ended
    verified,  \* what sqv wrote to verified-release
    tree,      \* the output directory: path, content and time of each file
    place      \* the next package

stageVars == <<request, supplied, spc, verified, tree, place>>

NoRequest == [codename |-> ""]
NoText == [body |-> "", newlines |-> 0]
StageInit ==
    /\ request = NoRequest /\ supplied = <<>>
    /\ spc = "idle" /\ verified = NoText /\ tree = {} /\ place = 1

Written(path, content) == [at |-> path, is |-> content, time |-> "now"]

\* The program is called: what belongs to the indexes and to the packages comes
\* in lists, one argument for each.  A Release file is a list of lines.
Called ==
    /\ spc = "idle" /\ spc' = "request"
    /\ IsList(request'.indexes) /\ IsList(request'.packages) /\ IsList(supplied'.names)
    /\ IsList(supplied'.files[2].body.fields)
    /\ UNCHANGED <<verified, tree, place>>

\* A step does what it does when its check holds, and else stage fails.
StageStep(here, next, check) ==
    /\ spc = here
    /\ spc' = IF check THEN next ELSE "refused"
    /\ UNCHANGED <<request, supplied>>
\* Any step may raise OSError; the launcher may fail to run sqv.
StepFails ==
    /\ spc \notin {"idle", "staged", "refused", "failed"}
    /\ spc' = "failed"
    /\ UNCHANGED <<request, supplied, verified, tree, place>>

-----------------------------------------------------------------------------
Indexes == request.indexes
_component_indexes ==
    LET seen == {<<Indexes[n].component, Indexes[n].arch>> : n \in DOMAIN Indexes}
    IN  /\ \A n \in DOMAIN Indexes :
             /\ Indexes[n].component \in Identifiers
             /\ Indexes[n].arch \in {"amd64", "all"}
             /\ Indexes[n].path = <<request.codename, Indexes[n].component, Indexes[n].arch>>
        /\ Distinct([n \in DOMAIN Indexes |-> <<Indexes[n].component, Indexes[n].arch>>])
        /\ seen = {i[1] : i \in seen} \X {"amd64", "all"}
CheckRequest ==
    /\ StageStep("request", "digests", request.codename \in Identifiers /\ _component_indexes)
    /\ UNCHANGED <<verified, tree, place>>

_verify_input_digests ==
    /\ \A n \in 1..3 : Sha256(supplied.files[n]) = request.files[n]
    /\ \A n \in DOMAIN Indexes : Sha256(supplied.indexes[n]) = Indexes[n].sha256
VerifyInputDigests ==
    /\ StageStep("digests", "inrelease", _verify_input_digests)
    /\ UNCHANGED <<verified, tree, place>>

\* sqv writes the signed text, with or without its last newline.
VerifyInRelease ==
    LET inrelease == supplied.files[1]
    IN  /\ StageStep("inrelease", "release", SqvAccepts(inrelease.signature, inrelease.body))
        /\ \/ /\ spc' = "release"
              /\ \E kept \in {0, 1} :
                   verified' = [body |-> inrelease.body,
                                newlines |-> inrelease.newlines - 1 + kept]
              /\ tree' = {Written(<<"verified-release">>, verified'.body)}
           \/ spc' = "refused" /\ UNCHANGED <<verified, tree>>
        /\ UNCHANGED place
\* Mutation: the detached signature is not verified.
VerifyReleaseNot ==
    /\ StageStep("release", "authenticated", TRUE)
    /\ UNCHANGED <<verified, tree, place>>
VerifyRelease ==
    /\ StageStep("release", "authenticated", SqvAccepts(supplied.files[3], supplied.files[2]))
    /\ UNCHANGED <<verified, tree, place>>

_authenticated_release_matches ==
    /\ verified.body = supplied.files[2].body
    /\ supplied.files[2].newlines \in {verified.newlines, verified.newlines + 1}
\* _sha256_entries: from "SHA256:" to the next line that ends with a colon every
\* line must be an entry, so a field on one line after the list is refused.
Sections(body) == {i \in DOMAIN body.fields : body.fields[i].kind = "list"}
InSha256(body, i) ==
    \E j \in Sections(body) :
        /\ body.fields[j].name = "SHA256" /\ j <= i
        /\ \A k \in Sections(body) : j < k => i < k
Lines(body) == UNION {{<<i, n>> : n \in DOMAIN body.fields[i].entries}
                        : i \in {j \in DOMAIN body.fields : InSha256(body, j)}}
EntryAt(body, line) == body.fields[line[1]].entries[line[2]]
EntriesRead(body) ==
    /\ \A i \in DOMAIN body.fields : InSha256(body, i) => body.fields[i].kind = "list"
    /\ \A l \in Lines(body) : EntryAt(body, l).form \in {"lower", "upper"}
    /\ \A l, k \in Lines(body) : EntryAt(body, l).path = EntryAt(body, k).path => l = k
\* _release_hash, for the n-th index; without two entries of one path.
_release_hash(body, n) ==
    /\ EntriesRead(body)
    /\ \E l \in Lines(body) :
         /\ EntryAt(body, l).path = Tail(Indexes[n].path)
         /\ EntryAt(body, l).sha256 = Indexes[n].sha256
         /\ EntryAt(body, l).size = supplied.indexes[n].size
VerifyAuthenticatedRelease ==
    /\ StageStep("authenticated", "copy",
            /\ _authenticated_release_matches
            /\ \A n \in DOMAIN Indexes : _release_hash(verified.body, n))
    /\ UNCHANGED <<verified, tree, place>>

-----------------------------------------------------------------------------
Staged(n) == Written(<<"dists">> \o Indexes[n].path, supplied.indexes[n].packages)
\* _copy of the three files and _decompress of every index.
StageReleaseFiles ==
    /\ StageStep("copy", "lock", \A n \in DOMAIN Indexes : supplied.indexes[n].compressed = "xz")
    /\ tree' = tree
         \cup {Written(<<"dists", request.codename, <<"InRelease", "Release", "Release.gpg">>[n]>>,
                       supplied.files[n]) : n \in 1..3}
         \cup {Staged(n) : n \in {m \in DOMAIN Indexes : supplied.indexes[m].compressed = "xz"}}
    /\ UNCHANGED <<verified, place>>

Locked == request.packages
_locked_packages ==
    /\ \A n \in DOMAIN Locked : Locked[n].filename \in SafePaths
    /\ Distinct([n \in DOMAIN Locked |-> Identity(Locked[n])])
    /\ Distinct([n \in DOMAIN Locked |-> Locked[n].filename])
    /\ Distinct([n \in DOMAIN Locked |-> Locked[n].local])
CheckLock ==
    /\ StageStep("lock", "metadata", _locked_packages)
    /\ UNCHANGED <<verified, tree, place>>

\* Every paragraph of every staged index, with the architecture of the index.
Paragraphs == UNION {{<<p, Indexes[n].arch>> : p \in Range2(supplied.indexes[n].packages)}
                       : n \in DOMAIN Indexes}
_read_package_metadata ==
    /\ \A p \in Paragraphs :
         /\ p[1].arch \in {"amd64", "all"}
         /\ p[2] = "all" => p[1].arch = "all"
         /\ p[1].form # "incomplete"
    /\ \A p, q \in Paragraphs, n \in DOMAIN Locked :
         Identity(p[1]) = Identity(q[1]) /\ Identity(p[1]) = Identity(Locked[n])
           => FileRecord(p[1]) = FileRecord(q[1])
\* Mutation: only the identity of a package is looked up, not its record.
_verify_identity ==
    /\ _read_package_metadata
    /\ \A n \in DOMAIN Locked : \E p \in Paragraphs : Identity(p[1]) = Identity(Locked[n])
_verify_package_metadata ==
    /\ _read_package_metadata
    /\ \A n \in DOMAIN Locked : \E p \in Paragraphs :
         Identity(p[1]) = Identity(Locked[n]) /\ FileRecord(p[1]) = FileRecord(Locked[n])
VerifyPackageMetadata ==
    /\ StageStep("metadata", "packages", _verify_package_metadata)
    /\ UNCHANGED <<verified, tree, place>>

\* The inputs are those of the lock: the local names agree.
NamesAgree == {Locked[n].local : n \in DOMAIN Locked} = Range2(supplied.names)
\* records_by_name
RecordOf(name) == CHOOSE n \in DOMAIN Locked : Locked[n].local = name
\* One package is verified and copied; the last one ends the loop.
StagePackage ==
    /\ spc = "packages"
    /\ LET last == place > Len(supplied.names)
           n == RecordOf(supplied.names[place])
           package == supplied.packages[place]
       IN  IF ~NamesAgree
           THEN StageStep("packages", "packages", FALSE) /\ UNCHANGED <<tree, place>>
           ELSE IF last
           THEN StageStep("packages", "finish", TRUE) /\ UNCHANGED <<tree, place>>
           ELSE /\ StageStep("packages", "packages",
                        Sha256(package) = Locked[n].sha256 /\ package.size = Locked[n].size)
                /\ tree' = IF spc' = "refused" THEN tree
                           ELSE tree \cup {Written(<<Locked[n].filename>>, package)}
                /\ place' = place + 1
    /\ UNCHANGED verified

\* Mutation: verified-release is left in the repository.
FinishKeeping ==
    /\ StageStep("finish", "staged", TRUE)
    /\ tree' = {[t EXCEPT !.time = "zero"] : t \in tree}
    /\ UNCHANGED <<verified, place>>
\* verified.unlink and _set_deterministic_metadata.
Finish ==
    /\ StageStep("finish", "staged", TRUE)
    /\ tree' = {[t EXCEPT !.time = "zero"] : t \in {t \in tree : t.at # <<"verified-release">>}}
    /\ UNCHANGED <<verified, place>>

StageNext == \/ CheckRequest \/ VerifyInputDigests \/ VerifyInRelease \/ VerifyRelease
             \/ VerifyAuthenticatedRelease \/ StageReleaseFiles \/ CheckLock
             \/ VerifyPackageMetadata \/ StagePackage \/ Finish \/ StepFails
=============================================================================
