--------------------------- MODULE DebianArchive ---------------------------
(***************************************************************************)
(* What a Debian archive serves, as mkosi/debian/generate_lock.py and      *)
(* mkosi/private/debian_snapshot.py read it.  The texts are abstracted to  *)
(* what the two programs tell apart:                                       *)
(*  - a Release file has a body and a number of final newlines; the body   *)
(*    has fields in order, and the SHA256 field lists paths with digest,   *)
(*    size and spelling;                                                   *)
(*  - InRelease is a body with a signature, Release.gpg a signature;       *)
(*  - an index is compressed and lists packages.                           *)
(* A path below dists/<codename> is a pair; a file's SHA-256 stands for    *)
(* its content, without collisions.                                        *)
(***************************************************************************)
EXTENDS Integers, Sequences, FiniteSets

CONSTANTS
    Archives,    \* the states in which the mirror can be, as a sequence
    Suite,       \* the suite of the specification
    Components,  \* its components, a sequence that begins with "main"
    PoolPaths,   \* file names of packages that begin with pool/
    SafePaths,   \* those that are relative, normal and without ".."
    Escaped,     \* how lock_key spells a package name
    Identifiers  \* the names of letters, digits and dashes

\* _safe_package_path: a safe path begins with pool/.
ASSUME PathsAssumption == "verified-release" \notin SafePaths

InRelease == <<"dists", "InRelease">>
Release == <<"dists", "Release">>
ReleaseGpg == <<"dists", "Release.gpg">>
Architectures == <<"amd64", "all">>
\* Packages.xz of each component and architecture, in the order of the code.
IndexPaths == [n \in 1..(2 * Len(Components)) |->
                 <<Components[(n + 1) \div 2], Architectures[IF n % 2 = 1 THEN 1 ELSE 2]>>]

Sha256(content) == <<"sha256", content>>
Range2(s) == {s[i] : i \in DOMAIN s}
IsList(s) == s \in Seq(Range2(s))
Distinct(s) == \A i, j \in DOMAIN s : s[i] = s[j] => i = j

\* _channel: suite and components are identifiers, and no component comes twice.
ASSUME ChannelAssumption ==
    /\ Suite \in Identifiers /\ Range2(Components) \subseteq Identifiers
    /\ IsList(Components) /\ Distinct(Components)
\* Texts are lists of lines, and a field on one line has no entries.
ASSUME ArchivesAssumption == \A a \in DOMAIN Archives :
    LET files == Archives[a].files
    IN  /\ \A path \in {InRelease, Release} \cap DOMAIN files :
             /\ files[path].newlines \in Nat /\ IsList(files[path].body.fields)
             /\ \A f \in Range2(files[path].body.fields) : f.kind # "list" => f.entries = <<>>
        /\ \A path \in Range2(IndexPaths) \cap DOMAIN files : IsList(files[path].packages)

\* debian_control.paragraphs: the entries of the SHA256 field.
Sha256Field(body) ==
    LET here == {i \in DOMAIN body.fields : body.fields[i].name = "SHA256"}
    IN  IF here = {} THEN <<>> ELSE body.fields[CHOOSE i \in here : TRUE].entries
\* Identity and record of a package in an index or in a lock.
Identity(p) == <<p.name, p.version, p.arch>>
FileRecord(p) == <<p.filename, p.size, p.sha256>>
\* sqv accepts a text that the archive's key signed as it is.
SqvAccepts(signature, text) == signature.by = "debian" /\ signature.over = text
=============================================================================
