--------------------------- MODULE LockGenerator ---------------------------
(***************************************************************************)
(* mkosi/debian/generate_lock.py, generate, and http_download.py: the      *)
(* files of a snapshot are downloaded one after the other, each with       *)
(* retries, from a mirror that may change in between; what was downloaded  *)
(* is checked, the packages are resolved and the lock is written.  The     *)
(* generator verifies no signature.  LockResolver has the resolution       *)
(* itself; here any choice with one version of a name stands for it.       *)
(***************************************************************************)
EXTENDS DebianArchive

CONSTANTS
    MaxAttempts,  \* attempts of one download
    MaxChanges    \* bound: how often the mirror changes

VARIABLES
    mirror,   \* the archive that the mirror serves
    changes,  \* how often it has changed
    gpc,      \* where the generator is
    attempt,  \* the failed attempts of the current download
    got,      \* what was downloaded
    lockFile      \* the lock file

mirrorVars == <<mirror, changes>>
generatorVars == <<gpc, attempt, got, lockFile>>

NoLock == [spec |-> "none"]
Wanted == <<InRelease, Release, ReleaseGpg>> \o IndexPaths
NextWanted == Wanted[Len(got) + 1]

GeneratorInit ==
    /\ mirror \in DOMAIN Archives /\ changes = 0
    /\ gpc = "fetch" /\ attempt = 0 /\ got = <<>>
    /\ lockFile = NoLock

\* The mirror moves on, at any time.
MirrorChanges ==
    /\ changes < MaxChanges
    /\ gpc # "failed"
    /\ mirror' \in DOMAIN Archives \ {mirror}
    /\ changes' = changes + 1
    /\ UNCHANGED generatorVars

-----------------------------------------------------------------------------
\* http_download.download.

Served == Archives[mirror].files
LockError == gpc' = "failed" /\ UNCHANGED <<mirrorVars, lockFile>>

Download ==
    /\ gpc = "fetch"
    /\ NextWanted \in DOMAIN Served
    /\ got' = Append(got, Served[NextWanted])
    /\ attempt' = 0
    /\ gpc' = IF Len(got) < 2 THEN "fetch" ELSE "check"
    /\ UNCHANGED <<mirrorVars, lockFile>>
\* is_transient: throttled, a server error, a timeout or a broken connection.
TransientFailure ==
    /\ gpc = "fetch"
    /\ IF attempt + 1 = MaxAttempts
       THEN LockError /\ UNCHANGED <<attempt, got>>
       ELSE /\ attempt' = attempt + 1
            /\ UNCHANGED <<mirrorVars, gpc, got, lockFile>>
PermanentFailure ==
    /\ gpc = "fetch"
    /\ NextWanted \notin DOMAIN Served
    /\ LockError
    /\ UNCHANGED <<attempt, got>>

-----------------------------------------------------------------------------
\* The checks of generate.

\* cleartext_payload ends every line of the signed message with a newline.
PayloadMatches ==
    /\ got[1].body = got[2].body
    /\ got[1].newlines \in {got[2].newlines, got[2].newlines + 1}
release_checksums ==
    LET body == got[2].body
        entries == Sha256Field(body)
    IN  /\ body.paragraphs = 1
        /\ Distinct([i \in DOMAIN body.fields |-> body.fields[i].name])
        /\ \A i \in DOMAIN entries : entries[i].form = "lower"
        /\ Distinct([i \in DOMAIN entries |-> entries[i].path])
\* The option --release takes the place of the version of the Release file.
_release_number(release) ==
    LET body == got[2].body
    IN  /\ body.codename = Suite
        /\ Range2(Components) \subseteq body.components
        /\ "amd64" \in body.architectures
        /\ (IF release = "none" THEN body.version ELSE release) = "numeric"
Entry(path) == {e \in Range2(Sha256Field(got[2].body)) : e.path = path}

_package_record(p, architecture) ==
    /\ p.arch \in {"amd64", "all"}
    /\ architecture = "all" => p.arch = "all"
    /\ p.form = "complete"
    /\ p.filename \in PoolPaths
\* Mutation: an index is taken without comparing it to the Release file.
IndexTaken(n) ==
    /\ got[n].compressed = "xz"
    /\ \A i \in DOMAIN got[n].packages : _package_record(got[n].packages[i], Wanted[n][2])
\* _fetch_index, _decode_index and parse_packages for the n-th file.
IndexMatches(n) ==
    /\ \E e \in Entry(Wanted[n]) : e.size = got[n].size /\ e.sha256 = Sha256(got[n])
    /\ got[n].compressed = "xz"
    /\ \A i \in DOMAIN got[n].packages : _package_record(got[n].packages[i], Wanted[n][2])

\* What was downloaded last is checked; then the next index is looked up in the
\* Release file before it is fetched.
Check ==
    /\ gpc = "check"
    /\ UNCHANGED <<attempt, got>>
    /\ \E release \in {"none", "numeric", "other"} :
       LET good == IF Len(got) = 3
                   THEN PayloadMatches /\ release_checksums /\ _release_number(release)
                   ELSE IndexMatches(Len(got))
       IN  IF ~good \/ (Len(got) < Len(Wanted) /\ Entry(NextWanted) = {})
           THEN LockError
           ELSE /\ gpc' = IF Len(got) = Len(Wanted) THEN "resolve" ELSE "fetch"
                /\ UNCHANGED <<mirrorVars, lockFile>>

-----------------------------------------------------------------------------
\* The lock.

Listed == UNION {Range2(got[n].packages) : n \in 4..Len(got)}
ConflictingDuplicate == \E p, q \in Listed : Identity(p) = Identity(q) /\ p # q
lock_key(p) == <<Escaped[p.name], p.version, p.arch>>
\* Any choice with one version of each name, see LockResolver.
Resolved == {S \in SUBSET Listed : S # {} /\ \A p, q \in S : p.name = q.name => p = q}
Orders(S) == {s \in [1..Cardinality(S) -> S] : Distinct(s)}
KeysDistinct(S) == \A p, q \in S : lock_key(p) = lock_key(q) => p = q
_metadata_entry(n) ==
    [path |-> <<Suite, IndexPaths[n][1], IndexPaths[n][2]>>,
     component |-> IndexPaths[n][1], arch |-> IndexPaths[n][2], sha256 |-> Sha256(got[n + 3])]
_locked_package(p) ==
    [name |-> p.name, version |-> p.version, arch |-> p.arch,
     filename |-> p.filename, size |-> p.size, sha256 |-> p.sha256]
Generated(selected) ==
    [spec |-> "spec", codename |-> Suite,
     files |-> [n \in 1..3 |-> Sha256(got[n])],
     indexes |-> [n \in DOMAIN IndexPaths |-> _metadata_entry(n)],
     packages |-> [n \in DOMAIN selected |-> _locked_package(selected[n])]]
\* resolve, the check of _locked_packages, whose order is any here, and the end
\* of main.
Resolve ==
    /\ gpc = "resolve"
    /\ UNCHANGED <<attempt, got>>
    /\ \/ LockError
       \/ /\ ~ConflictingDuplicate
          /\ \E S \in Resolved :
               /\ KeysDistinct(S)
               /\ \E selected \in Orders(S) : lockFile' = Generated(selected)
          /\ gpc' = "done"
          /\ UNCHANGED mirrorVars

GeneratorNext == Download \/ TransientFailure \/ PermanentFailure \/ Check \/ Resolve
=============================================================================
