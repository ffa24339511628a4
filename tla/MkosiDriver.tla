---------------------------- MODULE MkosiDriver -----------------------------
(***************************************************************************)
(* mkosi/private/run_mkosi.py and mkosi_runner: the action that builds an  *)
(* image.  A release, or a build from the Debian snapshot, runs itself as  *)
(* a child, in which mkosi is patched and runs in-process; the parent      *)
(* publishes the initrd of a base.  Any other build starts mkosi as it is. *)
(* The configuration is what StageInputs has staged, as Bazel delivers it. *)
(***************************************************************************)
EXTENDS StageInputs

CONSTANTS
    Cases,        \* pairs of a layout and the options of an action, a request
    MkosiCodes    \* return codes of a finished mkosi process
\* A request has the Booleans repository, baseTree, initrd, initrdOutput,
\* components and directory; release, tools and version say how many options of
\* a group are there (none, some, all) or what the version file has (none, good,
\* bad); firmware; and deviations, the settings that are not what a release
\* declares.

VARIABLES
    request,     \* the options
    parent,      \* the parent: absent, version, waiting, publish or exited
    pc,          \* the process that runs mkosi
    delivered,   \* the staged directory in the action's inputs
    config,      \* the copy that mkosi reads
    mode,        \* the release stage, or none
    mirror,      \* whether the snapshot is mounted as the only source
    calls,       \* the running calls of parse_config, innermost last
    pending,     \* the wrapper of parse_config waits for the configuration
    validated,   \* the configuration has been validated and the sources written
    code,        \* the return code of that process
    initrd,      \* what the link to the initrd in the output names
    published,   \* the initrd is at its declared place
    status       \* the exit status of the action

driverVars == <<request, parent, pc, delivered, config, mode, mirror, calls, pending,
                validated, code, initrd, published, status>>
vars == <<stageVars, driverVars>>
keep == <<stageVars, request>>
parsing == <<calls, pending, validated>>
results == <<initrd, published, status>>

Child == parent = "waiting"
\* sys.exit with a code: the end of a child, or of the action itself.
Exit(c) == /\ pc' = "exited" /\ code' = c
           /\ status' = IF Child THEN status ELSE c

-----------------------------------------------------------------------------
\* Bazel's delivery of a staged directory: as it is, with files or with files
\* and links as absolute links to the original, or without any links.  It makes
\* every file executable.

Tails(t) == {SubSeq(p, i, Len(p)) : i \in 1..3, p \in DOMAIN t} \ {<<>>}
\* The paths that exist when links are followed, two of them on one path at most.
Reachable(t) == {p \in DOMAIN t \cup {q \o r : q \in DOMAIN t, r \in Tails(t)} :
                    Leads(t, p).end = "found"}
Behind(t, p) == Object(t, Leads(t, p).path)
Transport(p) == [kind |-> "transport", to |-> p]
AsDelivered(object) == IF object.kind = "file" THEN [object EXCEPT !.executable = TRUE] ELSE object
Delivered(t) ==
    {[p \in DOMAIN t |-> AsDelivered(t[p])],
     [p \in DOMAIN t |-> IF t[p].kind = "file" THEN Transport(p) ELSE t[p]],
     [p \in DOMAIN t |-> IF t[p] = Dir THEN Dir ELSE Transport(p)],
     [p \in Reachable(t) |-> AsDelivered(Behind(t, p))]}

\* materialize_tree: links that stay inside are kept, what others name is
\* copied.  The original is outside, so that links in it are copied as well.
Outward(t, p) == LET end == Leads(t, p).path IN end # <<>> /\ t[end].kind = "transport"
Origin(t, p) == t[Leads(t, p).path].to
Copied(t, p) == {p \o r : r \in {r \in Tails(output) : Origin(t, p) \o r \in Reachable(output)}}
CopyOf(p, object) == IF object.kind = "file"
                     THEN [object EXCEPT !.executable = p \in layout.executables] ELSE object
Materialized(t) ==
    LET expanded == {p \in DOMAIN t : Outward(t, p)}
        below == UNION {Copied(t, p) : p \in expanded}
        Root(p) == CHOOSE q \in expanded : Below(p, q)
    IN [p \in DOMAIN t |-> IF p \in expanded THEN CopyOf(p, Behind(output, Origin(t, p)))
                           ELSE CopyOf(p, t[p])]
       @@ [p \in below |-> CopyOf(p, Behind(output, Origin(t, Root(p))
                                                   \o SubSeq(p, Len(Root(p)) + 1, Len(p))))]
\* Mutant: what was delivered in the place of a link is kept.
KeepCopies(t) == t
\* restore_manifest_links: what the manifest has as a link becomes one again.
\* An action that is given a directory is given its manifest as well.
RestoreLinks(t) ==
    LET restored == {p \in DOMAIN manifest : manifest[p].kind = "symlink"}
    IN [p \in {p \in DOMAIN t : \A q \in restored : p # q /\ ~Below(p, q)} |-> t[p]]
       @@ [p \in restored |-> Symlink(manifest[p].text)]

-----------------------------------------------------------------------------
\* Preamble errors, version, preflight: everything before the stage is known.
Start ==
    /\ stage = "staged" /\ pc = "start" /\ parent = "absent"
    /\ delivered' \in Delivered(output)
    /\ IF request.repository \/ request.baseTree
       THEN parent' = "version" /\ UNCHANGED pc
       ELSE pc' = "preflight" /\ UNCHANGED parent
    /\ UNCHANGED <<keep, config, mode, mirror, parsing, code, results>>
ParentChecksVersion ==
    /\ parent = "version"
    /\ IF request.version = "bad"
       THEN parent' = "exited" /\ status' = 1 /\ UNCHANGED pc
       ELSE parent' = "waiting" /\ pc' = "preflight" /\ UNCHANGED status
    /\ UNCHANGED <<keep, delivered, config, mode, mirror, parsing, code, initrd, published>>
Preflight ==
    /\ pc = "preflight"
    /\ \E rejected \in BOOLEAN :
         IF rejected \/ request.version = "bad" THEN Exit(1) ELSE pc' = "stage" /\ UNCHANGED <<code, status>>
    /\ UNCHANGED <<keep, parent, delivered, config, mode, mirror, parsing, initrd, published>>

\* _requested_release_stage and release_stage
Requested ==
    IF request.baseTree \/ request.initrd
    THEN IF request.baseTree /\ request.initrd /\ ~request.repository /\ ~request.initrdOutput
         THEN "finalize" ELSE "invalid"
    ELSE IF request.repository THEN IF request.initrdOutput THEN "base" ELSE "image"
    ELSE IF request.initrdOutput THEN "invalid" ELSE "none"
IsRelease == request.release = "all"
StageFits == /\ request.tools # "some" /\ request.release # "some"
             /\ IsRelease \/ request.repository => request.components
             /\ Requested # "invalid"
             /\ (Requested # "none") = IsRelease \/ Requested = "image"
\* The stage, the Debian tools and the sandbox; the snapshot becomes a mirror.
PrepareSandbox ==
    /\ pc = "stage"
    /\ \E extracted \in (IF request.tools = "all" THEN BOOLEAN ELSE {TRUE}) :
         IF StageFits /\ extracted
         THEN /\ mode' = IF IsRelease THEN Requested ELSE "none"
              /\ mirror' = request.repository
              /\ pc' = "configuration" /\ UNCHANGED <<code, status>>
         ELSE Exit(1) /\ UNCHANGED <<mode, mirror>>
    /\ UNCHANGED <<keep, parent, delivered, config, parsing, initrd, published>>

StageConfiguration ==
    /\ pc = "configuration"
    /\ config' = IF request.directory THEN RestoreLinks(Materialized(delivered)) ELSE config
    /\ pc' = "activate"
    /\ UNCHANGED <<keep, parent, delivered, mode, mirror, parsing, code, results>>

\* activate_release_mode and activate_snapshot_mirror: mkosi is patched only if
\* it is the one that the patches were written for.
Activate ==
    /\ pc = "activate"
    /\ \E contract \in BOOLEAN :
         IF mode = "none" /\ ~mirror THEN pc' = "mkosi" /\ pending' = FALSE /\ UNCHANGED <<code, status>>
         ELSE IF contract /\ (mode # "none" =>
                     /\ request.directory
                     /\ mirror = (mode # "finalize")
                     /\ mode = "finalize" => "initrd configuration" \notin request.deviations)
         THEN pc' = "mkosi" /\ pending' = TRUE /\ UNCHANGED <<code, status>>
         ELSE Exit(1) /\ UNCHANGED pending
    /\ UNCHANGED <<keep, parent, delivered, config, mode, mirror, calls, validated, initrd, published>>

-----------------------------------------------------------------------------
\* mkosi, in the process that was patched.  parse_config may call itself for the
\* configuration of the initrd, which is not the caller's.

\* What _PRIMARY_IMAGE_CHECKS reject, by the stage and the firmware; "match" is
\* a section that is rejected while the file is read.
_check_firmware(deviation) == deviation = "secure boot" /\ request.firmware = "bios"
_check_sources(deviation) ==
    \/ deviation \in {"proxy", "incremental", "distribution", "components"}
    \/ deviation = "no snapshot" /\ mode # "finalize"
_check_stage(deviation) ==
    \/ deviation \in {"image version", "initrd modules"} /\ mode = "base"
    \/ deviation \in {"packages", "initrd packages", "other base", "other initrd", "cache"}
           /\ mode = "finalize"
_check_contents(deviation) ==
    deviation \in {"seed", "epoch", "extra tree", "host modules", "undeclared path",
                   "unsized hash", "script"}
Rejected(deviation) ==
    \/ deviation = "match" \/ _check_firmware(deviation) \/ _check_sources(deviation)
    \/ _check_stage(deviation) \/ _check_contents(deviation)
\* The checks are those of the image main, which mkosi always parses, and last;
\* without one, nothing would be checked.  A tracer build is not validated: its
\* sources only have to list components that the snapshot has.
Resolves == IF mode # "none" THEN \A d \in request.deviations : ~Rejected(d)
            ELSE "components" \notin request.deviations

ParseCalled ==
    /\ pc = "mkosi" /\ Len(calls) < 2
    /\ \E primary \in BOOLEAN : /\ primary => calls = <<>>
                                /\ calls' = Append(calls, primary)
    /\ UNCHANGED <<keep, parent, pc, delivered, config, mode, mirror, pending, validated, code, results>>
\* Mutant: the first configuration that is parsed counts, whosever it is.
AnyParseReturns ==
    /\ pc = "mkosi" /\ calls # <<>>
    /\ calls' = SubSeq(calls, 1, Len(calls) - 1)
    /\ IF Len(calls) # 1 THEN UNCHANGED <<pc, code, status, pending, validated>>
       ELSE IF pending /\ calls[1] /\ ~Resolves THEN Exit(1) /\ UNCHANGED <<pending, validated>>
       ELSE /\ pc' = (IF calls[1] THEN "assemble" ELSE pc)
            /\ validated' = (validated \/ pending) /\ pending' = FALSE
            /\ UNCHANGED <<code, status>>
    /\ UNCHANGED <<keep, parent, delivered, config, mode, mirror, initrd, published>>
ParseReturns ==
    /\ pc = "mkosi" /\ calls # <<>>
    /\ calls' = SubSeq(calls, 1, Len(calls) - 1)
    /\ IF ~(Len(calls) = 1 /\ calls[1]) THEN UNCHANGED <<pc, code, status, pending, validated>>
       ELSE IF pending /\ ~Resolves THEN Exit(1) /\ UNCHANGED <<pending, validated>>
       ELSE /\ pc' = "assemble" /\ validated' = pending /\ pending' = FALSE
            /\ UNCHANGED <<code, status>>
    /\ UNCHANGED <<keep, parent, delivered, config, mode, mirror, initrd, published>>

\* A nonzero status of one byte, whatever ended the child.
child_exit_code(returncode) ==
    IF returncode \in 1..255 THEN returncode
    ELSE IF returncode < 0 /\ -returncode <= 255 - 128 THEN 128 - returncode ELSE 1
Assemble ==
    /\ pc = "assemble"
    /\ \E c \in MkosiCodes :
         IF Child \/ c = 0 THEN Exit(c) ELSE Exit(child_exit_code(c))
    /\ initrd' \in {"absent", "file", "directory", "outside"}
    /\ UNCHANGED <<keep, parent, delivered, config, mode, mirror, parsing, published>>
ChildKilled ==
    /\ Child /\ pc # "exited" /\ Exit(-9)
    /\ UNCHANGED <<keep, parent, delivered, config, mode, mirror, parsing, initrd, published>>

\* Mutant: the parent publishes without looking at the child's status.
ParentPublishes ==
    /\ parent = "waiting" /\ pc = "exited"
    /\ IF request.initrdOutput THEN parent' = "publish" /\ UNCHANGED status
       ELSE parent' = "exited" /\ status' = IF code = 0 THEN 0 ELSE child_exit_code(code)
    /\ UNCHANGED <<keep, pc, delivered, config, mode, mirror, parsing, code, initrd, published>>
ParentCollects ==
    /\ parent = "waiting" /\ pc = "exited"
    /\ IF code = 0 /\ request.initrdOutput THEN parent' = "publish" /\ UNCHANGED status
       ELSE parent' = "exited" /\ status' = IF code = 0 THEN 0 ELSE child_exit_code(code)
    /\ UNCHANGED <<keep, pc, delivered, config, mode, mirror, parsing, code, initrd, published>>
\* The link is removed and the initrd is moved; the move may fail.
PublishBaseInitrd ==
    /\ parent = "publish" /\ parent' = "exited"
    /\ \E moved \in BOOLEAN :
         IF initrd = "file" THEN /\ initrd' = "absent" /\ published' = moved
                                 /\ status' = IF moved THEN 0 ELSE 1
         ELSE status' = 1 /\ UNCHANGED <<initrd, published>>
    /\ UNCHANGED <<keep, pc, delivered, config, mode, mirror, parsing, code>>

NoStatus == 1000
Init == /\ \E case \in Cases : layout = case.layout /\ request = case.request
        /\ StageInit
        /\ parent = "absent" /\ pc = "start" /\ delivered = <<>> /\ config = <<>>
        /\ mode = "none" /\ mirror = FALSE /\ calls = <<>> /\ pending = FALSE
        /\ validated = FALSE /\ code = NoStatus /\ initrd = "absent" /\ published = FALSE
        /\ status = NoStatus
Next == \/ StageNext /\ UNCHANGED driverVars
        \/ Start \/ ParentChecksVersion \/ Preflight \/ PrepareSandbox
        \/ StageConfiguration \/ Activate \/ ParseCalled \/ ParseReturns
        \/ Assemble \/ ChildKilled \/ ParentCollects \/ PublishBaseInitrd
Spec == Init /\ [][Next]_vars

-----------------------------------------------------------------------------
\* What the action promises.

\* mkosi reads the configuration as it was declared, with every link a link and
\* every executable executable, in whatever form Bazel has delivered it.
ConfigurationIsDeclared ==
    pc \in {"activate", "mkosi", "assemble"} /\ request.directory => Declared(config)

\* An image is assembled as a release, or from the snapshot, only by the patched
\* child, after the caller's configuration and no other was validated, for the
\* stage that is built: a finalization has no package source and every other one
\* has the mirror as its only source.  What the checks reject is taken from the
\* code; that it is applied, to which configuration and when, is what could go
\* wrong.
ReleaseIsValidated ==
    pc = "assemble" /\ (request.release # "none" \/ request.repository) =>
        /\ Child /\ validated
        /\ mirror = (mode # "finalize")
        /\ IF mode = "none" THEN request.release = "none" /\ "components" \notin request.deviations
           ELSE \A d \in request.deviations : ~Rejected(d)

\* The action ends with 0 only if mkosi did and every declared output is there;
\* any other end, a signal included, is a status from 1 to 255; and an initrd is
\* published by a successful action only.
StatusIsHonest ==
    /\ status \in 0..255 \cup {NoStatus}
    /\ status = 0 => code = 0 /\ (request.initrdOutput => published)
    /\ published => status = 0 /\ code = 0
    /\ status # NoStatus /\ code \notin {0, NoStatus} => status # 0
=============================================================================
