# Verification of rules_mkosi

rules_mkosi is a set of Bazel rules that build, sign, update and boot-test
operating-system images with mkosi from pinned, authenticated inputs. It has no
long-running service. Two things are hard about it. An action is a chain of
processes (Bazel action, Python driver, launcher, namespace runner, tool) that
share directories, pipes, namespaces and deadlines, and that must fail closed
wherever the chain breaks. And what passes between actions (locks, archives,
trees, binaries, disks, signatures) is read by several programs, at different
times, which must all read the same thing in it.

This directory models both in TLA+, checks them with TLC on small instances and
proves the central properties with TLAPS for every value of the constants.
`PROJECT.json` maps each definition to the lines it models and lists every run,
mutation, hazard, finding and theorem.

## The system and its parts

Sources are below `src/mkosi/`.

| Part | Source | Modules |
| --- | --- | --- |
| Debian tools launcher | `debian/debian_launcher.py` | `ScratchClaim`, `DebianLauncher` |
| Namespace runner | `debian/namespace_runner.c` | `NamespaceRunner` |
| Kernel preflight | `private/kernel_preflight.c` | `KernelPreflight` |
| QEMU boot test driver | `private/boot_test.py`, `private/qemu_boot_test.bzl` | `BootTest` |
| Lock generator: resolution, versions | `debian/generate_lock.py` | `LockResolver`, `DebVersions` |
| Lock generator: downloads, indexes | `debian/generate_lock.py`, `debian/http_download.py` | `DebianArchive`, `LockGenerator` |
| Debian snapshot | `private/debian_snapshot.py`, `private/debian_control.py` | `DebianSnapshot`, `DebianRepository` |
| Debian tools refresh | `debian/refresh_debian_tools.py` | `RefreshDebianTools` |
| Package archive, extraction | `debian/package_archive.py`, `debian/extract_tree.py` | `Trees`, `ToolsTree`, `ExtractTree` |
| Input staging | `private/stage_inputs.py` | `StageInputs` |
| mkosi driver, release patches, validation, diagnostics | `private/run_mkosi.py`, `private/mkosi_runner/`, `private/diagnostics.py` | `MkosiDriver` |
| Secure Boot requests, import, signer | `private/secure_boot.py`, `private/secure_boot_signer.py` | `SecureBoot`, `PeImage`, `Der` |
| Secure Boot image, enrollment files | `private/secure_boot_image.py`, `private/esp_files.py`, `private/efi_auth.py` | `SecureBootImage` |
| Partition and verity metadata | `private/partition_metadata.py`, `private/verity_metadata.py` | `PartitionMetadata`, `VerityMetadata` |
| Sysupdate payloads and signing | `private/sysupdate.py`, `private/sysupdate_signing.py`, `private/openpgp.py`, `private/image_version.py` | `Sysupdate`, `OpenPgp` |
| Test signers | `ephemeral_fixture` of both signing modules | `EphemeralFixture` |
| ESP reader | `private/esp_manifest/rules_mkosi_esp_manifest.py` | `EspVolume` |

How they interact. The **lock generator** reads a mirror and writes a lock, the
**refresh** moves lock, provenance and tests to a new snapshot together, and the
**snapshot** stager rebuilds a local repository from the lock and the files it
names. Packages become one archive and a tree of tools, which the **launcher**
extracts into a scratch directory; it starts the **namespace runner**, which
confines the tool and mirrors its exit status. An image action runs the
**preflight**, reads what **staging** has laid out and runs the **mkosi driver**.
The disk that mkosi writes is read by the **metadata** actions, by **sysupdate**
and by the **ESP reader**; its binaries are signed by a person through the
**Secure Boot** requests. The finished image is started by the **boot test**.

Modules that compose others: `ToolsTree` (archive and extraction), `MkosiDriver`
(staging and driver), `SecureBootImage` (extraction, requests, signer, import and
image), `Release` (partitions, verity, update, test signers and ESP reader) and
`DebianRepository` (generator, hand edits, mirror and stager). `MC...` modules
hold the instances that a `.cfg` cannot spell out, and the reference definitions
that only TLC can evaluate. `MCLaunch` and `MCDebianTools` put programs that share
no variable side by side in one run: the launcher or the runner, and the
resolution, the refresh or the tree of tools.

## The modules

**ScratchClaim, DebianLauncher.** `ScratchClaim` is the abstract promise of the
scratch directory: one claim at a time, one publication by its holder, tools only
in the root of their own launcher. `DebianLauncher` is `_launch` with all it
calls. The state is the file system below the scratch directory (`scratch`,
`lock` for `.in-use`, `partial`, `root`, `runtime`, each with the launcher that
made it and how far it got) and, for each launcher, its place in the code,
`scratch_was_present`, the exception in flight, its status and its output. There
is one action for each file system call whose order matters. Any may raise; a
launcher may be interrupted (`KeyboardInterrupt` passes `except Exception` but
not `finally`) or killed.

**NamespaceRunner.** The identity mapper, the middle process and PID 1 of the new
namespaces, with two pipes as one byte each and the ends that each process still
`held`, so that the end of a file is derived and not assumed. `maps` are the
files of `/proc` already written; `expected`, `pinned` and `mounted` follow the
identity of what is inspected, opened and attached for each mount; `object` is
what a path names now, which `Swap` may change between any two calls. A call that
fails ends its process with status 1, a write without a reader ends it with
SIGPIPE, and statuses are mirrored as `wait_for_exit_status` does.

**KernelPreflight.** The parent, the child that walks through
`child_setup_steps`, and the process that verifies its capabilities after
`execve`, with three pipes and the inherited disposition of SIGCHLD. `done` is
which calls really succeeded, beside `checks`, what the child claims, and
`passed` and `failed`, what is printed.

**BootTest.** `_boot` from the preparation to the exported logs, with the guest
writing markers, QEMU exiting, hanging, ignoring SIGTERM or stuck in the kernel,
an interrupt of the driver, and discrete time. Loops read the clock through
`left` (the loop's deadline) and `rest` (the wait it is in); calls between two
waits take no time. `seen` is how much of the log the last observation covered.

**LockResolver, DebVersions.** `resolve`: the universe with duplicates across
indexes, apt's order of candidates, the bootstrap set, the requested names and
the queue; names and versions are numbers in their order. `DebVersions` is
`compare_versions` on characters, and the order of the Debian policy.

**RefreshDebianTools.** `refresh` as a sequence of files rewritten in place.
`write_text` is two actions, truncation and content. A run may end early anywhere,
by an error of what it calls or by an interrupt, and is then repeated for any
snapshot; `stranded` remembers whether one ended within the loop over the files
that mention the snapshot.

**Trees, ExtractTree, ToolsTree.** `Trees` has path resolution as the kernel does
it. `ToolsTree` authenticates the packages and lays their members over each
other; `ExtractTree` indexes the archive, resolves hard links and links over the
members, writes directories, files, hard links and links in the code's order, and
completes the tree (merged `/usr`, mount points, certificates). An error ends it.

**StageInputs, MkosiDriver.** Every mapping is added to the manifest and checked
against those before it, in the order of strings (`Before`), then the layout is
written path by path, through whatever links are already there; an error of the
file system leaves a part of it. `MkosiDriver`
reads that directory in the forms in which Bazel delivers it, and is the parent,
the patched child, the calls of mkosi's parser for the image and its initrd, the
validation, the publication of the initrd and the exit status.

**SecureBoot, SecureBootImage, PeImage, Der.** Extraction, a request for each
binary, a signer that reads `bazel-out` while `Rebuild` may change it and may die
between two writes, and the import. Then the imported binaries replace the
unsigned ones by content, enrollment files are checked and the result is compared
with what was meant. `PeImage` is the layout of PE headers and the ranges that
are hashed, `Der` the lengths and identifiers of DER.

**PartitionMetadata, VerityMetadata, Sysupdate, OpenPgp, EphemeralFixture.** A
disk is the record of the fields that are read; headers, entries and patches are
handled one by one. The hash tree is recomputed level by level with two spool
files. The payload is written block by block, with holes or compressed, and
signed and imported later; an error that `main` reports removes it, and one that
passes by `main` leaves it. A test's signer makes keys, uses them and wipes them,
whatever fails.

**EspVolume.** `_find_esp`, `_geometry`, the FAT in bytes (values of 12 bits
straddle them), `_chain` one cluster at a time, long names from their slots,
`walk` with its stack and `_WalkLimits`, `lookup`, `read_file`. `reader` is the
place in the code or how it ended, `visited` and `claimed` the clusters of this
chain and of all directories so far, `remaining` the bytes that may still be
read. `walk` sorts its list, so `found` is a bag.

**DebianArchive, LockGenerator, DebianSnapshot, DebianRepository.** The files of
an archive as both programs tell them apart (order and spelling of fields, final
newlines, signatures, digests). Each download is retried while the mirror may
change; the stager checks digests, two signatures, the Release file, indexes and
packages in the code's order, and any step may fail. The packages of a lock are a
list, in any order, since the stager is given them in the order of the lock.

## The runs

| Run | Instance | States | What it shows |
| --- | --- | --- | --- |
| `launch` | 2 launchers; a read-only and a writable mount, 2 swaps, any process killed | 80,217 | `ScratchIsSound`: the claim is exclusive, only complete roots are published, a tool runs in its own root, no error leaves the lock; `OnlyOwnPartial`; `Termination`, also beside a stale lock; `ImplementsScratchClaim`; `Confinement`: the tool runs only confined and with what was validated; `StatusIsTheTools`; `NothingLeftBehind`; `EveryProcessEnds` |
| `boot` | logs of up to 4 lines of which 3 are exported, 3 modes, timeouts of 1 and 2, QMP events | 1,412,188 | `VerdictIsProven`: a pass is proven by the log and a readiness timeout is one; `QemuIsGone`: no QEMU is left unreported, and a log that is exported is within the limit and ends as the guest's does; `FitsTestTimeout`; `DriverEnds`, unless QEMU sends events for ever |
| `shutdown_markers` | two shutdown markers | violation | see below |
| `preflight` | any process killed, both dispositions | 36,100 | `ReportIsTrue`: PASS lines and the verdict are true, and a failure has a cause; `NothingLeftRunning`; `EveryProcessEnds` |
| `debian_tools` | 1,311 universes, 6 specifications; 156 fragments of versions; 4 refreshes, 3 snapshots, 2 files; about 16,000 lists of packages | 706,894 | `LockIsClosed`, `LockIsNeeded`, `ResolutionEnds`; `VersionOrder`: the comparison is the policy's order; `PinsAgree`, `FailuresAreRepeatable`; `TreeIsThePackages`: the last package wins, consistently; `LinksLead`: a link that was absolute, or whose way is plain, leads for the kernel where its text in the archive says |
| `refresh_repeat` | 4 runs, 3 snapshots, 2 files | violation | see below |
| `image` | about 3,000 layouts, 440 requests | 354,897 | `StagedIsDeclared`, `ValidatedBeforeWriting`, `ConfigurationIsDeclared`, `ReleaseIsValidated`, `StatusIsHonest` |
| `staging_order` | layouts with a name below the slash | violation | see below |
| `secure_boot` | 14 partitions, 3 certificates, 6 ways to sign, 13 sets of keys | 345,341 | `SigningIsWhole`, `ImportIsExact`, `ImageIsTrusted`; `SignaturesAreReadOneWay`: digests of PE files cover every byte but the fields, the signature and gaps, and none twice, and DER is read in one way |
| `unsigned_binary` | a binary that `parse_pe` rejects | violation | see below |
| `release` | 37 disks, 20 trees, 10 updates, 2 signers, about 2,900 volumes | 46,048 | `DiskIsUnambiguous`, `VerifiedIsMerkle`, `UpdateIsTheImage`, `FixtureIsSound`; `EspIsRead`: files and lists are those of a reference definition and no read leaves the partition; `EspReadingEnds` |
| `snapshot` | 31 states of an archive, 1 change of the mirror, 2 attempts | 875,311 | `LockIsUsable`: a generated lock is consistent, and its files are staged but for four named differences; `StagedIsAuthentic` |

Why the bounds are enough.

* Launchers interact in pairs: one that works, fails or is dead, and one that
  comes next; the proofs cover any number. Two swaps are a swap and the swap back
  around one call. Lines of log are progress, readiness and shutdown, each of them
  in a wrong order too, and one more than an export holds; the timeouts are long enough for a poll that is
  neither the first nor the last.
* Universes have a name in two versions, two providers of a virtual name, a
  duplicate that agrees and one that differs; dependencies are drawn from six
  shapes for four packages, so that cycles and late conflicts occur. Fragments
  of up to three of five characters have one of each rank, leading zeros and
  empty parts. Four refreshes are two that end early at different places, one for
  another snapshot and one that succeeds.
* Two packages, or two mappings, are enough for one to replace, hide or redirect
  what the other has; objects are drawn from every kind, with links to each
  other, to parents, to themselves and out of the tree.
* Requests of the driver take every combination of options with one deviation,
  since each check refuses one deviation on its own.
* Disks, binaries and volumes have each field at, below and above the limit that
  the code compares it with. Chains of a volume are all functions on four
  clusters (loops, shared tails, dead ends); long names all sequences of up to
  three slots; FATs have 12, 16 and 32 bits with the last entry just inside and
  just outside. `MaxLongNameSlots` is 2, which one slot too many exceeds.
  `MaxSpool` is 5: a level of four blocks is accepted below a level of one and
  refused below a level of two. `MaxArtifact` is 5 blocks, which one disk exceeds.
* One change of the mirror between any two downloads, or after the lock, shows
  every mixture of two states; a second one would give a third state that differs
  from the lock just as the second does.

Deadlock is not checked where the model really stops: after a verdict, a written
file or a used-up bound.

### Fairness

* `launch`: each launcher takes its next step unless it is killed. It
  never waits for another, which is what `Termination` is about.
* The processes of `NamespaceRunner` and `KernelPreflight`: the kernel schedules every live process
  that is not blocked; blocking is part of the guards. The tool is assumed to end.
* `BootTest`: the driver goes on whenever it is not waiting, time passes while it
  waits and a wait whose time is over returns. Nothing is assumed of the guest,
  of QEMU or of the QMP peer. One that sends an event before every receive times
  out keeps the driver for ever, which `DriverEnds` excepts.
* `LockResolver`, and the readers of table and volume in `Release`: single
  processes that go on.

Kills, interrupts, swaps, rebuilds, changes of a mirror and refused calls are
never fair.

### Where the code and its documentation disagree

Four runs are expected to end in a violation.

* `staging_order`, `CollisionsAreRejected`. The search for children
  (`stage_inputs.py:271`) stops at the first sorted path that is no child, and a
  name such as `a-` sorts between `a` and `a/c`. So a link `a` in a merged tree and
  a mapping to `a/c` are accepted, and the file is written through the link; with
  a file `a` the staging fails after the output was emptied.
  `docs/behavior-matrix.md:218` says that collisions are rejected before anything
  is written. The run `image` has no such names (`BelowSlash <- NoLow`) and shows
  that the rest of staging keeps its properties.
* `shutdown_markers`, `OneMarkerIsEnough`. `boot_test.py:369` demands every
  shutdown marker; `qemu_boot_test.bzl:58` and `docs/api/defs.md:283` say that one
  must appear.
* `unsigned_binary`, `NothingUnsigned`. `secure_boot_image.py:110` counts a PE/COFF
  binary whose layout `parse_pe` rejects among the signed ones; it is looked at
  again only if keys are enrolled and it is startable. `docs/secure-boot.md:210`
  and `docs/api/defs.md:472` say that the build fails if a binary stays unsigned.
* `refresh_repeat`, `EveryFileIsMoved`. `refresh_debian_tools.py:137`: a refresh that
  ends within its loop, after it moved the provenance, and is repeated succeeds
  and leaves files at the old snapshot, or empty; lines 9 and 10 say that it
  moves them. `FailuresAreRepeatable` shows that every other place is harmless.

Other differences that the models follow the code in:

* `boot_test.py:625`: a guest that becomes ready and powers off between the read
  of the log and the poll is reported as having exited before readiness.
* `boot_test.py:155`: the QMP timeout bounds each receive, not the whole
  initialization (`qemu_boot_test.bzl:21`).
* `kernel_preflight.c:828`: a child killed before the acknowledgement ends the
  parent by SIGPIPE, without the result line that
  `docs/design/0004-host-kernel-contract.md:31` promises.
* `generate_lock.py` writes locks that `debian_snapshot.py` refuses: a signature
  does not verify, which only the stager asks; the text of InRelease ends with
  one newline more than Release; a one-line field follows the SHA256 list
  (`debian_snapshot.py:31`); or a package has an unsafe path, the path of another
  or not the size of its index. `LockIsUsable` shows that there is no other.

## The proofs

Each proof module extends its components and `TLAPS`. The argument is an inductive
invariant, one lemma or step for each action, and the properties as its
consequences.

* **LaunchProofs**, about the two programs that start a tool. Of the launcher,
  from `NoOne \notin Launchers`, for any number of launchers: `LauncherInv` says
  who owns the lock, the trees and the runtime directory at each place of each
  launcher. Exclusiveness is not kept by one launcher alone: one past its listing
  of the directory relies on every other not being there. Proved: types,
  `ScratchIsSound` and its parts, `OnlyOwnPartial`, and that `DebianLauncher`
  implements `ScratchClaim`. Of the namespace runner, for any mounts, killable
  processes, tool codes and number of swaps: `Handshake` relates places,
  bytes in pipes, maps and endings (an acknowledgement exists only when the maps
  are complete); `MountsInOrder` says what is attached, pinned and protected at
  each call. Proved: types, `Confinement`, `StatusIsTheTools`,
  `NothingLeftBehind`.
* **KernelPreflightProofs**, for any set of killable processes and any
  dispositions of SIGCHLD. The invariant has the places of the three processes,
  the pipe ends that each of them holds at each place, what is in each pipe, the
  calls that are done when a check is claimed, and the fate of a child that has
  been killed. The parent believes a result only from a child that is past its
  last call, and it reads the end of a pipe only when nobody holds the other
  end: that is why `ReportIsTrue` and `NothingLeftRunning` hold.
* **BootProofs**. Of the boot driver, for any markers, logs and positive timeouts
  with `CleanupMargin >= 4 * StopTimeout + 1`, which the code's margin fulfils:
  `IInv` says where QEMU may run and how much time is used up at each place.
  Proved: `QemuIsGone`, whose part about exported logs needs what `Bounded` keeps
  of a log for any limit, and `FitsTestTimeout`. `VerdictIsProven` rests on
  `ProgressAssumption` (the progress markers are a list) and on a fact about the
  search: looking for each marker behind the one before finds them all exactly
  when the log has them in this order somewhere. `VerdictInv` keeps what has been
  shown of the log at each place, and the log only grows. Of the digest of a binary, for every
  record of header fields, no matter how large: `DigestCoversOnce` and
  `EquivalentPairsAreHashed`. In an accepted layout the headers, each section
  and what follows them lie one behind the other within the file, the two fields
  that are left out lie apart in the headers, and the signature of an accepted
  pair lies behind all that is hashed; nothing else than these and the gaps that
  belong to no section is left out.
* **LockProofs**. Of the resolution, for any universe and specification: a
  selected package is queued, is the current one or has all groups met, of the
  current one those before `next`; what is met stays met, as nothing is taken
  back. Proved: types and `LockIsClosed`. `NeededInv` keeps for each selected
  package a way to it from a requested one, along groups that it satisfies; the
  shortest way has no package twice, so it is no longer than the universe is
  large, which is how far the reference `Reached` looks. Proved: `LockIsNeeded`.
  Of the refresh, for any snapshots,
  files and number of runs: `RefreshInv` says which files have been moved at each
  place and, as long as no run ended within the loop, that the others follow the
  provenance before the loop and the new snapshot behind it. Proved: `PinsAgree`,
  `FailuresAreRepeatable`.
* **DebianProofs**, about generator, mirror, hand edits and stager together, for
  any archives, components, edits of the lock, replaced files and changes of the
  mirror, from `PathsAssumption` (no package lies at the path of the verified
  copy), `ChannelAssumption` and `ArchivesAssumption` (what both programs read is
  a list, and a suite and components are identifiers). `StageInv` keeps what each
  check of `stage` has shown and exactly which files it has written at each place;
  each check covers one link from the keyring to a package, and at the end the
  links make a chain. Proved: `StagedIsAuthentic`, also for locks that were edited
  and files that do not belong to them. `GeneratorInv` keeps which downloads have
  been compared with the Release file, and `SuppliedInv` that, unless something has been edited, each file comes from
  some state of the mirror, though not all from the same. Each check of the
  stager then follows from one that the generator has made, although the two
  programs read Release files and indexes with code of their own, or it is one
  of the four named differences. Proved: `LockIsUsable`.
* **SecureBootProofs**, for any image whose names differ in more than case
  (`ImageAssumption`: FAT has no others), any manifest that is not empty
  (`ManifestAssumption`: `load_manifest` refuses an empty one), any certificates,
  options, rebuilds and runs of the signer. `SigningInv` says that what the
  signer has read was requested with its certificate, that what it has signed is
  what it has read, and that the source tree has whole files only; it needs the
  history of all requests, since the files that the signer reads may have been
  rebuilt by the time it writes. Proved: `ImportIsExact` and the action property
  `SigningIsWhole`. `ImageInv` keeps, while an image is built, that its inputs
  stay and what has been checked of them; each file of the result is then the
  old one, a new one that is no binary, or a binary with its own signature.
  Proved: `ImageIsTrusted`, for any enrollment files whose lists have the entries
  that their sizes announce (`KeyAssumption`: `signature_lists` slices them so).
* **DiskProofs**. For every disk, `DiskIsUnambiguous`: the invariant keeps the
  order of header, array, usable range, array and header once both headers are
  read, that the entries scanned so far lie in the usable range one behind the
  other, and that the hash has not passed a patch that is still to be made. For
  every boot sector, FAT and directory, `EspIsInside`, the part of `EspIsRead`
  without the reference: a chain is as long as its set of clusters, which lie in
  `2..LastCluster`, and `remaining` is at least the partition less the root and
  the claimed clusters. So the comment at line 261 of the reader is right: its
  limit is never what stops a walk. This holds too when other components run
  beside the reader (`EspBeside`).
* **ReleaseProofs**, about the composition, from `ReleaseAssumption`,
  `OptionsAssumption` and `FixturesAssumption` (numbers are numbers and lists are
  lists). `UpdateIsTheImage`: an update that ends with an error that `main` reports
  leaves no file, and while a file is written, what is unpacked so far is
  the beginning of the source, whether blocks are copied, left as holes or
  compressed, so that a finished payload restores the extents that the hash tree
  was verified over; the request names that payload, and the import compares it
  again. `FixtureIsSound`: at each step the private keys that exist are those
  that are still to be wiped, unless there is no scratch directory or they cannot
  be overwritten; and a header that `packet` writes is read back for
  every length below 2^32. The composition implements `PartitionSpec` and
  `EspBeside` (the ESP reader beside others that do not write the disk), so that
  what `DiskProofs` shows of the two readers holds in it.

Where a proof needs induction over a list or a number, it takes a least
counterexample (`Least`, from the well-foundedness of the naturals), and it
unfolds a recursive function by showing first that one exists.

Only model-checked: every liveness property (fairness is out of the prover's
reach); `VersionOrder`, `SignaturesAreReadOneWay`, `TreeIsThePackages`, `LinksLead`,
the reference in `EspIsRead` and the properties of `image`, which use recursive
operators that the prover cannot take; and `VerifiedIsMerkle`, whose
reference is a tree of hashes.

## Assumptions and what is left out

* The source tree does not change while a Bazel action runs; the signer, which
  is no action, reads `bazel-out` while it may be rebuilt.
* SHA-256 has no collisions: content stands for its digest. Signatures verify
  exactly for the key and the document they were made with.
* Release: a block is 1 MiB. The fields of the verity superblock, the salt,
  OpenPGP armor and packet bodies, and the text of manifests and transfer files
  are left out. Image versions are always given.
* The ESP reader runs as soon as the table is read and to its end, since it
  changes nothing that others read. The protective MBR is a verdict, a header
  CRC one of the reasons for an invalid header, names are sequences of pieces.
* Secure Boot: a PKCS#7 structure is its digest, signer and certificates; an
  import has one signed candidate for each name; file alignments of 2^31, which
  exceed every file, are left out.
* `LockGenerator` takes any choice with one version of a name for the resolution.
  `--check` modes, the validation of specifications and epochs that are no
  numbers are left out. The generator verifies no signature, the stager does.
* Wording of diagnostics, command lines, and the formats of `/proc`, QMP, ar,
  tar and apt indexes, except for the outcomes that the control flow tells apart.
* Time in all modules but `BootTest`.
* The kernel, QEMU, mkosi, Bazel and the signing tools are represented by what
  the code may observe of them; such definitions are marked external.

Not modelled, because there is no state or order for a model to explore:

* the validation of the launcher's bind options, `uki_metadata.py`,
  `reproducibility_manifest.py`, `write_bios_repart.py` and `file_hashing.py`:
  sequential checks or formatting of one input;
* `http_share.py`, a handler of one connection; `write_all.c`, whose two results
  the runner and the preflight model; `launcher_main.cc`, one exec;
* Starlark that declares actions, toolchains and repositories, which Bazel
  evaluates once; SHA-256 in Starlark, a function on words that a small instance
  says nothing about;
* the validators of finished reports in `src/ci/`.
