------------------------------ MODULE Sysupdate ------------------------------
(***************************************************************************)
(* From a disk image to a signed update: mkosi/private/sysupdate.py and    *)
(* sysupdate_signing.py on top of the metadata of partitions and of the    *)
(* hash tree.  The payload is written file by file, with a manifest; a     *)
(* person signs the manifest; the signature is imported by a later build,  *)
(* when the payload may have changed.                                      *)
(***************************************************************************)
EXTENDS PartitionMetadata, VerityMetadata, OpenPgp

CONSTANTS
    Options,    \* [slot, version, compression, signedUki, requestedUki, certificate, edits]: how the
                \* payload is built; slot is the label that the version makes
    MaxSignatures, \* in the source tree
    WellFormed  \* the versions of letters, digits and dots

ASSUME OptionsAssumption == \A o \in Options :
    DOMAIN o = {"slot", "version", "compression", "signedUki", "requestedUki", "certificate", "edits"}

VARIABLES
    options,    \* the options of this build
    uki,        \* the image's kernel
    step,       \* where the payload's writer is, or how it ended
    output,     \* name to file in the output directory
    file,       \* the file that is being written: [read, position, seen], seen being what is hashed
    sums,       \* name to digest: the manifest in memory
    payload,    \* the output directory of the last build that succeeded
    request,    \* the request for the signature
    signatures, \* the files with signatures in the source tree, in the order they are tried
    imported    \* what the import made of it

updateVars == <<options, uki, step, output, file, sums, payload, request, signatures, imported>>
keepDisk == <<diskVars, verityVars>>

MaxLabel == 36
None == "none"
NoFile == [read |-> 0, position |-> 0, seen |-> <<>>]
NoDirectory == <<>>
NoUki == <<>>

-----------------------------------------------------------------------------
\* The payload.

validate_image_version == options.version \in WellFormed
validate_slot_labels == Len(options.slot \o "_verity") <= MaxLabel
read_image_version == validate_image_version /\ validate_slot_labels
_release_uki == options.signedUki # NoUki => options.requestedUki = uki
ReleaseUki == IF options.signedUki = NoUki THEN uki ELSE options.signedUki
\* verity_partition_uuids: the halves of a digest of 32 bytes.
Uuid(half) == artifact.name \o half
_populated(type, label) == {i \in OfType(type) : partitions[i].label = label}
_check_slot_uuids ==
    /\ \E i \in OfType("root") : _populated("root", options.slot) = {i} /\ partitions[i].uuid = Uuid("-data")
    /\ \E i \in OfType("verity") :
          _populated("verity", options.slot \o "_verity") = {i} /\ partitions[i].uuid = Uuid("-hash")
Names == <<"root", "verity", "uki">>
Source(name) == CASE name = "root" -> artifact.root [] name = "verity" -> artifact.hash
                  [] OTHER -> <<ReleaseUki>>
\* verity_extents
Size(name) == CASE name = "root" -> artifact.dataBlocks
                [] name = "verity" -> 1 + TreeSize(_level_counts) [] OTHER -> 1
Compression(name) == IF name = "uki" THEN "none" ELSE options.compression
Xz(blocks) == <<blocks>>

PayloadFails == /\ step' = "failed" /\ output' = NoDirectory /\ file' = NoFile
                /\ UNCHANGED <<keepDisk, options, uki, sums, payload, request, signatures, imported>>
StartPayload ==
    /\ at \in {"projected", "hash", "hashed"} /\ disk.slot # "" /\ phase = "verified" /\ step \in {"idle", "stale"}
    /\ IF read_image_version /\ _release_uki /\ artifact.digestBytes = 32 /\ _check_slot_uuids
       THEN /\ step' = "copy" /\ sums' = <<>> /\ output' = NoDirectory /\ file' = NoFile
            /\ UNCHANGED <<keepDisk, options, uki, payload, request, signatures, imported>>
       ELSE PayloadFails
Name == Names[Len(sums) + 1]
\* _write_sparse and _write_xz: a zero block moves the position, another one is
\* written there, with zeros in the hole before it; xz is written at the end.
Hole(n) == [i \in 1..n |-> Zero]
WriteAt(blocks, position, block) == blocks \o Hole(position - Len(blocks)) \o <<block>>
Blocks == IF Name \in DOMAIN output THEN output[Name] ELSE <<>>
Put(name, blocks) == [n \in DOMAIN output \cup {name} |-> IF n = name THEN blocks ELSE output[n]]
CopyChunk ==
    /\ step = "copy" /\ Len(sums) < 3 /\ file.read < Size(Name)
    /\ IF file.read >= Len(Source(Name)) THEN PayloadFails
       ELSE LET block == Source(Name)[file.read + 1]
            IN /\ file' = [file EXCEPT !.read = @ + 1, !.position = @ + 1, !.seen = Append(@, block)]
               /\ output' = Put(Name, IF Compression(Name) = "none" /\ block # Zero
                                      THEN WriteAt(Blocks, file.position, block) ELSE Blocks)
               /\ UNCHANGED <<keepDisk, options, uki, step, sums, payload, request, signatures, imported>>
\* Mutant: the file ends with the last block that was written.
KeepLength(blocks, position) == blocks
Truncated(blocks, position) == blocks \o Hole(position - Len(blocks))
FinishFile ==
    /\ step = "copy" /\ Len(sums) < 3 /\ file.read = Size(Name)
    /\ LET plain == Compression(Name) = "none"
       IN /\ output' = Put(Name, IF plain THEN Truncated(Blocks, file.position) ELSE Xz(file.seen))
          /\ sums' = Append(sums, Digest(IF plain THEN file.seen ELSE Xz(file.seen)))
    /\ file' = NoFile /\ UNCHANGED <<keepDisk, options, uki, step, payload, request, signatures, imported>>
CopyFails == step = "copy" /\ PayloadFails
\* main removes the output after a KeyError, OSError or ValueError; another error
\* (lzma.LZMAError, an interrupt) leaves what is written.
CopyAborts == /\ step = "copy" /\ step' = "aborted"
              /\ UNCHANGED <<keepDisk, options, uki, output, file, sums, payload, request, signatures, imported>>
WriteSums ==
    /\ step = "copy" /\ Len(sums) = 3
    /\ step' = "done" /\ payload' = [files |-> output, sums |-> sums]
    /\ UNCHANGED <<keepDisk, options, uki, output, file, sums, request, signatures, imported>>
\* The image is built again with another kernel.
Rebuild ==
    /\ step = "done" /\ options.edits > 0
    /\ uki' = Digest(uki) /\ options' = [options EXCEPT !.edits = @ - 1] /\ step' = "stale"
    /\ UNCHANGED <<keepDisk, output, file, sums, payload, request, signatures, imported>>

-----------------------------------------------------------------------------
\* The signature of the manifest.

NoRequest == [sums |-> <<>>, fingerprint |-> None]
create_request ==
    /\ step = "done" /\ request.sums # payload.sums
    /\ IF certificate(options.certificate.tags)
       THEN request' = [sums |-> payload.sums, fingerprint |-> options.certificate.key] /\ UNCHANGED step
       ELSE step' = "refused" /\ UNCHANGED request
    /\ UNCHANGED <<keepDisk, options, uki, output, file, sums, payload, signatures, imported>>
\* The person who signs, with this key or another, in the right form or not.
Sign ==
    /\ request # NoRequest /\ Len(signatures) < MaxSignatures
    /\ \E key \in {request.fingerprint, "stranger"}, tags \in {<<2>>, <<2, 2>>} :
         signatures' = Append(signatures, [tags |-> tags, over |-> request.sums, key |-> key])
    /\ UNCHANGED <<keepDisk, options, uki, step, output, file, sums, payload, request, imported>>
NoImport == [result |-> None]
\* sqv verifies a signature over the manifest with the certificate.
SqvVerifies(s) == s.over = request.sums /\ s.key = request.fingerprint
Valid == {i \in DOMAIN signatures : detached_signature(signatures[i].tags) /\ SqvVerifies(signatures[i])}
_checked_request ==
    certificate(options.certificate.tags) /\ options.certificate.key = request.fingerprint
verify ==
    /\ step = "done" /\ request.sums = payload.sums /\ signatures # <<>>
    /\ imported' = IF _checked_request /\ Valid # {}
                   THEN [result |-> "signed", signature |-> signatures[Min(Valid)], payload |-> payload, uki |-> uki]
                   ELSE [result |-> "invalid"]
    /\ imported' # imported
    /\ UNCHANGED <<keepDisk, options, uki, step, output, file, sums, payload, request, signatures>>

UpdateInit ==
    /\ options \in Options /\ uki = Digest(Zero) /\ step = "idle" /\ output = NoDirectory /\ file = NoFile
    /\ sums = <<>> /\ payload = [files |-> NoDirectory, sums |-> <<>>]
    /\ request = NoRequest /\ signatures = <<>> /\ imported = NoImport
UpdateNext == \/ StartPayload \/ CopyChunk \/ FinishFile \/ CopyFails \/ CopyAborts \/ WriteSums \/ Rebuild
              \/ create_request \/ Sign \/ verify

-----------------------------------------------------------------------------
\* What systemd-sysupdate makes of a file: its blocks, with those of the slot
\* behind them; xz is undone.
Unpacked(name, blocks) == IF Compression(name) = "none" THEN blocks ELSE blocks[1]
Restores(name, blocks, original) ==
    LET plain == Unpacked(name, blocks)
    IN /\ Len(plain) <= Len(original) /\ SubSeq(original, 1, Len(plain)) = plain
       /\ ZeroFrom(original, Len(plain))

\* A signed update is the image: its manifest has the digests of its files as
\* they are on disk and is signed once, by the requested key; its files, written
\* into empty slots, give the partitions that were verified; and its kernel is
\* the image's, signed or not.  A build that ends with an error that main reports
\* leaves no file.
UpdateIsTheImage ==
    /\ imported.result = "signed" =>
         LET files == imported.payload.files
         IN /\ imported.signature.tags = <<2>> /\ imported.signature.key = options.certificate.key
            /\ imported.signature.over = imported.payload.sums
            /\ \A i \in 1..3 : imported.payload.sums[i] = Digest(files[Names[i]])
            /\ Restores("root", files["root"], artifact.root) /\ Restores("verity", files["verity"], artifact.hash)
            /\ files["uki"] = <<IF options.signedUki = NoUki THEN imported.uki ELSE options.signedUki>>
            /\ options.signedUki # NoUki => options.requestedUki = imported.uki
    /\ step \in {"failed", "idle"} => output = NoDirectory
=============================================================================
