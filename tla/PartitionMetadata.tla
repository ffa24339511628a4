-------------------------- MODULE PartitionMetadata --------------------------
(***************************************************************************)
(* mkosi/private/partition_metadata.py: a reader of a GPT disk image.  It  *)
(* finds the sector size, validates both copies of the table, scans its    *)
(* entries, and hashes the image with the table's identifiers zeroed.      *)
(*                                                                         *)
(* A disk is the record of what is read: its size in bytes, the sector     *)
(* sizes at which it has the GPT's signature, and what the header at LBA 1 *)
(* and the one at the last LBA say.                                        *)
(***************************************************************************)
EXTENDS Integers, Sequences, FiniteSets

CONSTANT Disks
Entry == [type : STRING, first : Nat, last : Nat, label : STRING, uuid : STRING]
Header == [bytes : {"valid", "invalid"}, size : Nat, current : Nat, backup : Nat, firstUsable : Nat, lastUsable : Nat,
           entriesLba : Nat, count : Nat, entrySize : Nat, crc : {"valid", "invalid"}, guid : STRING, array : Seq(Entry)]
Disk == [size : Nat, signatures : SUBSET {512, 4096}, primary : Header, backup : Header,
         firmware : STRING, slot : STRING]
\* The array of a header has as many entries as its count says.
ASSUME DisksAreDisks ==
    /\ Disks \subseteq Disk
    /\ \A d \in Disks : d.primary.count = Len(d.primary.array) /\ d.backup.count = Len(d.backup.array)

VARIABLES
    disk,         \* the disk that is read
    at,           \* where the reader is, or its verdict
    sector,       \* the sector size, once it is known
    slot,         \* the entry that is scanned next
    partitions,   \* what was found
    pending,      \* which parts of the table are still to be hashed, in another form
    cursor        \* the offset up to which the disk is hashed

diskVars == <<disk, at, sector, slot, partitions, pending, cursor>>

ALIGNMENT == 1048576
MaxEntries == 1048576
MaxArrayBytes == 67108864
EmptySlot == "_empty"
\* The label of an entry whose bytes are no UTF-16.
Undecodable == "undecodable"

Reject == at' = "invalid" /\ UNCHANGED <<disk, sector, slot, partitions, pending, cursor>>
Goto(next) == at' = next
LastLba == disk.size \div sector - 1

-----------------------------------------------------------------------------
\* Both copies of the table.

Candidates == {s \in {512, 4096} : disk.size % s = 0 /\ disk.size >= s * 3 /\ s \in disk.signatures}
_sector_size ==
    /\ at = "start"
    /\ IF Cardinality(Candidates) = 1
       THEN /\ sector' \in Candidates /\ Goto("primary")
            /\ UNCHANGED <<disk, slot, partitions, pending, cursor>>
       ELSE Reject

ArrayBytes(h) == h.count * h.entrySize
ArrayOffset(h) == h.entriesLba * sector
ArrayLastLba(h) == h.entriesLba + (ArrayBytes(h) + sector - 1) \div sector - 1
_check_header_bytes(h) == h.bytes = "valid" /\ 92 <= h.size /\ h.size <= sector
_check_header_geometry(h, lba, other) ==
    /\ h.current = lba /\ h.backup = other
    /\ lba \in {1, LastLba}
    /\ h.firstUsable <= h.lastUsable /\ h.lastUsable < LastLba
    /\ 0 < h.count /\ h.count <= MaxEntries
    /\ 128 <= h.entrySize /\ h.entrySize <= 4096 /\ h.entrySize % 8 = 0
    /\ ArrayBytes(h) <= MaxArrayBytes
_check_array_location(h, lba) ==
    /\ h.entriesLba >= 2 /\ ArrayLastLba(h) < LastLba
    /\ lba = 1 => ArrayLastLba(h) < h.firstUsable
    /\ lba = LastLba => h.entriesLba > h.lastUsable
_read_exact(offset, size) == offset <= disk.size /\ size <= disk.size - offset
_header(h, lba, other) ==
    /\ _read_exact(lba * sector, sector) /\ _check_header_bytes(h)
    /\ _check_header_geometry(h, lba, other) /\ _read_exact(ArrayOffset(h), ArrayBytes(h))
    /\ _check_array_location(h, lba) /\ h.crc = "valid"
ReadPrimary ==
    /\ at = "primary"
    /\ IF _header(disk.primary, 1, LastLba)
       THEN Goto("backup") /\ UNCHANGED <<disk, sector, slot, partitions, pending, cursor>>
       ELSE Reject
ReadBackup ==
    /\ at = "backup"
    /\ IF _header(disk.backup, LastLba, 1)
       THEN Goto("compare") /\ UNCHANGED <<disk, sector, slot, partitions, pending, cursor>>
       ELSE Reject
_validated_gpt ==
    /\ at = "compare"
    /\ LET p == disk.primary
           b == disk.backup
       IN IF /\ p.guid = b.guid /\ p.firstUsable = b.firstUsable /\ p.lastUsable = b.lastUsable
             /\ p.count = b.count /\ p.entrySize = b.entrySize /\ p.array = b.array
          THEN Goto("scan") /\ slot' = 1 /\ UNCHANGED <<disk, sector, partitions, pending, cursor>>
          ELSE Reject

-----------------------------------------------------------------------------
\* The entries, one after the other.

\* Mutant: an entry is compared with where the previous one begins.
EntryAfterFirst(e) ==
    /\ e.first <= e.last /\ disk.primary.firstUsable <= e.first /\ e.last <= disk.primary.lastUsable
    /\ partitions # <<>> => partitions[Len(partitions)].first < e.first
_check_entry_range(e) ==
    /\ e.first <= e.last /\ disk.primary.firstUsable <= e.first /\ e.last <= disk.primary.lastUsable
    /\ partitions # <<>> => partitions[Len(partitions)].last < e.first
Projected(e, number) ==
    [label |-> e.label, number |-> number, first |-> e.first, last |-> e.last, type |-> e.type, uuid |-> e.uuid,
     start |-> e.first * sector, size |-> (e.last - e.first + 1) * sector]
ScanEntry ==
    /\ at = "scan" /\ slot <= disk.primary.count
    /\ LET e == disk.primary.array[slot]
       IN IF e.type = "unused"
          THEN slot' = slot + 1 /\ UNCHANGED <<disk, at, sector, partitions, pending, cursor>>
          ELSE IF _check_entry_range(e) /\ (e.first * sector) % ALIGNMENT = 0 /\ e.label # Undecodable
          THEN /\ slot' = slot + 1 /\ partitions' = Append(partitions, Projected(e, slot))
               /\ UNCHANGED <<disk, at, sector, pending, cursor>>
          ELSE Reject

OfType(type) == {i \in DOMAIN partitions : partitions[i].type = type}
SlotLabel(type) == IF type = "root" THEN disk.slot ELSE disk.slot \o "_verity"
_validate_ab_slots == \A type \in {"root", "verity"} :
    LET populated == {i \in OfType(type) : partitions[i].label # EmptySlot}
    IN \E i \in populated :
          /\ populated = {i} /\ partitions[i].label = SlotLabel(type)
          /\ \A j \in OfType(type) \ populated : partitions[j].size >= partitions[i].size
_validate_roots ==
    IF disk.slot # "" THEN _validate_ab_slots
    ELSE \E i \in OfType("root") : OfType("root") = {i} /\ partitions[i].label = "root-x86-64"
_validate_firmware ==
    disk.firmware # "uefi" =>
        /\ disk.firmware = "bios"
        /\ \E i \in OfType("bios boot") : OfType("bios boot") = {i} /\ partitions[i].size >= ALIGNMENT
\* project_image ends here.
Project ==
    /\ at = "scan" /\ slot > disk.primary.count
    /\ IF _validate_roots /\ _validate_firmware
       THEN Goto("projected") /\ UNCHANGED <<disk, sector, slot, partitions, pending, cursor>>
       ELSE Reject

-----------------------------------------------------------------------------
\* canonical_image_sha256: headers and arrays are replaced in the order of their
\* offsets, the rest is hashed as it is.  It projects the disk first, for "uefi",
\* of which _validate_firmware asks nothing: a disk that was projected is again.

Patch(offset, size) == [offset |-> offset, size |-> size]
Patches == <<Patch(sector, sector), Patch(ArrayOffset(disk.primary), ArrayBytes(disk.primary)),
             Patch(ArrayOffset(disk.backup), ArrayBytes(disk.backup)), Patch(LastLba * sector, sector)>>
canonical_image_sha256 ==
    /\ at = "projected" /\ pending' = 1..4 /\ cursor' = 0 /\ Goto("hash")
    /\ UNCHANGED <<disk, sector, slot, partitions>>
HashPatch ==
    /\ at = "hash"
    /\ \E p \in pending :
         /\ \A q \in pending : Patches[p].offset <= Patches[q].offset
         /\ IF Patches[p].offset < cursor THEN at' = "overlap" /\ UNCHANGED <<pending, cursor>>
            ELSE cursor' = Patches[p].offset + Patches[p].size /\ pending' = pending \ {p} /\ UNCHANGED at
    /\ UNCHANGED <<disk, sector, slot, partitions>>
HashRest ==
    /\ at = "hash" /\ pending = {}
    /\ IF cursor <= disk.size THEN Goto("hashed") /\ cursor' = disk.size ELSE Goto("truncated") /\ UNCHANGED cursor
    /\ UNCHANGED <<disk, sector, slot, partitions, pending>>

PartitionInit == /\ disk \in Disks /\ at = "start" /\ sector = 0 /\ slot = 0
                 /\ partitions = <<>> /\ pending = {} /\ cursor = 0
PartitionNext == \/ _sector_size \/ ReadPrimary \/ ReadBackup \/ _validated_gpt \/ ScanEntry \/ Project
                 \/ canonical_image_sha256 \/ HashPatch \/ HashRest
PartitionSpec == PartitionInit /\ [][PartitionNext]_diskVars

-----------------------------------------------------------------------------
\* What a projected disk promises.

Apart(a, b) == a.offset + a.size <= b.offset \/ b.offset + b.size <= a.offset
Extent(i) == Patch(partitions[i].start, partitions[i].size)

\* No two partitions that were found share a byte, none shares one with either
\* copy of the table, and all are on the disk.
PartitionsApart == \A i \in DOMAIN partitions :
    /\ partitions[i].first <= partitions[i].last
    /\ partitions[i].start + partitions[i].size <= disk.size
    /\ \A j \in DOMAIN partitions : i # j => Apart(Extent(i), Extent(j))
    /\ \A p \in 1..4 : Apart(Extent(i), Patches[p])
\* Once a disk is validated, hashing never finds two parts of its table in one
\* another's place and never runs past its end: the two errors cannot happen.
HashNeverFails == at \notin {"overlap", "truncated"}
DiskIsUnambiguous == PartitionsApart /\ HashNeverFails
=============================================================================
