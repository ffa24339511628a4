------------------------------ MODULE EspVolume ------------------------------
(***************************************************************************)
(* mkosi/private/esp_manifest/rules_mkosi_esp_manifest.py: a reader of the *)
(* FAT file system on the EFI system partition of a disk.  It locates the  *)
(* partition, lists every file or looks one up, and follows the chains of  *)
(* clusters one cluster at a time.                                         *)
(*                                                                         *)
(* A volume is the record of what is read: the protective MBR of the disk,  *)
(* the boot sector of the partition, the bytes of the FAT and the entries  *)
(* of directories, where they are not zero, and what the reader is asked   *)
(* for.  An entry is a slot of a long name, or a short name with what      *)
(* belongs to it.  A name is a sequence of pieces.  That _Image.read never *)
(* refuses what is read of a volume is the first property.                 *)
(***************************************************************************)
EXTENDS PartitionMetadata

CONSTANTS
    Volumes,
    Upper,              \* the upper case of a piece of a name
    MaxLongNameSlots,   \* _MAX_LONG_NAME_SLOTS
    MaxDirectoryBytes   \* _MAX_DIRECTORY_BYTES

Boot == [signature : {"valid", "invalid"}, sector : Nat, perCluster : Nat, reserved : Nat, fats : Nat,
         fatSize16 : Nat, fatSize32 : Nat, rootEntries : Nat, total16 : Nat, total32 : Nat, rootCluster : Nat]
ASSUME VolumesAreVolumes == \A v \in Volumes : v.boot \in Boot

VARIABLES
    volume,     \* the volume that is read
    reader,     \* where the reader is, or how it ended
    esp,        \* the partition, once it is located
    here,       \* the directory or file whose clusters are read
    atRoot,     \* "yes" as long as that is the root directory
    cluster,    \* the next cluster of its chain
    chain,      \* the clusters of the chain so far
    visited,    \* the same as a set
    stack,      \* directories that are still to be listed
    claimed,    \* clusters of the directories that were listed
    remaining,  \* how many bytes of directories may still be read
    found       \* the bag of files that were listed, or the clusters of the one asked for

espVars == <<volume, reader, esp, atRoot, here, cluster, chain, visited, stack, claimed, remaining, found>>

\* The request is to list, to extract a path or to read the manifest at a path.
Listing == volume.request.kind = "list"
Wanted == volume.request.path
Ended == {"invalid", "missing", "overdrawn", "listed", "extracted"}
NoPartition == [offset |-> 0, size |-> 0]
Root == [kind |-> "root", path |-> <<>>, cluster |-> 0, size |-> 0]

EspInit ==
    /\ reader = "start" /\ esp = NoPartition /\ atRoot = "yes" /\ here = Root
    /\ cluster = 0 /\ chain = <<>> /\ visited = {} /\ stack = <<>>
    /\ claimed = {} /\ remaining = 0 /\ found = <<>>
Stops(how) ==
    /\ reader' = how
    /\ UNCHANGED <<volume, esp, atRoot, here, cluster, chain, visited, stack, claimed, remaining, found>>

-----------------------------------------------------------------------------
\* The partition.

_gpt_sector_size ==
    LET sizes == {s \in {512, 4096} : disk.size >= 2 * s /\ s \in disk.signatures}
    IN  IF volume.mbr # "valid" THEN 0 ELSE IF 512 \in sizes THEN 512 ELSE IF 4096 \in sizes THEN 4096 ELSE 0
_gpt_entries(s, headerCrc) ==
    LET h == disk.primary
    IN  /\ 92 <= h.size /\ h.size <= s /\ headerCrc = "valid"
        /\ h.entrySize >= 128 /\ h.entrySize % 8 = 0 /\ ArrayBytes(h) <= 4194304
        /\ h.entriesLba >= 2 /\ h.entriesLba * s + ArrayBytes(h) <= disk.size
        /\ h.crc = "valid"
Esps == {i \in DOMAIN disk.primary.array : disk.primary.array[i].type = "esp"}
Located(i, s) == [offset |-> disk.primary.array[i].first * s,
                  size |-> (disk.primary.array[i].last - disk.primary.array[i].first + 1) * s]
\* The header's CRC is one of several reasons for which PartitionMetadata calls a
\* header invalid.
_find_esp ==
    /\ reader = "start"
    /\ \E headerCrc \in {"valid", "invalid"} :
         /\ disk.primary.bytes = "valid" => headerCrc = "valid"
         /\ LET s == _gpt_sector_size
                fits(p) == p.offset >= 2 * s /\ p.size > 0 /\ p.offset + p.size <= disk.size
            IN  IF s # 0 /\ _gpt_entries(s, headerCrc) /\ \E i \in Esps : Esps = {i} /\ fits(Located(i, s))
                THEN /\ esp' = Located(CHOOSE i \in Esps : TRUE, s)
                     /\ reader' = "boot"
                     /\ UNCHANGED <<volume, atRoot, here, cluster, chain, visited, stack, claimed, remaining, found>>
                ELSE Stops("invalid")

-----------------------------------------------------------------------------
\* The geometry of the file system, in bytes.

boot == volume.boot
fat32 == boot.fatSize16 = 0
FatBytes == (IF fat32 THEN boot.fatSize32 ELSE boot.fatSize16) * boot.sector
Total == (IF boot.total16 # 0 THEN boot.total16 ELSE boot.total32) * boot.sector
FatOffset == boot.reserved * boot.sector
RootOffset == FatOffset + boot.fats * FatBytes
RootBytes == boot.rootEntries * 32
DataOffset == RootOffset + ((RootBytes + boot.sector - 1) \div boot.sector) * boot.sector
ClusterBytes == boot.perCluster * boot.sector
Clusters == (IF Total > DataOffset THEN Total - DataOffset ELSE 0) \div ClusterBytes
_geometry ==
    /\ boot.signature = "valid"
    /\ boot.sector \in {512, 1024, 2048, 4096}
    /\ boot.perCluster \in {1, 2, 4, 8, 16, 32, 64, 128}
    /\ boot.reserved > 0 /\ boot.fats > 0 /\ FatBytes > 0
    /\ (boot.rootEntries = 0) = fat32
    /\ Total <= esp.size
    /\ Clusters # 0
LastCluster == Clusters + 1
Bits == IF fat32 THEN 32 ELSE IF Clusters < 4085 THEN 12 ELSE 16
\* Mutation: the FAT holds an entry less.
FatIsShort == LastCluster * Bits <= FatBytes * 8
FatIsLargeEnough == (LastCluster + 1) * Bits <= FatBytes * 8
OpenVolume ==
    /\ reader = "boot"
    /\ IF _geometry /\ FatIsLargeEnough
       THEN /\ reader' = IF ~Listing /\ Wanted = <<>> THEN "missing" ELSE "directory"
            /\ remaining' = esp.size
            /\ UNCHANGED <<volume, esp, atRoot, here, cluster, chain, visited, stack, claimed, found>>
       ELSE Stops("invalid")

\* Where _next_cluster reads a value, and how many bytes.
FatIndex(c) == CASE Bits = 12 -> (c * 3) \div 2 [] Bits = 16 -> c * 2 [] Bits = 32 -> c * 4
FatWidth == IF Bits = 32 THEN 4 ELSE 2
_next_cluster(c) ==
    LET byte(i) == IF i \in DOMAIN volume.fat THEN volume.fat[i] ELSE 0
        pair(i) == byte(i) + 256 * byte(i + 1)
        i == FatIndex(c)
    IN  CASE Bits = 12 -> IF c % 2 = 1 THEN pair(i) \div 16 ELSE pair(i) % 4096
          [] Bits = 16 -> pair(i)
          [] Bits = 32 -> pair(i) + 65536 * (pair(i + 2) % 4096)
EndOfChain == CASE Bits = 12 -> 4088 [] Bits = 16 -> 65528 [] Bits = 32 -> 268435448

-----------------------------------------------------------------------------
\* The entries of a directory.

_add_slot(slots, raw) ==
    IF raw.last = "yes" THEN <<raw>>
    ELSE IF Len(slots) >= MaxLongNameSlots THEN <<>>
    ELSE Append(slots, raw)
\* The slots collected after each entry.
SlotsAfter(data) ==
    LET after[n \in 0..Len(data)] ==
          IF n = 0 THEN <<>>
          ELSE IF data[n].kind # "slot" THEN <<>>
          ELSE _add_slot(after[n - 1], data[n])
    IN  after
NoName == <<>>
_long_name(slots, raw) ==
    LET count == Len(slots)
    IN  IF /\ 1 <= count /\ count <= MaxLongNameSlots
           /\ \A i \in 1..count : /\ slots[i].ordinal = count + 1 - i
                                  /\ (slots[i].last = "yes") = (i = 1)
                                  /\ slots[i].checksum = raw.checksum
        THEN [i \in 1..count |-> slots[count + 1 - i].text]
        ELSE NoName
DirectoryEntry(raw, long) ==
    [kind |-> raw.kind, short |-> raw.short, name |-> IF long = NoName THEN raw.short ELSE long,
     cluster |-> raw.low + (IF fat32 THEN 65536 * raw.high ELSE 0), size |-> raw.size]
\* What ends a directory has the kind "end"; labels, "." and ".." are skipped.
_entries(data) ==
    LET ends == {n \in DOMAIN data : data[n].kind = "end"}
        slots == SlotsAfter(data)
        kept == SelectSeq([n \in DOMAIN data |-> n],
                          LAMBDA n : data[n].kind \in {"file", "directory"} /\ \A m \in ends : n < m)
    IN  [k \in DOMAIN kept |-> DirectoryEntry(data[kept[k]], _long_name(slots[kept[k] - 1], data[kept[k]]))]
\* A cluster that holds no entries is all zero, which ends the directory.
EntriesAt(c) == IF c \in DOMAIN volume.content THEN volume.content[c] ELSE <<[kind |-> "end"]>>
Data(clusters) ==
    LET upto[n \in 0..Len(clusters)] ==
          IF n = 0 THEN <<>> ELSE upto[n - 1] \o EntriesAt(clusters[n])
    IN  upto[Len(clusters)]

-----------------------------------------------------------------------------
\* Chains.

FixedRoot == atRoot = "yes" /\ ~fat32
OpenDirectory ==
    /\ reader = "directory"
    /\ chain' = <<>> /\ visited' = {}
    /\ cluster' = IF atRoot = "yes" THEN boot.rootCluster ELSE here.cluster
    /\ reader' = IF FixedRoot THEN "entries" ELSE "chain"
    /\ UNCHANGED <<volume, esp, atRoot, here, stack, claimed, remaining, found>>
Follow ==
    /\ chain' = Append(chain, cluster) /\ visited' = visited \cup {cluster}
    /\ cluster' = _next_cluster(cluster)
    /\ reader' = IF cluster' < EndOfChain THEN "chain"
                 ELSE IF here.kind = "file" THEN "content" ELSE "entries"
    /\ UNCHANGED <<volume, esp, atRoot, here, stack, claimed, remaining, found>>
\* Mutation: a cluster that was visited is skipped.
ChainSkipping ==
    /\ reader = "chain"
    /\ IF cluster \notin 2..LastCluster THEN Stops("invalid")
       ELSE IF cluster \in visited
       THEN /\ cluster' = _next_cluster(cluster)
            /\ UNCHANGED <<volume, reader, esp, atRoot, here, chain, visited, stack, claimed, remaining, found>>
       ELSE Follow
_chain ==
    /\ reader = "chain"
    /\ IF cluster \notin 2..LastCluster \/ cluster \in visited THEN Stops("invalid") ELSE Follow

-----------------------------------------------------------------------------
\* walk.

DirectoryBytes == IF FixedRoot THEN RootBytes ELSE Len(chain) * ClusterBytes
TooLarge == ~FixedRoot /\ DirectoryBytes > MaxDirectoryBytes
Entries == _entries(IF FixedRoot THEN volume.root ELSE Data(chain))
OfKind(kind) == SelectSeq(Entries, LAMBDA e : e.kind = kind)
Below(e) == [kind |-> e.kind, path |-> Append(here.path, e.name), cluster |-> e.cluster, size |-> e.size]
Paths(entries) == [i \in DOMAIN entries |-> Below(entries[i])]
\* The list is sorted at the end, so it is known from the bag of what it holds.
Copies(files, f) == Cardinality({i \in DOMAIN files : files[i] = f})
Listed(files) == [f \in DOMAIN found \cup {files[i] : i \in DOMAIN files} |->
                    (IF f \in DOMAIN found THEN found[f] ELSE 0) + Copies(files, f)]
\* Mutation: clusters of two directories are not compared.
Unshared == TRUE
Disjoint == visited \cap claimed = {}
Overdrawn == remaining < DirectoryBytes
WalkDirectory ==
    /\ reader = "entries" /\ Listing
    /\ IF TooLarge \/ ~Disjoint THEN Stops("invalid")
       ELSE IF Overdrawn THEN Stops("overdrawn")
       ELSE /\ claimed' = claimed \cup visited /\ remaining' = remaining - DirectoryBytes
            /\ found' = Listed(Paths(OfKind("file")))
            /\ LET rest == stack \o Paths(OfKind("directory"))
               IN  IF rest = <<>>
                   THEN reader' = "listed" /\ UNCHANGED <<stack, atRoot, here>>
                   ELSE /\ reader' = "directory" /\ atRoot' = "no" /\ here' = rest[Len(rest)]
                        /\ stack' = SubSeq(rest, 1, Len(rest) - 1)
            /\ UNCHANGED <<volume, esp, cluster, chain, visited>>

-----------------------------------------------------------------------------
\* lookup and read_file.

_fold(name) == [i \in DOMAIN name |-> Upper[name[i]]]
Matches ==
    LET component == Wanted[Len(here.path) + 1]
    IN  SelectSeq(Entries, LAMBDA e : _fold(component) \in {_fold(e.name), _fold(e.short)})
ClustersFor(size) == (size + ClusterBytes - 1) \div ClusterBytes
lookup ==
    /\ reader = "entries" /\ ~Listing
    /\ IF TooLarge THEN Stops("invalid")
       ELSE IF Matches = <<>> THEN Stops("missing")
       ELSE LET e == Matches[1]
                last == Len(here.path) + 1 = Len(Wanted)
            IN  IF (e.kind = "file") # last THEN Stops("missing")
                ELSE /\ atRoot' = "no" /\ here' = Below(e)
                     /\ cluster' = e.cluster /\ chain' = <<>> /\ visited' = {}
                     /\ reader' = IF ~last THEN "directory" ELSE IF e.size = 0 THEN "content" ELSE "chain"
                     /\ UNCHANGED <<volume, esp, stack, claimed, remaining, found>>
\* Whether a manifest that is asked for is one.
read_esp_manifest == volume.request.kind = "manifest" => volume.request.document = "manifest"
read_file ==
    /\ reader = "content"
    /\ IF Len(chain) # ClustersFor(here.size) \/ ~read_esp_manifest THEN Stops("invalid")
       ELSE /\ found' = chain /\ reader' = "extracted"
            /\ UNCHANGED <<volume, esp, atRoot, here, cluster, chain, visited, stack, claimed, remaining>>

EspNext == _find_esp \/ OpenVolume \/ OpenDirectory \/ _chain \/ WalkDirectory \/ lookup \/ read_file

-----------------------------------------------------------------------------
Opened == {"directory", "chain", "entries", "content", "listed", "extracted"}
\* Everything that is read of a partition is inside it: the FAT, the fixed root
\* directory, each value of a chain inside the FAT, and each cluster; and the
\* limit on directories is never what stops a walk (_WalkLimits.claim).
EspIsInside ==
    /\ reader # "overdrawn"
    /\ reader \in Opened =>
         /\ FatOffset + FatBytes <= esp.size /\ RootOffset + RootBytes <= esp.size
         /\ \A c \in visited : /\ FatIndex(c) + FatWidth <= FatBytes
                               /\ DataOffset + (c - 1) * ClusterBytes <= esp.size
EspSpec == PartitionInit /\ volume \in Volumes /\ EspInit /\ [][EspNext /\ UNCHANGED diskVars]_<<espVars, diskVars>>
\* The same reader beside others, none of which writes the disk.
EspBeside == PartitionInit /\ volume.boot \in Boot /\ EspInit
             /\ [][(EspNext /\ UNCHANGED diskVars) \/ UNCHANGED <<espVars, disk>>]_<<espVars, diskVars>>

\* A reader comes to an end, whatever the chains and directories are.
EspReadingEnds == <>(reader \in Ended)
=============================================================================
