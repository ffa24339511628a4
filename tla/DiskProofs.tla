------------------------------ MODULE DiskProofs -----------------------------
(***************************************************************************)
(* The readers of disk images, for every disk and every volume: partitions *)
(* that were found are apart from each other and from both copies of the   *)
(* table, and what is read of a system partition is inside it.             *)
(***************************************************************************)
EXTENDS EspVolume, FiniteSetTheorems, TLAPS

-----------------------------------------------------------------------------
(***************************************************************************)
(* The partition table.  The key is TableFits: the checks of the two       *)
(* headers put the parts of the table and the usable range one after the   *)
(* other.  Products are with a sector size, which is one of two numbers,   *)
(* so all of the arithmetic is linear.                                     *)
(***************************************************************************)
Partition == [label : STRING, number : Nat, first : Nat, last : Nat, type : STRING, uuid : STRING,
              start : Nat, size : Nat]
Found == {"scan", "projected", "hash", "hashed"}
States == {"start", "primary", "backup", "compare", "invalid"} \cup Found

SectorFits == sector \in {512, 4096} /\ disk.size % sector = 0 /\ disk.size >= sector * 3
\* Header, array, usable range, array, header.
TableFits ==
    /\ SectorFits
    /\ 2 * sector <= ArrayOffset(disk.primary)
    /\ ArrayBytes(disk.primary) > 0 /\ ArrayBytes(disk.backup) > 0
    /\ ArrayOffset(disk.primary) + ArrayBytes(disk.primary) <= disk.primary.firstUsable * sector
    /\ disk.primary.firstUsable <= disk.primary.lastUsable
    /\ (disk.primary.lastUsable + 1) * sector <= ArrayOffset(disk.backup)
    /\ ArrayOffset(disk.backup) + ArrayBytes(disk.backup) <= LastLba * sector
    /\ (LastLba + 1) * sector = disk.size

TypeInv == /\ disk \in Disks /\ at \in States /\ sector \in {0, 512, 4096} /\ slot \in Nat
           /\ partitions \in Seq(Partition) /\ pending \in SUBSET (1..4) /\ cursor \in Nat
HeadersInv == /\ at \in {"primary", "backup", "compare"} => SectorFits /\ partitions = <<>>
              /\ at = "start" => partitions = <<>>
              /\ at \in {"backup", "compare"} => _header(disk.primary, 1, LastLba)
              /\ at = "compare" => _header(disk.backup, LastLba, 1)
TableInv == (at \in Found \/ partitions # <<>>) => TableFits
ScanInv == at = "scan" => slot > 0
EntriesInv ==
    /\ \A i \in DOMAIN partitions :
         /\ disk.primary.firstUsable <= partitions[i].first /\ partitions[i].first <= partitions[i].last
         /\ partitions[i].last <= disk.primary.lastUsable
         /\ partitions[i].start = partitions[i].first * sector
         /\ partitions[i].size = (partitions[i].last - partitions[i].first + 1) * sector
    /\ \A i, j \in DOMAIN partitions : i < j => partitions[i].last < partitions[j].first
HashInv == at = "hash" => cursor <= disk.size /\ \A p \in pending : cursor <= Patches[p].offset
DiskInv == TypeInv /\ HeadersInv /\ TableInv /\ ScanInv /\ EntriesInv /\ HashInv

\* The fields of a disk that is read.
LEMMA DiskType ==
    ASSUME disk \in Disks
    PROVE  /\ disk.size \in Nat /\ disk.primary \in Header /\ disk.backup \in Header
           /\ disk.primary.count = Len(disk.primary.array)
PROOF BY DisksAreDisks DEF Disk

\* The numbers of a header.
LEMMA HeaderType ==
    ASSUME NEW h \in Header
    PROVE  /\ h.count \in Nat /\ h.entrySize \in Nat /\ h.entriesLba \in Nat
           /\ h.firstUsable \in Nat /\ h.lastUsable \in Nat /\ h.array \in Seq(Entry)
PROOF BY DEF Header

\* Division by a sector size, for numbers.
LEMMA Sectors ==
    ASSUME NEW n \in Nat, NEW s \in {512, 4096}
    PROVE  /\ n \div s \in Nat /\ (n \div s) * s <= n /\ n < (n \div s + 1) * s
           /\ n % s = 0 => (n \div s) * s = n
           /\ (n + s - 1) \div s \in Nat /\ n <= ((n + s - 1) \div s) * s
PROOF
  <1>1. CASE s = 512 BY <1>1
  <1>2. CASE s = 4096 BY <1>2
  <1>. QED BY <1>1, <1>2

\* Two headers that were accepted by _header, and agree on the usable range,
\* put the table and the usable range in order.
LEMMA HeadersFit ==
    ASSUME disk \in Disks, SectorFits, _header(disk.primary, 1, LastLba), _header(disk.backup, LastLba, 1),
           disk.primary.firstUsable = disk.backup.firstUsable, disk.primary.lastUsable = disk.backup.lastUsable
    PROVE  TableFits
PROOF
  <1> DEFINE p == disk.primary
             b == disk.backup
             pb == ArrayBytes(p)
             bb == ArrayBytes(b)
  <1>1. /\ disk.size \in Nat /\ sector \in {512, 4096} /\ p \in Header /\ b \in Header
    BY DiskType DEF SectorFits
  <1>2. /\ p.count \in Nat /\ p.entrySize \in Nat /\ b.count \in Nat /\ b.entrySize \in Nat
        /\ p.entriesLba \in Nat /\ b.entriesLba \in Nat
        /\ p.firstUsable \in Nat /\ p.lastUsable \in Nat /\ b.firstUsable \in Nat /\ b.lastUsable \in Nat
    BY <1>1, HeaderType, SMTT(30)
  <1>3. pb \in Nat /\ bb \in Nat
    BY <1>2 DEF ArrayBytes
  <1>4. pb > 0 /\ bb > 0
    <2>1. /\ p.count > 0 /\ p.entrySize >= 128 /\ b.count > 0 /\ b.entrySize >= 128
      BY <1>2 DEF _header, _check_header_geometry
    <2>2. \A m, n \in Nat : m > 0 /\ n >= 128 => m * n > 0
      OBVIOUS
    <2>. QED BY <1>2, <2>1, <2>2, Zenon DEF ArrayBytes
  <1>5. /\ LastLba \in Int /\ (LastLba + 1) * sector = disk.size /\ LastLba >= 2
    <2>1. CASE sector = 512 BY <1>1, <2>1 DEF LastLba, SectorFits
    <2>2. CASE sector = 4096 BY <1>1, <2>2 DEF LastLba, SectorFits
    <2>. QED BY <1>1, <2>1, <2>2
  <1>6. /\ (pb + sector - 1) \div sector \in Nat /\ pb <= ((pb + sector - 1) \div sector) * sector
        /\ (bb + sector - 1) \div sector \in Nat /\ bb <= ((bb + sector - 1) \div sector) * sector
    BY <1>1, <1>3, Sectors
  <1>7. /\ p.entriesLba >= 2 /\ ArrayLastLba(p) < p.firstUsable
        /\ ArrayLastLba(b) < LastLba /\ b.entriesLba > b.lastUsable
        /\ p.firstUsable <= p.lastUsable
    BY DEF _header, _check_array_location, _check_header_geometry
  <1> HIDE DEF p, b, pb, bb
  <1>8. /\ 2 * sector <= p.entriesLba * sector
        /\ p.entriesLba * sector + pb <= p.firstUsable * sector
        /\ (b.lastUsable + 1) * sector <= b.entriesLba * sector
        /\ b.entriesLba * sector + bb <= LastLba * sector
    <2>1. /\ p.entriesLba + (pb + sector - 1) \div sector - 1 < p.firstUsable
          /\ b.entriesLba + (bb + sector - 1) \div sector - 1 < LastLba
      BY <1>7, Zenon DEF ArrayLastLba, pb, bb
    <2>2. CASE sector = 512 BY <1>2, <1>3, <1>5, <1>6, <1>7, <2>1, <2>2
    <2>3. CASE sector = 4096 BY <1>2, <1>3, <1>5, <1>6, <1>7, <2>1, <2>3
    <2>. QED BY <1>1, <2>2, <2>3
  <1>. QED BY <1>4, <1>5, <1>7, <1>8, Zenon DEF TableFits, ArrayOffset, p, b, pb, bb

\* The parts of a table that fits are apart, in the order of Patches, on the disk.
LEMMA PatchesInOrder ==
    ASSUME disk \in Disks, TableFits
    PROVE  /\ \A p \in 1..4 : /\ Patches[p].offset \in Nat /\ Patches[p].size \in Nat /\ Patches[p].size > 0
                              /\ Patches[p].offset + Patches[p].size <= disk.size
           /\ \A p, q \in 1..4 : p < q => Patches[p].offset + Patches[p].size <= Patches[q].offset
PROOF
  <1> DEFINE po == ArrayOffset(disk.primary)
             pb == ArrayBytes(disk.primary)
             bo == ArrayOffset(disk.backup)
             bb == ArrayBytes(disk.backup)
             fu == disk.primary.firstUsable * sector
             lu == (disk.primary.lastUsable + 1) * sector
             ll == LastLba * sector
  <1>1. /\ disk.size \in Nat /\ sector \in {512, 4096}
        /\ po \in Nat /\ pb \in Nat /\ bo \in Nat /\ bb \in Nat /\ fu \in Nat /\ lu \in Nat /\ ll \in Int
    <2>1. disk.size \in Nat /\ disk.primary \in Header /\ disk.backup \in Header /\ sector \in {512, 4096}
      BY DiskType DEF TableFits, SectorFits
    <2>2. disk.size \div sector \in Nat
      BY <2>1, Sectors
    <2>3. /\ disk.primary.count \in Nat /\ disk.primary.entrySize \in Nat /\ disk.primary.entriesLba \in Nat
          /\ disk.primary.firstUsable \in Nat /\ disk.primary.lastUsable \in Nat
          /\ disk.backup.count \in Nat /\ disk.backup.entrySize \in Nat /\ disk.backup.entriesLba \in Nat
      BY <2>1, HeaderType
    <2>. QED BY <2>1, <2>2, <2>3 DEF ArrayOffset, ArrayBytes, LastLba
  <1>2. /\ 2 * sector <= po /\ pb > 0 /\ bb > 0 /\ po + pb <= fu /\ fu <= lu /\ lu <= bo /\ bo + bb <= ll
        /\ ll + sector = disk.size
    <2>1. /\ disk.primary.firstUsable \in Nat /\ disk.primary.lastUsable \in Nat /\ LastLba \in Int
      <3>1. disk.size \in Nat /\ disk.primary \in Header /\ sector \in {512, 4096}
        BY DiskType DEF TableFits, SectorFits
      <3>2. disk.size \div sector \in Nat
        BY <3>1, Sectors
      <3>3. disk.primary.firstUsable \in Nat /\ disk.primary.lastUsable \in Nat
        BY <3>1, HeaderType
      <3>. QED BY <3>2, <3>3 DEF LastLba
    <2>2. CASE sector = 512 BY <1>1, <2>1, <2>2 DEF TableFits
    <2>3. CASE sector = 4096 BY <1>1, <2>1, <2>3 DEF TableFits
    <2>. QED BY <1>1, <2>2, <2>3
  <1>3. /\ Patches[1] = [offset |-> sector, size |-> sector] /\ Patches[2] = [offset |-> po, size |-> pb]
        /\ Patches[3] = [offset |-> bo, size |-> bb] /\ Patches[4] = [offset |-> ll, size |-> sector]
    BY DEF Patches, Patch
  <1> HIDE DEF po, pb, bo, bb, fu, lu, ll
  <1>4. \A p \in 1..4 : p = 1 \/ p = 2 \/ p = 3 \/ p = 4
    OBVIOUS
  <1>. QED BY <1>1, <1>2, <1>3, <1>4

\* The invariant has the property: disjoint ranges of sectors, for entries and
\* for the table, are disjoint ranges of bytes.
LEMMA DiskInvImplies == DiskInv => DiskIsUnambiguous
PROOF
  <1> SUFFICES ASSUME DiskInv PROVE DiskIsUnambiguous
    OBVIOUS
  <1>1. HashNeverFails
    BY DEF DiskInv, TypeInv, States, Found, HashNeverFails
  <1>2. ASSUME NEW i \in DOMAIN partitions
        PROVE  /\ partitions[i].first <= partitions[i].last
               /\ partitions[i].start + partitions[i].size <= disk.size
               /\ \A j \in DOMAIN partitions : i # j => Apart(Extent(i), Extent(j))
               /\ \A p \in 1..4 : Apart(Extent(i), Patches[p])
    <2>1. TableFits /\ disk \in Disks
      BY <1>2 DEF DiskInv, TableInv, TypeInv
    <2>2. /\ disk.size \in Nat /\ sector \in {512, 4096}
          /\ disk.primary.firstUsable \in Nat /\ disk.primary.lastUsable \in Nat
      BY <2>1, DiskType, HeaderType DEF TableFits, SectorFits
    <2>3. \A j \in DOMAIN partitions :
            /\ partitions[j].first \in Nat /\ partitions[j].last \in Nat
            /\ partitions[j].start = partitions[j].first * sector
            /\ partitions[j].start + partitions[j].size = (partitions[j].last + 1) * sector
      <3> TAKE j \in DOMAIN partitions
      <3>1. partitions[j] \in Partition
        BY DEF DiskInv, TypeInv
      <3>2. partitions[j].first \in Nat /\ partitions[j].last \in Nat
        BY <3>1 DEF Partition
      <3>3. /\ partitions[j].start = partitions[j].first * sector
            /\ partitions[j].size = (partitions[j].last - partitions[j].first + 1) * sector
        BY DEF DiskInv, EntriesInv
      <3>4. CASE sector = 512 BY <3>2, <3>3, <3>4
      <3>5. CASE sector = 4096 BY <3>2, <3>3, <3>5
      <3>. QED BY <2>2, <3>2, <3>3, <3>4, <3>5
    <2>4. /\ disk.primary.firstUsable <= partitions[i].first /\ partitions[i].first <= partitions[i].last
          /\ partitions[i].last <= disk.primary.lastUsable
      BY <1>2, Zenon DEF DiskInv, EntriesInv
    <2>5. /\ disk.primary.firstUsable * sector <= partitions[i].start
          /\ partitions[i].start + partitions[i].size <= (disk.primary.lastUsable + 1) * sector
      <3>1. CASE sector = 512 BY <1>2, <2>2, <2>3, <2>4, <3>1
      <3>2. CASE sector = 4096 BY <1>2, <2>2, <2>3, <2>4, <3>2
      <3>. QED BY <2>2, <3>1, <3>2
    <2>6. partitions[i].start \in Nat /\ partitions[i].size \in Nat
      <3>1. partitions[i] \in Partition
        BY <1>2 DEF DiskInv, TypeInv
      <3>. QED BY <3>1 DEF Partition
    <2>7. /\ Patches[2].offset + Patches[2].size <= disk.primary.firstUsable * sector
          /\ (disk.primary.lastUsable + 1) * sector <= Patches[3].offset
      BY <2>1, Zenon DEF TableFits, Patches, Patch
    <2>8. /\ \A p \in {1, 2} : Patches[p].offset + Patches[p].size <= partitions[i].start
          /\ \A p \in {3, 4} : partitions[i].start + partitions[i].size <= Patches[p].offset
      <3>1. /\ \A p \in 1..4 : Patches[p].offset \in Nat /\ Patches[p].size \in Nat
            /\ Patches[1].offset + Patches[1].size <= Patches[2].offset
            /\ Patches[3].offset + Patches[3].size <= Patches[4].offset
        BY <2>1, PatchesInOrder
      <3>2. /\ disk.primary.firstUsable * sector \in Nat /\ (disk.primary.lastUsable + 1) * sector \in Nat
        BY <2>2
      <3>. QED BY <2>5, <2>6, <2>7, <3>1, <3>2
    <2>9. \A p \in 1..4 : Apart(Extent(i), Patches[p])
      BY <2>8 DEF Apart, Extent, Patch
    <2>10. partitions[i].start + partitions[i].size <= disk.size
      <3>1. /\ Patches[4].offset \in Nat /\ Patches[4].size \in Nat
            /\ Patches[4].offset + Patches[4].size <= disk.size
        BY <2>1, PatchesInOrder
      <3>. QED BY <2>2, <2>6, <2>8, <3>1
    <2>11. \A j \in DOMAIN partitions : i # j => Apart(Extent(i), Extent(j))
      <3> SUFFICES ASSUME NEW j \in DOMAIN partitions, i # j PROVE Apart(Extent(i), Extent(j))
        OBVIOUS
      <3>1. i \in Nat /\ j \in Nat
        BY <1>2 DEF DiskInv, TypeInv
      <3>2. partitions[i].last < partitions[j].first \/ partitions[j].last < partitions[i].first
        BY <1>2, <3>1 DEF DiskInv, EntriesInv
      <3>3. \/ partitions[i].start + partitions[i].size <= partitions[j].start
            \/ partitions[j].start + partitions[j].size <= partitions[i].start
        <4>1. CASE sector = 512 BY <1>2, <2>3, <3>2, <4>1
        <4>2. CASE sector = 4096 BY <1>2, <2>3, <3>2, <4>2
        <4>. QED BY <2>2, <4>1, <4>2
      <3>. QED BY <3>3, Zenon DEF Apart, Extent, Patch
    <2>. QED BY Zenon, <2>4, <2>9, <2>10, <2>11
  <1>3. PartitionsApart
    BY <1>2 DEF PartitionsApart
  <1>. QED BY <1>1, <1>3 DEF DiskIsUnambiguous

\* It holds before the table is read.
LEMMA DiskInitInv == PartitionInit => DiskInv
PROOF BY DEF PartitionInit, DiskInv, TypeInv, HeadersInv, TableInv, ScanInv, EntriesInv, HashInv, States, Found

\* The arithmetic of the table is that of the disk and the sector size alone.
LEMMA SameTable ==
    ASSUME UNCHANGED <<disk, sector>>
    PROVE  /\ TableFits' = TableFits /\ SectorFits' = SectorFits /\ Patches' = Patches /\ LastLba' = LastLba
           /\ _header(disk.primary, 1, LastLba)' = _header(disk.primary, 1, LastLba)
           /\ _header(disk.backup, LastLba, 1)' = _header(disk.backup, LastLba, 1)
PROOF
  <1>1. LastLba' = LastLba
    BY Zenon DEF LastLba
  <1>2. SectorFits' = SectorFits
    BY DEF SectorFits
  <1>3. TableFits' = TableFits
    BY <1>1, <1>2, Zenon DEF TableFits, ArrayOffset, ArrayBytes
  <1>4. Patches' = Patches
    BY <1>1, Zenon DEF Patches, Patch, ArrayOffset, ArrayBytes
  <1>5. _header(disk.primary, 1, LastLba)' = _header(disk.primary, 1, LastLba)
    BY <1>1 DEF _header, _read_exact, _check_header_bytes, _check_header_geometry, _check_array_location,
                ArrayOffset, ArrayBytes, ArrayLastLba
  <1>6. _header(disk.backup, LastLba, 1)' = _header(disk.backup, LastLba, 1)
    BY <1>1 DEF _header, _read_exact, _check_header_bytes, _check_header_geometry, _check_array_location,
                ArrayOffset, ArrayBytes, ArrayLastLba
  <1>. QED BY <1>1, <1>2, <1>3, <1>4, <1>5, <1>6, Zenon

\* A step that finds no partition keeps what is known of those found before.
LEMMA MoveInv ==
    ASSUME DiskInv, UNCHANGED <<disk, sector, partitions, pending, cursor>>, at' \in States, slot' \in Nat,
           HeadersInv', at' \in Found => TableFits', ScanInv', HashInv'
    PROVE  DiskInv'
PROOF
  <1>1. TypeInv'
    BY DEF DiskInv, TypeInv
  <1>2. EntriesInv'
    BY DEF DiskInv, EntriesInv
  <1>3. TableInv'
    BY SameTable, Zenon DEF DiskInv, TableInv
  <1>. QED BY <1>1, <1>2, <1>3, Zenon DEF DiskInv

\* A rejected disk keeps what was found.
LEMMA RejectInv == DiskInv /\ Reject => DiskInv'
PROOF
  <1> SUFFICES ASSUME DiskInv, Reject PROVE DiskInv'
    OBVIOUS
  <1>1. /\ at' = "invalid" /\ slot' = slot /\ UNCHANGED <<disk, sector, partitions, pending, cursor>>
        /\ at' \in States /\ slot \in Nat /\ at' \notin Found
    BY DEF Reject, States, Found, DiskInv, TypeInv
  <1>. QED BY <1>1, MoveInv, Zenon DEF HeadersInv, ScanInv, HashInv

\* An entry that is accepted is in the usable range and apart from the ones before it.
LEMMA ScanEntryInv == DiskInv /\ ScanEntry => DiskInv'
PROOF
  <1> SUFFICES ASSUME DiskInv, ScanEntry PROVE DiskInv'
    OBVIOUS
  <1> DEFINE e == disk.primary.array[slot]
             new == Projected(e, slot)
  <1>1. /\ at = "scan" /\ slot \in Nat /\ slot > 0 /\ slot <= disk.primary.count /\ disk \in Disks
        /\ TableFits /\ partitions \in Seq(Partition)
    BY DEF DiskInv, TypeInv, TableInv, ScanInv, ScanEntry, Found
  <1>2. e \in Entry /\ sector \in {512, 4096}
    <2>1. disk.primary.array \in Seq(Entry) /\ disk.primary.count = Len(disk.primary.array)
      BY Zenon, <1>1, DiskType, HeaderType
    <2>. QED BY <1>1, <2>1 DEF TableFits, SectorFits
  <1>3. CASE Reject
    BY <1>3, RejectInv
  <1>4. CASE slot' = slot + 1 /\ UNCHANGED <<disk, at, sector, partitions, pending, cursor>>
    <2>1. slot' \in Nat /\ slot' > 0
      BY <1>1, <1>4
    <2>2. TableFits' /\ at' \in States
      BY <1>1, <1>4, SameTable DEF DiskInv, TypeInv
    <2>3. HeadersInv' /\ ScanInv' /\ HashInv'
      BY <1>1, <1>4, <2>1 DEF HeadersInv, ScanInv, HashInv
    <2>. QED BY <1>4, <2>1, <2>2, <2>3, MoveInv, Zenon
  <1>5. CASE /\ _check_entry_range(e) /\ slot' = slot + 1 /\ partitions' = Append(partitions, new)
             /\ UNCHANGED <<disk, at, sector, pending, cursor>>
    <2>1. e.first \in Nat /\ e.last \in Nat /\ e.label \in STRING /\ e.type \in STRING /\ e.uuid \in STRING
      BY <1>2 DEF Entry
    <2>2. e.first <= e.last /\ disk.primary.firstUsable <= e.first /\ e.last <= disk.primary.lastUsable
      BY <1>5, Zenon DEF _check_entry_range
    <2>3. e.first * sector \in Nat /\ (e.last - e.first + 1) * sector \in Nat
      <3>1. CASE sector = 512 BY <2>1, <2>2, <3>1
      <3>2. CASE sector = 4096 BY <2>1, <2>2, <3>2
      <3>. QED BY <1>2, <3>1, <3>2
    <2>4. new \in Partition
      BY <1>1, <2>1, <2>3, Zenon DEF Projected, Partition
    <2>5. /\ new.first = e.first /\ new.last = e.last /\ new.start = e.first * sector
          /\ new.size = (e.last - e.first + 1) * sector
      BY Zenon DEF Projected
    <2>6. /\ partitions' \in Seq(Partition) /\ Len(partitions') = Len(partitions) + 1
          /\ \A i \in DOMAIN partitions : partitions'[i] = partitions[i]
          /\ partitions'[Len(partitions) + 1] = new
          /\ DOMAIN partitions' = 1..(Len(partitions) + 1) /\ DOMAIN partitions = 1..Len(partitions)
          /\ Len(partitions) \in Nat
      <3> HIDE DEF new
      <3>. QED BY <1>1, <1>5, <2>4
    <2>7. TypeInv' /\ HeadersInv' /\ TableInv' /\ ScanInv' /\ HashInv'
      BY <1>1, <1>5, <2>6, SameTable DEF DiskInv, TypeInv, HeadersInv, TableInv, ScanInv, HashInv, States, Found
    <2>8. \A i \in DOMAIN partitions : partitions[i].first \in Nat /\ partitions[i].last \in Nat
                                       /\ partitions[i].first <= partitions[i].last
      <3> TAKE i \in DOMAIN partitions
      <3>1. partitions[i] \in Partition
        BY <1>1
      <3>. QED BY <3>1, Zenon DEF Partition, DiskInv, EntriesInv
    <2>9. \A i \in DOMAIN partitions : partitions[i].last < e.first
      <3> SUFFICES ASSUME NEW i \in DOMAIN partitions PROVE partitions[i].last < e.first
        OBVIOUS
      <3>1. /\ partitions # <<>> /\ Len(partitions) \in DOMAIN partitions
            /\ i = Len(partitions) \/ i < Len(partitions)
        BY <2>6
      <3>2. partitions[Len(partitions)].last < e.first
        BY <1>5, <3>1, Zenon DEF _check_entry_range
      <3>3. i < Len(partitions) => partitions[i].last < partitions[Len(partitions)].first
        BY <3>1, Zenon DEF DiskInv, EntriesInv
      <3> HIDE DEF e
      <3>. QED BY <2>1, <2>8, <3>1, <3>2, <3>3
    <2>10. EntriesInv'
      <3> HIDE DEF e, new
      <3>1. \A i \in DOMAIN partitions' : i \in DOMAIN partitions \/ i = Len(partitions) + 1
        BY <2>6
      <3>2. \A i \in DOMAIN partitions' :
              /\ disk.primary.firstUsable <= partitions'[i].first /\ partitions'[i].first <= partitions'[i].last
              /\ partitions'[i].last <= disk.primary.lastUsable
              /\ partitions'[i].start = partitions'[i].first * sector
              /\ partitions'[i].size = (partitions'[i].last - partitions'[i].first + 1) * sector
        BY <2>2, <2>5, <2>6, <3>1, Zenon DEF DiskInv, EntriesInv
      <3>3. \A i, j \in DOMAIN partitions' : i < j => partitions'[i].last < partitions'[j].first
        <4> SUFFICES ASSUME NEW i \in DOMAIN partitions', NEW j \in DOMAIN partitions', i < j
                     PROVE  partitions'[i].last < partitions'[j].first
          OBVIOUS
        <4>1. i \in DOMAIN partitions
          BY <2>6
        <4>2. CASE j \in DOMAIN partitions
          BY <2>6, <4>1, <4>2, Zenon DEF DiskInv, EntriesInv
        <4>3. CASE j = Len(partitions) + 1
          BY Zenon, <2>5, <2>6, <2>9, <4>1, <4>3
        <4>. QED BY Zenon, <3>1, <4>2, <4>3
      <3>. QED BY <1>5, <3>2, <3>3, Zenon DEF EntriesInv
    <2>. QED BY <2>7, <2>10 DEF DiskInv
  <1>. QED BY <1>3, <1>4, <1>5, Zenon DEF ScanEntry

\* Each patch of the hash begins at or after the end of the one before it.
LEMMA HashPatchInv == DiskInv /\ HashPatch => DiskInv'
PROOF
  <1> SUFFICES ASSUME DiskInv, HashPatch PROVE DiskInv'
    OBVIOUS
  <1>1. /\ at = "hash" /\ TableFits /\ disk \in Disks /\ pending \in SUBSET (1..4) /\ cursor \in Nat
        /\ UNCHANGED <<disk, sector, slot, partitions>>
    BY DEF DiskInv, TypeInv, TableInv, HashPatch, Found
  <1> USE <1>1
  <1>2. PICK p \in pending :
          /\ \A q \in pending : Patches[p].offset <= Patches[q].offset
          /\ IF Patches[p].offset < cursor THEN at' = "overlap" /\ UNCHANGED <<pending, cursor>>
             ELSE cursor' = Patches[p].offset + Patches[p].size /\ pending' = pending \ {p} /\ UNCHANGED at
    BY Zenon DEF HashPatch
  <1>3. /\ Patches[p].offset \in Nat /\ Patches[p].size \in Nat /\ Patches[p].size > 0
        /\ Patches[p].offset + Patches[p].size <= disk.size
    BY Zenon, PatchesInOrder
  <1>4. cursor <= Patches[p].offset
    BY DEF DiskInv, HashInv
  <1>5. cursor' = Patches[p].offset + Patches[p].size /\ pending' = pending \ {p} /\ UNCHANGED at
    BY <1>2, <1>3, <1>4
  <1>6. \A q \in pending \ {p} : Patches[p].offset + Patches[p].size <= Patches[q].offset
    <2> SUFFICES ASSUME NEW q \in pending, q # p
                 PROVE  Patches[p].offset + Patches[p].size <= Patches[q].offset
      OBVIOUS
    <2>1. /\ Patches[q].offset \in Nat /\ Patches[q].size \in Nat /\ Patches[q].size > 0
          /\ p < q => Patches[p].offset + Patches[p].size <= Patches[q].offset
          /\ q < p => Patches[q].offset + Patches[q].size <= Patches[p].offset
      BY Zenon, PatchesInOrder
    <2>2. p < q \/ q < p
      OBVIOUS
    <2>. QED BY <1>2, <1>3, <2>1, <2>2
  <1>7. HashInv'
    BY <1>3, <1>5, <1>6, SameTable, Zenon DEF HashInv
  <1>8. TypeInv' /\ TableInv'
    BY <1>3, <1>5, SameTable DEF DiskInv, TypeInv, TableInv
  <1>9. EntriesInv'
    BY DEF DiskInv, EntriesInv
  <1>10. HeadersInv' /\ ScanInv'
    BY <1>5 DEF HeadersInv, ScanInv
  <1>. QED BY <1>7, <1>8, <1>9, <1>10, Zenon DEF DiskInv

\* Every step keeps the invariant.
LEMMA DiskNextInv == DiskInv /\ [PartitionNext]_diskVars => DiskInv'
PROOF
  <1> SUFFICES ASSUME DiskInv, [PartitionNext]_diskVars PROVE DiskInv'
    OBVIOUS
  <1>0. slot \in Nat
    BY DEF DiskInv, TypeInv
  <1>1. CASE _sector_size
    <2>1. CASE Reject BY <2>1, RejectInv
    <2>2. CASE sector' \in Candidates /\ at' = "primary" /\ UNCHANGED <<disk, slot, partitions, pending, cursor>>
      BY <1>1, <2>2 DEF _sector_size, Candidates, DiskInv, TypeInv, HeadersInv, TableInv, ScanInv, EntriesInv, HashInv,
                        States, Found, SectorFits
    <2>. QED BY <1>1, <2>1, <2>2, Zenon DEF _sector_size, Goto
  <1>2. CASE ReadPrimary
    <2>1. CASE Reject BY <2>1, RejectInv
    <2>2. CASE /\ _header(disk.primary, 1, LastLba) /\ at' = "backup"
               /\ UNCHANGED <<disk, sector, slot, partitions, pending, cursor>>
      <3>1. at = "primary" /\ at' \in States /\ at' \notin Found
        BY <1>2, <2>2 DEF ReadPrimary, States, Found
      <3>2. HeadersInv' /\ ScanInv' /\ HashInv'
        BY <2>2, <3>1, SameTable, Zenon DEF DiskInv, HeadersInv, ScanInv, HashInv
      <3>. QED BY <1>0, <2>2, <3>1, <3>2, MoveInv, Zenon
    <2>. QED BY <1>2, <2>1, <2>2, Zenon DEF ReadPrimary, Goto
  <1>3. CASE ReadBackup
    <2>1. CASE Reject BY <2>1, RejectInv
    <2>2. CASE /\ _header(disk.backup, LastLba, 1) /\ at' = "compare"
               /\ UNCHANGED <<disk, sector, slot, partitions, pending, cursor>>
      <3>1. at = "backup" /\ at' \in States /\ at' \notin Found
        BY <1>3, <2>2 DEF ReadBackup, States, Found
      <3>2. HeadersInv' /\ ScanInv' /\ HashInv'
        BY <2>2, <3>1, SameTable, Zenon DEF DiskInv, HeadersInv, ScanInv, HashInv
      <3>. QED BY <1>0, <2>2, <3>1, <3>2, MoveInv, Zenon
    <2>. QED BY <1>3, <2>1, <2>2, Zenon DEF ReadBackup, Goto
  <1>4. CASE _validated_gpt
    <2>1. CASE Reject BY <2>1, RejectInv
    <2>2. CASE /\ disk.primary.firstUsable = disk.backup.firstUsable
               /\ disk.primary.lastUsable = disk.backup.lastUsable
               /\ at' = "scan" /\ slot' = 1 /\ UNCHANGED <<disk, sector, partitions, pending, cursor>>
      <3>1. TableFits
        BY <1>4, <2>2, HeadersFit DEF _validated_gpt, DiskInv, TypeInv, HeadersInv
      <3>2. at' \in States /\ slot' \in Nat /\ ScanInv'
        BY <2>2 DEF States, Found, ScanInv
      <3>3. HeadersInv' /\ HashInv'
        BY <2>2 DEF HeadersInv, HashInv
      <3>. QED BY <2>2, <3>1, <3>2, <3>3, SameTable, MoveInv, Zenon
    <2>. QED BY <1>4, <2>1, <2>2, Zenon DEF _validated_gpt, Goto
  <1>5. CASE ScanEntry BY <1>5, ScanEntryInv
  <1>6. CASE Project
    <2>1. CASE Reject BY <2>1, RejectInv
    <2>2. CASE at' = "projected" /\ UNCHANGED <<disk, sector, slot, partitions, pending, cursor>>
      <3>1. at = "scan" /\ at' \in States /\ at \in Found
        BY <1>6, <2>2 DEF Project, States, Found
      <3>2. TableFits'
        BY <2>2, <3>1, SameTable, Zenon DEF DiskInv, TableInv
      <3>3. HeadersInv' /\ ScanInv' /\ HashInv'
        BY <2>2 DEF HeadersInv, ScanInv, HashInv
      <3>. QED BY <1>0, <2>2, <3>1, <3>2, <3>3, MoveInv, Zenon
    <2>. QED BY <1>6, <2>1, <2>2, Zenon DEF Project, Goto
  <1>7. CASE canonical_image_sha256
    <2>1. TableFits /\ disk \in Disks
      BY <1>7 DEF canonical_image_sha256, DiskInv, TypeInv, TableInv, Found
    <2>2. disk.size \in Nat /\ \A p \in 1..4 : Patches[p].offset \in Nat
      BY Zenon, <2>1, DiskType, PatchesInOrder
    <2>3. /\ at' = "hash" /\ at' \in States /\ cursor' = 0 /\ pending' = 1..4
          /\ UNCHANGED <<disk, sector, slot, partitions>>
      BY <1>7 DEF canonical_image_sha256, Goto, States, Found
    <2>4. TypeInv' /\ TableInv'
      BY <2>1, <2>3, SameTable DEF DiskInv, TypeInv, TableInv
    <2>5. EntriesInv'
      BY <2>3 DEF DiskInv, EntriesInv
    <2>6. HeadersInv' /\ ScanInv'
      BY <2>3 DEF HeadersInv, ScanInv
    <2>7. HashInv'
      BY <2>2, <2>3, SameTable DEF HashInv
    <2>. QED BY <2>4, <2>5, <2>6, <2>7, Zenon DEF DiskInv
  <1>8. CASE HashPatch BY <1>8, HashPatchInv
  <1>9. CASE HashRest
    <2>1. cursor <= disk.size /\ disk.size \in Nat
      BY <1>9, DiskType DEF HashRest, DiskInv, TypeInv, HashInv
    <2>2. at = "hash" /\ at' = "hashed" /\ at' \in States /\ at \in Found /\ UNCHANGED <<disk, sector, slot, partitions>>
          /\ cursor' \in Nat /\ UNCHANGED pending
      BY <1>9, <2>1 DEF HashRest, Goto, States, Found
    <2>3. TypeInv' /\ TableInv'
      BY <2>2, SameTable DEF DiskInv, TypeInv, TableInv
    <2>4. EntriesInv'
      BY <2>2 DEF DiskInv, EntriesInv
    <2>. QED BY <2>2, <2>3, <2>4, Zenon DEF DiskInv, HeadersInv, ScanInv, HashInv
  <1>10. CASE UNCHANGED diskVars
    BY <1>10, SameTable DEF diskVars, DiskInv, TypeInv, HeadersInv, TableInv, ScanInv, EntriesInv, HashInv
  <1>. QED BY <1>1, <1>2, <1>3, <1>4, <1>5, <1>6, <1>7, <1>8, <1>9, <1>10, Zenon DEF PartitionNext

\* Whatever disk is read, and however far its reader has come, partitions that
\* were found are on the disk, apart from each other and from both copies of
\* the table, and neither error of _hash_with_patches can happen.
THEOREM DiskUnambiguous == PartitionSpec => []DiskIsUnambiguous
PROOF
  <1>. QED BY DiskInitInv, DiskNextInv, DiskInvImplies, PTL DEF PartitionSpec

-----------------------------------------------------------------------------
(***************************************************************************)
(* The system partition.  The arithmetic is about one file system whose    *)
(* boot sector was accepted; the invariant counts clusters.                *)
(***************************************************************************)
\* A chain has no cluster twice and claimed clusters are not claimed again,
\* so what is left suffices for the clusters that are not claimed yet.
EspInv ==
    /\ disk \in Disks /\ volume.boot \in Boot /\ esp.size \in Nat
    /\ reader \in {"start", "boot", "invalid", "missing"} \cup Opened
    /\ reader \in {"start", "boot"} => visited = {} /\ claimed = {} /\ chain = <<>> /\ atRoot = "yes"
    /\ reader \in Opened =>
         /\ _geometry /\ FatIsLargeEnough
         /\ visited \subseteq 2..LastCluster /\ claimed \subseteq 2..LastCluster
         /\ chain \in Seq(Int) /\ Len(chain) = Cardinality(visited)
         /\ FixedRoot => visited = {} /\ reader # "chain"
         /\ atRoot = "yes" /\ reader # "listed" => remaining = esp.size /\ claimed = {}
         /\ remaining \in Int
         /\ remaining >= esp.size - RootBytes - ClusterBytes * Cardinality(claimed)

\* The numbers of a boot sector.
LEMMA BootType ==
    ASSUME volume.boot \in Boot
    PROVE  /\ boot.sector \in Nat /\ boot.perCluster \in Nat /\ boot.reserved \in Nat /\ boot.fats \in Nat
           /\ boot.fatSize16 \in Nat /\ boot.fatSize32 \in Nat /\ boot.rootEntries \in Nat
           /\ boot.total16 \in Nat /\ boot.total32 \in Nat
PROOF
  BY DEF Boot, boot

Sizes == {512, 1024, 2048, 4096, 8192, 16384, 32768, 65536, 131072, 262144, 524288}

\* What is divided by the size of a sector or of a cluster.
LEMMA Division ==
    ASSUME NEW m \in Nat, NEW c \in Sizes
    PROVE  /\ m \div c \in Nat /\ c * (m \div c) <= m
           /\ m <= ((m + c - 1) \div c) * c /\ (m + c - 1) \div c \in Nat
PROOF
  <1>1. CASE c = 512 BY <1>1, SMTT(20)
  <1>2. CASE c = 1024 BY <1>2, SMTT(20)
  <1>3. CASE c = 2048 BY <1>3, SMTT(20)
  <1>4. CASE c = 4096 BY <1>4, SMTT(20)
  <1>5. CASE c = 8192 BY <1>5, SMTT(20)
  <1>6. CASE c = 16384 BY <1>6, SMTT(20)
  <1>7. CASE c = 32768 BY <1>7, SMTT(20)
  <1>8. CASE c = 65536 BY <1>8, SMTT(20)
  <1>9. CASE c = 131072 BY <1>9, SMTT(20)
  <1>10. CASE c = 262144 BY <1>10, SMTT(20)
  <1>11. CASE c = 524288 BY <1>11, SMTT(20)
  <1>. QED BY <1>1, <1>2, <1>3, <1>4, <1>5, <1>6, <1>7, <1>8, <1>9, <1>10, <1>11, SMTT(30) DEF Sizes

\* Products of natural numbers.
LEMMA Products ==
    ASSUME NEW a \in Nat, NEW b \in Nat, NEW c \in Nat
    PROVE  /\ a * b \in Nat /\ c * (a + b) = c * a + c * b
           /\ (a <= b => c * a <= c * b) /\ (a > 0 => b <= a * b)
PROOF
  <1>1. a * b \in Nat /\ c * (a + b) = c * a + c * b
    OBVIOUS
  <1>2. ASSUME a <= b PROVE c * a <= c * b
    <2>1. b - a \in Nat /\ c * (b - a) \in Nat /\ c * (b - a) = c * b - c * a
      BY <1>2
    <2>. QED BY <2>1
  <1>3. ASSUME a > 0 PROVE b <= a * b
    <2>1. a - 1 \in Nat /\ (a - 1) * b \in Nat /\ (a - 1) * b = a * b - b
      BY <1>3
    <2>. QED BY <2>1
  <1>. QED BY Zenon, <1>1, <1>2, <1>3

\* The parts of a file system that is accepted lie one behind the other.
LEMMA Layout ==
    ASSUME volume.boot \in Boot, esp.size \in Nat, _geometry
    PROVE  /\ FatBytes \in Nat /\ FatOffset \in Nat /\ RootBytes \in Nat /\ RootOffset \in Nat
           /\ DataOffset \in Nat /\ ClusterBytes \in Nat /\ Clusters \in Nat /\ LastCluster = Clusters + 1
           /\ FatOffset + FatBytes <= RootOffset /\ RootOffset + RootBytes <= DataOffset
           /\ DataOffset + ClusterBytes * Clusters <= esp.size
PROOF
  <1>1. boot.sector \in Sizes /\ boot.sector \in Nat /\ boot.sector > 0
    BY BootType, SMTT(20) DEF _geometry, Sizes
  <1>2. ClusterBytes \in Sizes /\ ClusterBytes \in Nat
    <2>1. /\ boot.sector \in {512, 1024, 2048, 4096}
          /\ boot.perCluster \in {1, 2, 4, 8, 16, 32, 64, 128}
      BY DEF _geometry
    <2>2. CASE boot.sector = 512 BY <2>1, <2>2, SMTT(20) DEF ClusterBytes, Sizes
    <2>3. CASE boot.sector = 1024 BY <2>1, <2>3, SMTT(20) DEF ClusterBytes, Sizes
    <2>4. CASE boot.sector = 2048 BY <2>1, <2>4, SMTT(20) DEF ClusterBytes, Sizes
    <2>5. CASE boot.sector = 4096 BY <2>1, <2>5, SMTT(20) DEF ClusterBytes, Sizes
    <2>. QED BY <2>1, <2>2, <2>3, <2>4, <2>5, SMTT(30)
  <1>3. FatBytes \in Nat /\ FatOffset \in Nat /\ RootBytes \in Nat /\ Total \in Nat
    <2>1. (IF fat32 THEN boot.fatSize32 ELSE boot.fatSize16) \in Nat
          /\ (IF boot.total16 # 0 THEN boot.total16 ELSE boot.total32) \in Nat
      BY BootType
    <2>. QED BY <1>1, <2>1, BootType, Products, Zenon DEF FatBytes, FatOffset, RootBytes, Total
  <1>4. RootOffset \in Nat /\ FatOffset + FatBytes <= RootOffset
    <2>1. boot.fats \in Nat /\ boot.fats > 0
      BY BootType DEF _geometry
    <2>2. boot.fats * FatBytes \in Nat /\ FatBytes <= boot.fats * FatBytes
      BY Zenon, <1>3, <2>1, Products
    <2>. QED BY <1>3, <2>2 DEF RootOffset
  <1>5. DataOffset \in Nat /\ RootOffset + RootBytes <= DataOffset
    <2> DEFINE rounded == ((RootBytes + boot.sector - 1) \div boot.sector) * boot.sector
    <2>1. RootBytes <= rounded /\ (RootBytes + boot.sector - 1) \div boot.sector \in Nat
      BY <1>1, <1>3, Division, ZenonT(30)
    <2>2. rounded \in Nat
      BY Zenon, <1>1, <2>1, Products
    <2>3. DataOffset = RootOffset + rounded
      BY DEF DataOffset
    <2> HIDE DEF rounded
    <2>. QED BY <1>3, <1>4, <2>1, <2>2, <2>3, SMTT(30)
  <1>6. Clusters \in Nat /\ DataOffset + ClusterBytes * Clusters <= Total
    <2>1. Clusters # 0
      BY DEF _geometry
    <2>2. CASE Total > DataOffset
      <3>1. Total - DataOffset \in Nat /\ Clusters = (Total - DataOffset) \div ClusterBytes
        BY <1>3, <1>5, <2>2 DEF Clusters
      <3>2. Clusters \in Nat /\ ClusterBytes * Clusters <= Total - DataOffset
        BY Zenon, <1>2, <3>1, Division
      <3>3. ClusterBytes * Clusters \in Nat
        BY Zenon, <1>2, <3>2, Products
      <3>. QED BY <1>3, <1>5, <3>2, <3>3
    <2>3. CASE ~(Total > DataOffset)
      <3>1. Clusters = 0 \div ClusterBytes
        BY <2>3 DEF Clusters
      <3>2. Clusters \in Nat /\ ClusterBytes * Clusters <= 0
        BY Zenon, <1>2, <3>1, Division
      <3>3. ClusterBytes > 0
        BY <1>2, SMTT(20) DEF Sizes
      <3>4. Clusters <= ClusterBytes * Clusters /\ ClusterBytes * Clusters \in Nat
        BY Zenon, <1>2, <3>2, <3>3, Products
      <3>. QED BY <2>1, <3>2, <3>4
    <2>. QED BY Zenon, <2>2, <2>3
  <1>7. ClusterBytes * Clusters \in Nat
    BY Zenon, <1>2, <1>6, Products
  <1>8. Total <= esp.size
    BY DEF _geometry
  <1>. QED BY <1>2, <1>3, <1>4, <1>5, <1>6, <1>7, <1>8, SMTT(30) DEF LastCluster

\* Clusters that are a part of the partition fit it, however many they are.
LEMMA ClustersFit ==
    ASSUME volume.boot \in Boot, esp.size \in Nat, _geometry,
           NEW S, S \subseteq 2..LastCluster
    PROVE  /\ IsFiniteSet(S) /\ Cardinality(S) \in Nat /\ Cardinality(S) <= Clusters
           /\ ClusterBytes * Cardinality(S) \in Nat
           /\ RootBytes + ClusterBytes * Cardinality(S) <= esp.size
PROOF
  <1>1. /\ Clusters \in Nat /\ LastCluster = Clusters + 1 /\ ClusterBytes \in Nat
        /\ RootBytes \in Nat /\ DataOffset \in Nat /\ RootOffset \in Nat
        /\ RootOffset + RootBytes <= DataOffset /\ DataOffset + ClusterBytes * Clusters <= esp.size
    BY Layout
  <1>2. IsFiniteSet(2..LastCluster)
        /\ Cardinality(2..LastCluster) = IF 2 > LastCluster THEN 0 ELSE LastCluster - 2 + 1
    <2>1. LastCluster \in Int
      BY <1>1
    <2>2. \A a, b \in Int : IsFiniteSet(a..b) /\ Cardinality(a..b) = IF a > b THEN 0 ELSE b - a + 1
      BY Zenon, FS_Interval
    <2>. QED BY ONLY <2>1, <2>2
  <1>3. Cardinality(2..LastCluster) = Clusters
    BY <1>1, <1>2
  <1>4. IsFiniteSet(S) /\ Cardinality(S) <= Cardinality(2..LastCluster)
    BY <1>2, FS_Subset, Zenon
  <1>5. Cardinality(S) \in Nat
    BY Zenon, <1>4, FS_CardinalityType
  <1>6. ClusterBytes * Cardinality(S) \in Nat /\ ClusterBytes * Cardinality(S) <= ClusterBytes * Clusters
        /\ ClusterBytes * Clusters \in Nat
    BY Zenon, <1>1, <1>3, <1>4, <1>5, Products
  <1>. QED BY <1>1, <1>3, <1>4, <1>5, <1>6, SMTT(30)

\* Each value of the FAT and each cluster that is read is where it should be.
LEMMA VisitedFits ==
    ASSUME volume.boot \in Boot, esp.size \in Nat, _geometry, FatIsLargeEnough,
           NEW c \in 2..LastCluster
    PROVE  /\ FatIndex(c) + FatWidth <= FatBytes
           /\ DataOffset + (c - 1) * ClusterBytes <= esp.size
PROOF
  <1>1. /\ Clusters \in Nat /\ LastCluster = Clusters + 1 /\ ClusterBytes \in Nat /\ FatBytes \in Nat
        /\ DataOffset \in Nat /\ DataOffset + ClusterBytes * Clusters <= esp.size
    BY Layout
  <1>2. c \in Nat /\ c - 1 \in Nat /\ c - 1 <= Clusters /\ c <= LastCluster
    BY <1>1
  <1>3. FatIndex(c) + FatWidth <= FatBytes
    <2>1. Bits \in {12, 16, 32}
      BY DEF Bits
    <2>2. (LastCluster + 1) * Bits <= FatBytes * 8
      BY DEF FatIsLargeEnough
    <2>3. CASE Bits = 12
      <3>1. FatIndex(c) = (c * 3) \div 2 /\ FatWidth = 2
        BY <2>3 DEF FatIndex, FatWidth
      <3>2. (LastCluster + 1) * 12 <= FatBytes * 8
        BY <2>2, <2>3
      <3>. QED BY <1>1, <1>2, <3>1, <3>2
    <2>4. CASE Bits = 16
      <3>1. FatIndex(c) = c * 2 /\ FatWidth = 2
        BY <2>4 DEF FatIndex, FatWidth
      <3>2. (LastCluster + 1) * 16 <= FatBytes * 8
        BY <2>2, <2>4
      <3>. QED BY <1>1, <1>2, <3>1, <3>2
    <2>5. CASE Bits = 32
      <3>1. FatIndex(c) = c * 4 /\ FatWidth = 4
        BY <2>5 DEF FatIndex, FatWidth
      <3>2. (LastCluster + 1) * 32 <= FatBytes * 8
        BY <2>2, <2>5
      <3>. QED BY <1>1, <1>2, <3>1, <3>2
    <2>. QED BY Zenon, <2>1, <2>3, <2>4, <2>5
  <1>4. DataOffset + (c - 1) * ClusterBytes <= esp.size
    <2>1. ClusterBytes * (c - 1) <= ClusterBytes * Clusters /\ ClusterBytes * (c - 1) \in Nat
          /\ ClusterBytes * Clusters \in Nat
      BY Zenon, <1>1, <1>2, Products
    <2>2. (c - 1) * ClusterBytes = ClusterBytes * (c - 1)
      BY <1>1, <1>2
    <2>. QED BY <1>1, <2>1, <2>2
  <1>. QED BY Zenon, <1>3, <1>4

\* The invariant says that reading stays inside.
LEMMA EspInvImpliesInside == EspInv => EspIsInside
PROOF
  <1> SUFFICES ASSUME EspInv PROVE EspIsInside
    OBVIOUS
  <1>1. reader # "overdrawn"
    BY DEF EspInv, Opened
  <1>2. ASSUME reader \in Opened
        PROVE  /\ FatOffset + FatBytes <= esp.size /\ RootOffset + RootBytes <= esp.size
               /\ \A c \in visited : /\ FatIndex(c) + FatWidth <= FatBytes
                                     /\ DataOffset + (c - 1) * ClusterBytes <= esp.size
    <2>1. /\ volume.boot \in Boot /\ esp.size \in Nat /\ _geometry /\ FatIsLargeEnough
          /\ visited \subseteq 2..LastCluster
      BY <1>2, Zenon DEF EspInv
    <2>2. /\ FatBytes \in Nat /\ FatOffset \in Nat /\ RootBytes \in Nat /\ RootOffset \in Nat
          /\ DataOffset \in Nat /\ ClusterBytes \in Nat /\ Clusters \in Nat
          /\ FatOffset + FatBytes <= RootOffset /\ RootOffset + RootBytes <= DataOffset
          /\ DataOffset + ClusterBytes * Clusters <= esp.size
      BY Zenon, <2>1, Layout
    <2>3. ClusterBytes * Clusters \in Nat
      BY Zenon, <2>2, Products
    <2>4. FatOffset + FatBytes <= esp.size /\ RootOffset + RootBytes <= esp.size
      BY <2>1, <2>2, <2>3
    <2>. QED BY Zenon, <2>1, <2>4, VisitedFits
  <1>. QED BY <1>1, <1>2, Zenon DEF EspIsInside

\* What is derived from the boot sector and the partition stays with them.
LEMMA Frame ==
    ASSUME UNCHANGED <<volume, esp>>
    PROVE  /\ _geometry' = _geometry /\ FatIsLargeEnough' = FatIsLargeEnough /\ LastCluster' = LastCluster
           /\ RootBytes' = RootBytes /\ ClusterBytes' = ClusterBytes /\ fat32' = fat32
PROOF
  <1>1. boot' = boot /\ esp' = esp
    BY DEF boot
  <1> USE <1>1
  <1>2. fat32' = fat32 /\ FatOffset' = FatOffset /\ RootBytes' = RootBytes /\ ClusterBytes' = ClusterBytes
        /\ Total' = Total
    BY DEF fat32, FatOffset, RootBytes, ClusterBytes, Total
  <1> USE <1>2
  <1>3. FatBytes' = FatBytes
    BY DEF FatBytes
  <1>4. RootOffset' = RootOffset
    BY <1>3 DEF RootOffset
  <1>5. DataOffset' = DataOffset
    BY <1>4 DEF DataOffset
  <1>6. Clusters' = Clusters
    BY <1>5 DEF Clusters
  <1>7. LastCluster' = LastCluster /\ Bits' = Bits
    BY <1>6 DEF LastCluster, Bits
  <1>8. FatIsLargeEnough' = FatIsLargeEnough
    BY <1>3, <1>7, Zenon DEF FatIsLargeEnough
  <1>9. _geometry' = _geometry
    BY <1>3, <1>6 DEF _geometry
  <1>. QED BY Zenon, <1>2, <1>7, <1>8, <1>9

\* A reader that stops, and one that only moves, keep the invariant.
LEMMA StopsKeeps ==
    ASSUME EspInv, UNCHANGED diskVars, NEW how \in {"invalid", "missing"}, Stops(how)
    PROVE  EspInv'
PROOF
  <1>1. how \notin {"start", "boot"} \cup Opened
    BY DEF Opened
  <1>. QED BY <1>1, Zenon DEF EspInv, Stops, diskVars

\* A partition that is located has a size.
LEMMA FindKeeps == ASSUME EspInv, _find_esp, UNCHANGED diskVars PROVE EspInv'
PROOF
  <1>1. CASE Stops("invalid")
    BY <1>1, StopsKeeps
  <1>2. CASE ~Stops("invalid")
    <2>1. PICK s \in {0, 512, 4096}, i \in Esps :
            /\ esp' = Located(i, s) /\ Located(i, s).size > 0 /\ reader' = "boot" /\ reader = "start"
            /\ UNCHANGED <<volume, atRoot, here, cluster, chain, visited, stack, claimed, remaining, found>>
      <3>1. _gpt_sector_size \in {0, 512, 4096}
        BY DEF _gpt_sector_size
      <3>2. PICK i \in Esps : Esps = {i} /\ Located(i, _gpt_sector_size).size > 0
        BY <1>2, Zenon DEF _find_esp
      <3>3. (CHOOSE j \in Esps : TRUE) = i
        BY <3>2
      <3>. QED BY <1>2, <3>1, <3>2, <3>3 DEF _find_esp
    <2>2. disk.primary.array \in Seq(Entry) /\ i \in DOMAIN disk.primary.array
      <3>1. disk \in Disk
        BY DisksAreDisks DEF EspInv
      <3>2. disk.primary \in Header
        BY <3>1 DEF Disk
      <3>3. disk.primary.array \in Seq(Entry)
        BY <3>2 DEF Header
      <3>. QED BY <2>1, <3>3 DEF Esps
    <2>3. disk.primary.array[i] \in Entry
      BY <2>2
    <2>4. disk.primary.array[i].first \in Nat /\ disk.primary.array[i].last \in Nat
      BY <2>3 DEF Entry
    <2>5. Located(i, s).size \in Int
      BY <2>4 DEF Located
    <2>6. esp'.size \in Nat
      BY <2>1, <2>5
    <2>. QED BY <2>1, <2>6 DEF EspInv, diskVars, Opened
  <1>. QED BY <1>1, <1>2

\* A volume that is opened has clusters and nothing of it is claimed.
LEMMA OpenKeeps == ASSUME EspInv, OpenVolume, UNCHANGED diskVars PROVE EspInv'
PROOF
  <1>1. CASE Stops("invalid")
    BY <1>1, StopsKeeps
  <1>2. CASE ~Stops("invalid")
    <2>1. /\ _geometry /\ FatIsLargeEnough /\ remaining' = esp.size /\ reader' \in {"missing", "directory"}
          /\ reader = "boot"
          /\ UNCHANGED <<volume, esp, atRoot, here, cluster, chain, visited, stack, claimed, found>>
      BY <1>2 DEF OpenVolume
    <2>2. visited = {} /\ claimed = {} /\ chain = <<>> /\ atRoot = "yes" /\ volume.boot \in Boot /\ esp.size \in Nat
      BY <2>1, Zenon DEF EspInv
    <2>3. Cardinality({}) = 0
      BY FS_EmptySet
    <2>4. RootBytes \in Nat /\ ClusterBytes \in Nat
      BY Zenon, <2>1, <2>2, Layout
    <2>5. remaining' \in Int /\ remaining' >= esp.size - RootBytes - ClusterBytes * Cardinality({})
      BY <2>1, <2>2, <2>3, <2>4
    <2>6. chain \in Seq(Int) /\ Len(chain) = 0
      BY <2>2
    <2>. QED BY <2>1, <2>2, <2>3, <2>5, <2>6, Frame, Zenon DEF EspInv, diskVars, Opened
  <1>. QED BY <1>1, <1>2

\* A chain begins without clusters.
LEMMA DirectoryKeeps == ASSUME EspInv, OpenDirectory, UNCHANGED diskVars PROVE EspInv'
PROOF
  <1>1. /\ reader = "directory" /\ reader' \in {"entries", "chain"} /\ (FixedRoot => reader' = "entries")
        /\ chain' = <<>> /\ visited' = {}
        /\ UNCHANGED <<volume, esp, atRoot, here, stack, claimed, remaining, found>>
    BY DEF OpenDirectory
  <1>2. Cardinality({}) = 0 /\ chain' \in Seq(Int) /\ Len(chain') = 0
    BY <1>1, FS_EmptySet
  <1>. QED BY <1>1, <1>2, Frame, Zenon DEF EspInv, diskVars, Opened, FixedRoot

\* A cluster that was not visited makes the chain and the set longer by one.
LEMMA ChainKeeps == ASSUME EspInv, _chain, UNCHANGED diskVars PROVE EspInv'
PROOF
  <1>1. CASE Stops("invalid")
    BY <1>1, StopsKeeps
  <1>2. CASE ~Stops("invalid")
    <2>1. /\ reader = "chain" /\ cluster \in 2..LastCluster /\ cluster \notin visited
          /\ chain' = Append(chain, cluster) /\ visited' = visited \cup {cluster}
          /\ reader' \in {"chain", "content", "entries"}
          /\ UNCHANGED <<volume, esp, atRoot, here, stack, claimed, remaining, found>>
      BY <1>2, Zenon DEF _chain, Follow
    <2> USE <2>1
    <2>2. /\ volume.boot \in Boot /\ esp.size \in Nat /\ _geometry /\ visited \subseteq 2..LastCluster
          /\ chain \in Seq(Int) /\ Len(chain) = Cardinality(visited)
      BY Zenon DEF EspInv, Opened
    <2>3. IsFiniteSet(visited) /\ Cardinality(visited) \in Nat
      BY <2>2, ClustersFit, Zenon
    <2>4. Cardinality(visited') = Cardinality(visited) + 1
      BY Zenon, <2>3, FS_AddElement
    <2>5. chain' \in Seq(Int) /\ Len(chain') = Cardinality(visited')
      BY <2>2, <2>3, <2>4
    <2>6. visited' \subseteq 2..LastCluster
      BY <2>2
    <2>7. ~FixedRoot
      BY Zenon DEF EspInv
    <2>. QED BY <2>1, <2>5, <2>6, <2>7, Frame, Zenon DEF EspInv, diskVars, Opened, FixedRoot
  <1>. QED BY <1>1, <1>2

\* A file that is read is found, or refused.
LEMMA ReadKeeps == ASSUME EspInv, read_file, UNCHANGED diskVars PROVE EspInv'
PROOF
  <1>1. CASE Stops("invalid")
    BY <1>1, StopsKeeps
  <1>2. CASE ~Stops("invalid")
    <2>1. /\ reader = "content" /\ reader' = "extracted"
          /\ UNCHANGED <<volume, esp, atRoot, here, cluster, chain, visited, stack, claimed, remaining>>
      BY <1>2 DEF read_file
    <2>. QED BY <2>1, Frame, Zenon DEF EspInv, diskVars, Opened, FixedRoot
  <1>. QED BY <1>1, <1>2

\* A path claims no clusters.
LEMMA LookupKeeps == ASSUME EspInv, lookup, UNCHANGED diskVars PROVE EspInv'
PROOF
  <1>1. CASE Stops("invalid")
    BY <1>1, StopsKeeps
  <1>2. CASE Stops("missing")
    BY <1>2, StopsKeeps
  <1>3. CASE ~Stops("invalid") /\ ~Stops("missing")
    <2>1. /\ reader = "entries" /\ reader' \in {"directory", "content", "chain"} /\ atRoot' = "no"
          /\ chain' = <<>> /\ visited' = {}
          /\ UNCHANGED <<volume, esp, stack, claimed, remaining, found>>
      BY <1>3, Zenon DEF lookup
    <2>2. Cardinality({}) = 0 /\ chain' \in Seq(Int) /\ Len(chain') = 0
      BY <2>1, FS_EmptySet
    <2>. QED BY <2>1, <2>2, Frame, Zenon DEF EspInv, diskVars, Opened, FixedRoot
  <1>. QED BY Zenon, <1>1, <1>2, <1>3

\* Of r and a = c + v that fit into e, v fits into what r and c leave of it.
LEMMA Spent ==
    ASSUME NEW e \in Nat, NEW r \in Nat, NEW a \in Nat, NEW c \in Nat, NEW v \in Nat, NEW left \in Int,
           a = c + v, r + a <= e, left >= e - r - c
    PROVE  v <= left /\ left - v >= e - r - a
PROOF OBVIOUS

\* A directory that shares no cluster is paid for by its clusters.
LEMMA WalkKeeps == ASSUME EspInv, WalkDirectory, UNCHANGED diskVars PROVE EspInv'
PROOF
  <1>1. CASE Stops("invalid")
    BY <1>1, StopsKeeps
  <1>2. CASE ~Stops("invalid")
    <2>1. reader = "entries" /\ Disjoint
      BY <1>2, Zenon DEF WalkDirectory
    <2>2. /\ volume.boot \in Boot /\ esp.size \in Nat /\ _geometry /\ FatIsLargeEnough
          /\ visited \subseteq 2..LastCluster /\ claimed \subseteq 2..LastCluster
          /\ chain \in Seq(Int) /\ Len(chain) = Cardinality(visited)
          /\ (FixedRoot => visited = {}) /\ (atRoot = "yes" => remaining = esp.size /\ claimed = {})
          /\ remaining \in Int
          /\ remaining >= esp.size - RootBytes - ClusterBytes * Cardinality(claimed)
      BY <2>1, Zenon DEF EspInv, Opened
    <2> DEFINE all == claimed \cup visited
    <2>3. all \subseteq 2..LastCluster
      BY <2>2
    <2>4. /\ IsFiniteSet(claimed) /\ Cardinality(claimed) \in Nat
          /\ IsFiniteSet(visited) /\ Cardinality(visited) \in Nat /\ Cardinality(all) \in Nat
          /\ ClusterBytes * Cardinality(all) \in Nat
          /\ RootBytes + ClusterBytes * Cardinality(all) <= esp.size
      BY <2>2, <2>3, ClustersFit, ZenonT(30)
    <2>5. Cardinality(all) = Cardinality(claimed) + Cardinality(visited)
      <3>1. Cardinality(all) = Cardinality(claimed) + Cardinality(visited) - Cardinality(claimed \cap visited)
        BY Zenon, <2>4, FS_Union
      <3>2. claimed \cap visited = {}
        BY <2>1 DEF Disjoint
      <3>3. Cardinality(claimed \cap visited) = 0
        BY Zenon, <3>2, FS_EmptySet
      <3>. QED BY <2>4, <3>1, <3>3
    <2>6. RootBytes \in Nat /\ ClusterBytes \in Nat
      BY Zenon, <2>2, Layout
    <2>7. /\ ClusterBytes * Cardinality(all) = ClusterBytes * Cardinality(claimed) + ClusterBytes * Cardinality(visited)
          /\ ClusterBytes * Cardinality(claimed) \in Nat /\ ClusterBytes * Cardinality(visited) \in Nat
      BY <2>4, <2>5, <2>6, Products
    <2>8. /\ DirectoryBytes \in Nat /\ DirectoryBytes <= remaining
          /\ remaining - DirectoryBytes >= esp.size - RootBytes - ClusterBytes * Cardinality(all)
      <3>1. CASE FixedRoot
        <4>1. DirectoryBytes = RootBytes /\ remaining = esp.size
          BY <2>2, <3>1, Zenon DEF DirectoryBytes, FixedRoot
        <4> DEFINE a == ClusterBytes * Cardinality(all)
        <4>2. a \in Nat /\ RootBytes \in Nat /\ esp.size \in Nat /\ RootBytes + a <= esp.size
          BY Zenon, <2>2, <2>4, <2>6
        <4> HIDE DEF a
        <4>3. /\ DirectoryBytes \in Nat /\ DirectoryBytes <= remaining
              /\ remaining - DirectoryBytes >= esp.size - RootBytes - a
          BY ONLY <4>1, <4>2
        <4>. QED BY <4>3 DEF a
      <3>2. CASE ~FixedRoot
        <4>1. DirectoryBytes = ClusterBytes * Cardinality(visited)
          BY <2>2, <2>4, <2>6, <3>2 DEF DirectoryBytes
        <4> DEFINE a == ClusterBytes * Cardinality(all)
                   c == ClusterBytes * Cardinality(claimed)
                   v == ClusterBytes * Cardinality(visited)
        <4>2. /\ a \in Nat /\ c \in Nat /\ v \in Nat /\ a = c + v /\ RootBytes + a <= esp.size
              /\ remaining >= esp.size - RootBytes - c /\ DirectoryBytes = v
          BY Zenon, <2>2, <2>4, <2>7, <4>1
        <4>3. esp.size \in Nat /\ RootBytes \in Nat /\ remaining \in Int
          BY Zenon, <2>2, <2>6
        <4> HIDE DEF a, c, v
        <4>4. v <= remaining /\ remaining - v >= esp.size - RootBytes - a
          BY ONLY <4>2, <4>3, Spent
        <4>5. /\ DirectoryBytes \in Nat /\ DirectoryBytes <= remaining
              /\ remaining - DirectoryBytes >= esp.size - RootBytes - a
          BY ONLY <4>2, <4>4
        <4>. QED BY <4>5 DEF a
      <3>. QED BY Zenon, <3>1, <3>2
    <2>9. /\ claimed' = all /\ remaining' = remaining - DirectoryBytes
          /\ \/ reader' = "listed" /\ UNCHANGED atRoot
             \/ reader' = "directory" /\ atRoot' = "no"
          /\ UNCHANGED <<volume, esp, chain, visited>>
      <3>1. ~Overdrawn
        BY <2>2, <2>8 DEF Overdrawn
      <3>. QED BY <1>2, <3>1, Zenon DEF WalkDirectory
    <2>10. remaining' \in Int
      BY <2>2, <2>8, <2>9
    <2> HIDE DEF all
    <2>. QED BY <2>2, <2>3, <2>8, <2>9, <2>10, Frame, Zenon DEF EspInv, diskVars, Opened, FixedRoot
  <1>. QED BY <1>1, <1>2

\* Before, during and beside the reading of a volume.
LEMMA EspBegins == PartitionInit /\ volume.boot \in Boot /\ EspInit => EspInv
PROOF BY DEF PartitionInit, EspInit, EspInv, NoPartition, Opened
\* Every step of the reader keeps the invariant.
LEMMA EspMoves == ASSUME EspInv, EspNext, UNCHANGED diskVars PROVE EspInv'
PROOF BY FindKeeps, OpenKeeps, DirectoryKeeps, ChainKeeps, WalkKeeps, LookupKeeps, ReadKeeps, Zenon DEF EspNext
\* So does every step that leaves the reader and the disk alone.
LEMMA EspRests == ASSUME EspInv, UNCHANGED <<espVars, disk>> PROVE EspInv'
PROOF BY Frame, Zenon DEF EspInv, espVars, FixedRoot

\* Whatever a volume holds: nothing outside the partition is read of it, and the
\* limit on the bytes of directories is never what stops a walk
\* (_FatVolume, _WalkLimits.claim).
THEOREM EspStaysInside == EspSpec => []EspIsInside
PROOF
  <1>1. EspInv /\ [EspNext /\ UNCHANGED diskVars]_<<espVars, diskVars>> => EspInv'
    BY EspMoves, EspRests, Zenon DEF diskVars
  <1>2. PartitionInit /\ volume \in Volumes /\ EspInit => EspInv
    BY EspBegins, VolumesAreVolumes
  <1>. QED BY <1>1, <1>2, EspInvImpliesInside, PTL DEF EspSpec

\* The same when others run beside the reader, as the actions of a release do:
\* they may read the disk at any time and never write it (esp_manifest.py).
THEOREM EspStaysInsideBeside == EspBeside => []EspIsInside
PROOF
  <1>1. EspInv /\ [(EspNext /\ UNCHANGED diskVars) \/ UNCHANGED <<espVars, disk>>]_<<espVars, diskVars>> => EspInv'
    BY EspMoves, EspRests, Zenon DEF diskVars
  <1>. QED BY <1>1, EspBegins, EspInvImpliesInside, PTL DEF EspBeside
=============================================================================
