------------------------------ MODULE MCRelease ------------------------------
EXTENDS Release, MCEspVolume

\* Disks of 22 MiB.  E: an entry at some MiB.
PerMiB(s) == 1048576 \div s
E(s, type, start, size, label, uuid) ==
    [type |-> type, first |-> start * PerMiB(s), last |-> (start + size) * PerMiB(s) - 1, label |-> label, uuid |-> uuid]
Unused == [type |-> "unused", first |-> 0, last |-> 0, label |-> "", uuid |-> ""]
AbEntries(s) == <<E(s, "esp", 1, 1, "esp", "e"), E(s, "root", 2, 4, "os_1", "h-data"), Unused,
                  E(s, "verity", 6, 5, "os_1_verity", "h-hash"), E(s, "root", 11, 4, "_empty", "x"),
                  E(s, "verity", 15, 5, "_empty", "y")>>
LastOf(s) == 22 * PerMiB(s) - 1
HeaderOf(s, lba, other, entries, array) ==
    [bytes |-> "valid", size |-> 92, current |-> lba, backup |-> other, firstUsable |-> 6, lastUsable |-> LastOf(s) - 6,
     entriesLba |-> entries, count |-> Len(array), entrySize |-> 128, crc |-> "valid", guid |-> "disk", array |-> array]
DiskOf(s, array, firmware, label) ==
    [size |-> 22 * 1048576, signatures |-> {s}, primary |-> HeaderOf(s, 1, LastOf(s), 2, array),
     backup |-> HeaderOf(s, LastOf(s), 1, LastOf(s) - 2, array), firmware |-> firmware, slot |-> label]
Ab == DiskOf(512, AbEntries(512), "uefi", "os_1")
Both(d, F(_)) == [d EXCEPT !.primary = F(@), !.backup = F(@)]
WithArray(array) == DiskOf(512, array, "uefi", "os_1")
Plain == DiskOf(512, <<E(512, "bios boot", 1, 1, "bios", "b"), E(512, "root", 2, 4, "root-x86-64", "r")>>, "bios", "")
GoodDisks == {Ab, DiskOf(4096, AbEntries(4096), "uefi", "os_1"), Plain, [Plain EXCEPT !.firmware = "uefi"],
              \* arrays that end and begin where the usable range does
              [Ab EXCEPT !.primary.entriesLba = 4, !.backup.entriesLba = LastOf(512) - 5],
              Both(Ab, LAMBDA h : [h EXCEPT !.firstUsable = 4]),
              Both(Ab, LAMBDA h : [h EXCEPT !.lastUsable = LastOf(512) - 3])}
BadDisks ==
    {[Ab EXCEPT !.signatures = {}], [Ab EXCEPT !.signatures = {512, 4096}], [Ab EXCEPT !.size = @ + 1],
     [Ab EXCEPT !.primary.bytes = "invalid"], [Ab EXCEPT !.backup.crc = "invalid"], [Ab EXCEPT !.primary.size = 513],
     [Ab EXCEPT !.primary.backup = 9], [Ab EXCEPT !.backup.guid = "other"], [Ab EXCEPT !.primary.entriesLba = 1],
     [Ab EXCEPT !.primary.entriesLba = 5], [Ab EXCEPT !.backup.entriesLba = LastOf(512) - 6],
     [Ab EXCEPT !.backup.entriesLba = LastOf(512) - 1], [Ab EXCEPT !.backup.array = SubSeq(@, 1, 5) \o <<Unused>>],
     Both(Ab, LAMBDA h : [h EXCEPT !.entrySize = 132]), Both(Ab, LAMBDA h : [h EXCEPT !.firstUsable = 3]),
     Both(Ab, LAMBDA h : [h EXCEPT !.lastUsable = LastOf(512)]),
     WithArray([AbEntries(512) EXCEPT ![2].first = PerMiB(512)]), WithArray([AbEntries(512) EXCEPT ![1].last = @ + 1]),
     WithArray([AbEntries(512) EXCEPT ![1].first = @ + 1]), WithArray([AbEntries(512) EXCEPT ![1].last = 0]),
     WithArray([AbEntries(512) EXCEPT ![3] = E(512, "esp", 1, 1, "esp", "e")]),
     WithArray([AbEntries(512) EXCEPT ![5] = E(512, "root", 11, 3, "_empty", "x")]),
     WithArray([AbEntries(512) EXCEPT ![1].label = Undecodable]),
     WithArray([AbEntries(512) EXCEPT ![5].label = "os_1"]), WithArray([AbEntries(512) EXCEPT ![4].label = "other"]),
     [Plain EXCEPT !.firmware = "other"], [Plain EXCEPT !.primary.array[2].label = "root", !.backup.array[2].label = "root"],
     Both(Plain, LAMBDA h : [h EXCEPT !.array[1].type = "esp"])}
\* A table with two signatures, which only the reader of the system partition accepts.
EspDisk == [WithArray(<<E(512, "esp", 1, 4, "esp", "e")>>) EXCEPT !.signatures = {512, 4096}]
\* Slots for hashes that are larger than an artifact may be.
LargeDisk == WithArray(<<E(512, "root", 1, 4, "os_1", "h-data"), E(512, "verity", 5, 6, "os_1_verity", "h-hash"),
                         E(512, "root", 11, 4, "_empty", "x"), E(512, "verity", 15, 6, "_empty", "y")>>)
SmallDisks == GoodDisks \cup BadDisks \cup {EspDisk, LargeDisk}

\* Root file systems of up to four blocks, two digests to a hash block.
A == <<Zero>>
B == <<Zero, Zero>>
PaddedTo(blocks, n) == blocks \o [i \in 1..(n - Len(blocks)) |-> Zero]
Artifact(root, n, per) ==
    LET data == SubSeq(root, 1, n)
    IN [root |-> root, hash |-> PaddedTo(<<Zero>> \o MerkleTree(data, per), 5), header |-> "valid", dataBlocks |-> n,
        perBlock |-> per, digestBytes |-> 32, padding |-> Zero, rootHash |-> MerkleRoot(data, per), name |-> "h"]
Good == Artifact(<<A, Zero, B, Zero>>, 3, 2)
Swapped(blocks, i, j) == [blocks EXCEPT ![i] = blocks[j], ![j] = blocks[i]]
SmallArtifacts ==
    {Good, Artifact(<<A, Zero, Zero, Zero>>, 1, 2), Artifact(<<A, B, A, Zero>>, 4, 2), Artifact(<<A, B, A, B>>, 4, 4),
     Artifact(<<A, B, A, B>>, 3, 2), [Good EXCEPT !.hash = Swapped(@, 3, 4)], [Good EXCEPT !.hash = Swapped(@, 2, 4)],
     [Good EXCEPT !.hash = Swapped(Swapped(@, 2, 4), 2, 3)],
     [Good EXCEPT !.hash[5] = A], [Good EXCEPT !.rootHash = Digest(A)], [Good EXCEPT !.header = "invalid"],
     [Good EXCEPT !.dataBlocks = 5], [Good EXCEPT !.dataBlocks = 0], [Good EXCEPT !.padding = A],
     [Artifact(<<A, B, Zero, Zero>>, 2, 2) EXCEPT !.perBlock = 1], [Good EXCEPT !.hash = SubSeq(@, 1, 4)],
     [Good EXCEPT !.root[1] = B], [Good EXCEPT !.digestBytes = 64], [Good EXCEPT !.name = "g"]}

Option(label, version, compression, signedUki, requestedUki, tags, edits) ==
    [slot |-> label, version |-> version, compression |-> compression, signedUki |-> signedUki,
     requestedUki |-> requestedUki, certificate |-> [tags |-> tags, key |-> "key"], edits |-> edits]
Usual == Option("os_1", "1", "none", NoUki, NoUki, <<6, 13, 2>>, 0)
SmallWellFormed == {"1", "2"}
SmallOptions ==
    {Usual, [Usual EXCEPT !.compression = "xz"], [Usual EXCEPT !.edits = 1],
     [Usual EXCEPT !.signedUki = B, !.requestedUki = Digest(Zero), !.edits = 1],
     [Usual EXCEPT !.signedUki = B, !.requestedUki = Digest(A)], [Usual EXCEPT !.version = "1_"],
     [Usual EXCEPT !.slot = "os_2", !.version = "2"], [Usual EXCEPT !.slot = "os_111111111111111111111111111111111"],
     [Usual EXCEPT !.certificate.tags = <<5, 13, 2>>], [Usual EXCEPT !.certificate.tags = <<6, 6>>]}

FixtureOf(keys, files, enrolls) == [keys |-> keys, files |-> files, enrolls |-> enrolls]
NoFixture == FixtureOf(<<>>, 0, FALSE)
SmallFixtures == {NoFixture, FixtureOf(<<"db">>, 2, FALSE), FixtureOf(<<"db", "PK", "KEK">>, 1, TRUE)}
Case(d, a, o, f) == [disk |-> d, artifact |-> a, options |-> o, fixture |-> f, volume |-> WithBoot(Boot12(4))]
SmallCases == {Case(d, Good, Usual, NoFixture) : d \in SmallDisks}
         \cup {Case(Ab, a, Usual, NoFixture) : a \in SmallArtifacts}
         \cup {Case(LargeDisk, [Good EXCEPT !.hash = PaddedTo(@, 6)], Usual, NoFixture)}
         \cup {Case(Ab, Good, o, NoFixture) : o \in SmallOptions}
         \cup {Case([Ab EXCEPT !.signatures = {}], Good, Usual, f) : f \in SmallFixtures}
         \cup {[Case(EspDisk, Good, Usual, NoFixture) EXCEPT !.volume = v] : v \in SmallVolumes}

\* Every change of the form of a length.
LengthsOfPackets == {0, 1, 191, 192, 193, 447, 448, 8383, 8384, 65535, 65536}
=============================================================================
