---------------------------- MODULE Fat16Proofs ----------------------------
(***************************************************************************)
(* Fat16 for every well formed disk, every path and every size of a read:  *)
(* what a look-up finds, what a read delivers, and that neither leaves the *)
(* volume.                                                                 *)
(***************************************************************************)
EXTENDS Fat16, WellFoundedInduction, NaturalsInduction, SequenceTheorems, TLAPS

\* The first clusters of the directories of a well formed disk.
DirHeads(d) == CHOOSE h \in SUBSET Heads(d) : DirectoriesFit(d, h)

\* Where the segments of a path lead, one after the other.
IsWalk(d, p, f, n) ==
  f = [i \in 1 .. n |-> IF i = 1 THEN [kind |-> "Dir", first |-> Root]
                        ELSE Follow(d, f[i - 1], p[i])]
Walk(d, p) == CHOOSE f : IsWalk(d, p, f, Len(p))

\* Every variable has its type.
TypePart ==
  /\ disk \in Disks
  /\ pc \in {"mbr", "bpb", "idle", "segment", "scan", "read", "panic"}
  /\ op \in [path : Seq(Seq(STRING)) \ {<<>>}, rest : Seq(Seq(STRING)), dir : Nat,
             sectors : Seq(Nat), cluster : Nat]
  /\ file \in [kind : {"None", "Dir", "File"}, first : Nat, cluster : Nat, sector : Nat,
               offset : 0 .. SectorSize]
  /\ call \in [left : Nat, got : Seq(Nat \X Nat)]
  /\ hist \in [bytes : Nat, repeats : 0 .. MaxRepeats]
  /\ file.first # 0 => pos \in Nat
  /\ Len(op.rest) <= Len(op.path)
  /\ bpb.sectors_per_cluster \in Nat
  /\ file.sector <= bpb.sectors_per_cluster

\* The partition and the parameters of the volume are those on the disk.
Mounted ==
  /\ part.lba = Part(disk).lba /\ part.sectors = Part(disk).sectors
  /\ bpb = Bpb(disk)

\* The volume is mounted before the first call, and a call to open finds no file open.
MountPart ==
  /\ pc \in {"mbr", "bpb", "segment", "scan"} => file = NoFile
  /\ pc \in {"mbr", "bpb"} => last.call = "none"
  /\ file.kind = "None" => file = NoFile /\ hist = NoHist
  /\ pc = "bpb" => part.lba = Part(disk).lba /\ part.sectors = Part(disk).sectors
  /\ pc \notin {"mbr", "bpb", "panic"} => Mounted

\* The reasons for which the kernel has halted.
PanicPart ==
  /\ pc # "panic" => panic = "none"
  /\ \/ panic \in {"none", "boot", "write", "path not utf8", "memory"}
     \/ panic = "entry not utf8" /\ Undecodable(disk)
     \/ panic \in {"underflow", "partition", "cluster"} /\ file.kind = "File" /\ file.first = 0

\* The bytes of the file before the position.
Total == IF pc = "read" THEN pos + Len(call.got) ELSE pos

\* The position is in a cluster of the chain, or behind the last.
InChain(k) ==
  /\ file.cluster = ChainOf(disk, file.first)[k]
  /\ file.sector < disk.clusterSectors
  /\ Total = ((k - 1) * disk.clusterSectors + file.sector) * SectorSize + file.offset
AtEnd ==
  /\ file.cluster = NoCluster /\ file.sector = 0 /\ file.offset = 0
  /\ Total = Len(ChainOf(disk, file.first)) * disk.clusterSectors * SectorSize

\* Cluster, sector and offset of an open file say which byte is next.  Those of an empty
\* file mean nothing.
PositionPart ==
  file.kind = "File" /\ pc \in {"idle", "read"} =>
    \/ file.first = 0 /\ file.sector < disk.clusterSectors
    \/ /\ file.first \in Heads(disk)
       /\ AtEnd \/ \E k \in 1 .. Len(ChainOf(disk, file.first)) : InChain(k)

\* What a read has copied, and that one which could not fill its buffer is at the end.
GotPart ==
  /\ pc = "read" =>
       /\ file.kind = "File"
       /\ file.first # 0 =>
            \A i \in 1 .. Len(call.got) : call.got[i] = Contents(disk, file.first)[pos + i]
  /\ (pc = "idle" /\ file.kind = "File" /\ file.first # 0
        /\ last = [call |-> "read", ret |-> "Ok"] /\ call.left > 0) =>
       file.first \in Heads(disk) /\ AtEnd

\* The walk has come to a directory.
WalkPart ==
  pc \in {"segment", "scan"} =>
    /\ Head(op.path) = EmptySegment
    /\ op.dir = Root \/ op.dir \in DirHeads(disk)
    /\ \E i \in 1 .. Len(op.path) :
         /\ op.rest = SubSeq(op.path, i + 1, Len(op.path))
         /\ Walk(disk, op.path)[i] = [kind |-> "Dir", first |-> op.dir]

\* The first m sectors of the directory have been searched.
Searched(m) ==
  LET tags == Listed(disk, op.dir) IN
  /\ \A l \in 1 .. m : Without(EntriesAt(disk, tags[l]), DOMAIN EntriesAt(disk, tags[l]), Head(op.rest))
  /\ \A i \in 1 .. Len(op.sectors) :
       m + i \in DOMAIN tags /\ PlaceOf(disk, tags[m + i]) = op.sectors[i] + part.lba
  /\ IF op.dir = Root
     THEN op.cluster = NoCluster /\ m + Len(op.sectors) = disk.rootSectors
     ELSE \E k \in 1 .. Len(ChainOf(disk, op.dir)) :
            /\ op.cluster = ChainOf(disk, op.dir)[k]
            /\ m + Len(op.sectors) = (k - 1) * disk.clusterSectors

\* A scan is for a segment with a name, and has searched some of the directory.
ScanPart ==
  pc = "scan" =>
    /\ op.rest # <<>> /\ Head(op.rest) # EmptySegment
    /\ \E m \in Nat : Searched(m)

\* The inductive invariant.
FatInv ==
  /\ TypePart /\ MountPart /\ PanicPart /\ PositionPart /\ GotPart /\ WalkPart /\ ScanPart
  /\ OpenIsLookup

(***************************************************************************)
(* Arithmetic.                                                             *)
(***************************************************************************)

\* A multiple of m plus a rest, divided again.
LEMMA DivMod ==
  ASSUME NEW a \in Nat, NEW m \in Nat \ {0}, NEW r \in Nat, r < m
  PROVE  (a * m + r) \div m = a /\ (a * m + r) % m = r
  OBVIOUS

\* A rest stays below the next multiple.
LEMMA ProductBelow ==
  ASSUME NEW a \in Nat, NEW b \in Nat, a < b, NEW m \in Nat \ {0}, NEW r \in Nat, r < m
  PROVE  a * m + r < b * m
  OBVIOUS

\* Every number is a multiple and a rest.
LEMMA Divide ==
  ASSUME NEW i \in Nat, NEW m \in Nat \ {0}
  PROVE  /\ i \div m \in Nat /\ i % m \in 0 .. m - 1
         /\ i = (i \div m) * m + (i % m)
  OBVIOUS

\* A quotient stays below a bound of the number.
LEMMA DivideBelow ==
  ASSUME NEW i \in Nat, NEW m \in Nat \ {0}, NEW b \in Nat, i < b * m
  PROVE  i \div m < b
  OBVIOUS

\* Products of natural numbers are natural numbers.
LEMMA ProductIsNat ==
  ASSUME NEW a \in Nat, NEW b \in Nat
  PROVE  a * b \in Nat
  OBVIOUS

\* Quotients of natural numbers are natural numbers.
LEMMA QuotientIsNat ==
  ASSUME NEW a \in Nat, NEW m \in Nat \ {0}
  PROVE  a \div m \in Nat
  OBVIOUS

\* The cluster numbers of a volume.
LEMMA BadClusterIsNat ==
  \A c : c \in 2 .. BadCluster - 1 => c \in Nat /\ c >= 2 /\ c < BadCluster
  <1>1. \A b \in Nat : \A c : c \in 2 .. b - 1 => c \in Nat /\ c >= 2 /\ c < b
    OBVIOUS
  <1>2. BadCluster \in Nat
    BY DEF BadCluster
  <1> QED BY <1>1, <1>2, Zenon

(***************************************************************************)
(* What a well formed disk holds.                                          *)
(***************************************************************************)

\* The numbers of the boot sector that the sector arithmetic uses.
LEMMA Geometry ==
  ASSUME NEW d \in Disks
  PROVE  /\ Part(d).lba \in Nat \ {0} /\ Part(d).sectors \in Nat
         /\ Bpb(d).sectors_per_cluster \in Nat \ {0}
         /\ d.clusterSectors = Bpb(d).sectors_per_cluster
         /\ RootStart(d) \in Nat /\ RootCount(d) \in Nat /\ d.rootSectors = RootCount(d)
  <1>1. GeometryFits(d)
    BY DisksAssumption DEF WellFormed
  <1>2. Bpb(d).fat_count * Bpb(d).sectors_per_fat \in Nat
    BY <1>1, ProductIsNat DEF GeometryFits
  <1>3. RootStart(d) \in Nat
    BY <1>1, <1>2 DEF GeometryFits, RootStart
  <1>4. Bpb(d).root_directory_entry_count * DirEntrySize \in Nat
    BY <1>1, ProductIsNat, LayoutAssumption DEF GeometryFits
  <1>5. RootCount(d) \in Nat
    BY <1>4, QuotientIsNat, LayoutAssumption DEF RootCount
  <1> QED BY <1>1, <1>3, <1>5 DEF GeometryFits

\* Where a sector with a tag is, and that it is in the partition.
LEMMA PlacedAt ==
  ASSUME NEW d \in Disks, NEW n \in Nat, NEW tag, Placed(d, n, tag)
  PROVE  PlaceOf(d, tag) = n + Part(d).lba /\ n + 1 <= Part(d).sectors
  <1>1. GeometryFits(d)
    BY DisksAssumption DEF WellFormed
  <1> DEFINE l == n + Part(d).lba + 1
  <1>2. Part(d).lba \in Nat /\ Part(d).sectors \in Nat /\ n + 1 <= Part(d).sectors
    BY <1>1 DEF GeometryFits, Placed
  <1>3. l \in 1 .. Part(d).lba + Part(d).sectors
    BY <1>2
  <1>4. l \in DOMAIN d.sectors
    BY <1>1, <1>3 DEF GeometryFits
  <1>5. \A x \in DOMAIN d.sectors : d.sectors[x].tag = tag <=> x = l
    BY DEF Placed
  <1> HIDE DEF l
  <1>6. (CHOOSE x \in DOMAIN d.sectors : d.sectors[x].tag = tag) = l
    BY <1>4, <1>5
  <1>7. PlaceOf(d, tag) = l - 1
    BY <1>6 DEF PlaceOf
  <1> QED BY <1>2, <1>7 DEF l

\* The chain of a first cluster begins there and is linked in the FAT.
LEMMA ChainIs ==
  ASSUME NEW d \in Disks, NEW first \in Heads(d)
  PROVE  /\ ChainFits(d, ChainOf(d, first))
         /\ ChainOf(d, first) \in Seq(Nat) /\ Len(ChainOf(d, first)) \in Nat \ {0}
         /\ ChainOf(d, first)[1] = first
         /\ first \in Nat /\ first >= 2
  <1>1. \A i \in DOMAIN d.chains : ChainFits(d, d.chains[i])
    BY DisksAssumption DEF WellFormed
  <1>2. \E i \in DOMAIN d.chains : d.chains[i][1] = first
    BY DEF Heads
  <1>3. PICK i \in DOMAIN d.chains : /\ d.chains[i][1] = first
                                     /\ ChainOf(d, first) = d.chains[i]
    BY <1>2 DEF ChainOf
  <1>4. ChainFits(d, ChainOf(d, first))
    BY <1>1, <1>3
  <1>5. ChainOf(d, first) \in Seq(Nat) /\ ChainOf(d, first) # <<>>
    BY <1>4 DEF ChainFits
  <1>6. Len(ChainOf(d, first)) \in Nat \ {0}
    BY <1>5, EmptySeq
  <1>7. 1 \in DOMAIN ChainOf(d, first)
    BY <1>5, <1>6
  <1>8. ChainOf(d, first)[1] \in 2 .. BadCluster - 1
    BY <1>4, <1>7 DEF ChainFits, ClusterFits
  <1>9. first \in Nat /\ first >= 2
    BY <1>3, <1>8, BadClusterIsNat
  <1> QED BY <1>3, <1>4, <1>5, <1>6, <1>9

\* Where the sectors of a cluster of a chain are.
LEMMA ClusterIs ==
  ASSUME NEW d \in Disks, NEW first \in Heads(d), NEW k \in 1 .. Len(ChainOf(d, first)),
         NEW s \in 0 .. d.clusterSectors - 1
  PROVE  LET c == ChainOf(d, first)[k]
             n == ClusterStart(d, c) + s
         IN  /\ c \in 2 .. BadCluster - 1
             /\ n \in Nat /\ n + 1 <= Part(d).sectors
             /\ PlaceOf(d, <<"cluster", c, s + 1>>) = n + Part(d).lba
  <1> DEFINE c == ChainOf(d, first)[k]
             n == ClusterStart(d, c) + s
  <1>1. k \in DOMAIN ChainOf(d, first)
    BY ChainIs
  <1>2. PICK x : ClusterFits(d, c, x)
    BY <1>1, ChainIs DEF ChainFits
  <1>3. c \in 2 .. BadCluster - 1
    BY <1>2 DEF ClusterFits
  <1>4. s + 1 \in 1 .. Bpb(d).sectors_per_cluster
    BY Geometry
  <1>5. Placed(d, ClusterStart(d, c) + (s + 1) - 1, <<"cluster", c, s + 1>>)
    BY <1>2, <1>4 DEF ClusterFits
  <1>6. c - 2 \in Nat
    BY <1>3, BadClusterIsNat
  <1>7. (c - 2) * Bpb(d).sectors_per_cluster \in Nat
    BY <1>6, Geometry, ProductIsNat
  <1>8. ClusterStart(d, c) \in Nat
    BY <1>7, Geometry DEF ClusterStart
  <1>9. n \in Nat /\ n = ClusterStart(d, c) + (s + 1) - 1
    BY <1>4, <1>8
  <1>10. Placed(d, n, <<"cluster", c, s + 1>>)
    BY <1>5, <1>9
  <1> HIDE DEF n, c
  <1>11. PlaceOf(d, <<"cluster", c, s + 1>>) = n + Part(d).lba /\ n + 1 <= Part(d).sectors
    BY <1>9, <1>10, PlacedAt
  <1> QED BY <1>3, <1>9, <1>11 DEF c, n

\* Sector s of the k-th cluster of a chain.
LEMMA ChainTagIs ==
  ASSUME NEW d \in Disks, NEW first, NEW k \in Nat \ {0}, NEW s \in 0 .. d.clusterSectors - 1
  PROVE  ChainTag(d, first, (k - 1) * d.clusterSectors + s)
           = <<"cluster", ChainOf(d, first)[k], s + 1>>
  <1> DEFINE cs == d.clusterSectors
             i == (k - 1) * cs + s
  <1>1. cs \in Nat \ {0} /\ s \in Nat /\ s < cs /\ k - 1 \in Nat
    BY Geometry
  <1> HIDE DEF cs
  <1>2. i \div cs = k - 1 /\ i % cs = s
    BY <1>1, DivMod
  <1>3. i \div cs + 1 = k
    BY <1>1, <1>2
  <1> HIDE DEF i
  <1>4. ChainTag(d, first, i) = <<"cluster", ChainOf(d, first)[k], s + 1>>
    BY <1>2, <1>3 DEF ChainTag, cs
  <1> QED BY <1>4 DEF i, cs

\* The byte of a file at a position.
LEMMA ContentsAt ==
  ASSUME NEW d \in Disks, NEW first \in Heads(d), NEW k \in 1 .. Len(ChainOf(d, first)),
         NEW s \in 0 .. d.clusterSectors - 1, NEW o \in 0 .. SectorSize - 1
  PROVE  Contents(d, first)[((k - 1) * d.clusterSectors + s) * SectorSize + o + 1]
           = <<ClusterStart(d, ChainOf(d, first)[k]) + s + Part(d).lba, o>>
  <1> DEFINE cs == d.clusterSectors
             i == (k - 1) * cs + s
             x == i * SectorSize + o
             n == Len(ChainOf(d, first))
  <1>1. cs \in Nat \ {0} /\ s \in Nat /\ s < cs /\ k - 1 \in Nat /\ k - 1 < n /\ n \in Nat
        /\ SectorSize \in Nat \ {0} /\ o \in Nat /\ o < SectorSize
    <2>1. cs \in Nat \ {0} /\ n \in Nat \ {0}
      BY Geometry, ChainIs
    <2>2. SectorSize \in Nat \ {0}
      BY LayoutAssumption
    <2> QED BY <2>1, <2>2, SMTT(30)
  <1>2. first # 0
    BY ChainIs
  <1>3. ChainTag(d, first, i) = <<"cluster", ChainOf(d, first)[k], s + 1>>
    BY ChainTagIs, <1>1
  <1> HIDE DEF cs, n
  <1>4. i \in Nat /\ i < n * cs
    BY <1>1, ProductBelow, ProductIsNat
  <1>5. n * cs \in Nat
    BY <1>1, ProductIsNat
  <1> HIDE DEF i
  <1>6. x \in Nat /\ x < n * cs * SectorSize
    BY <1>1, <1>4, <1>5, ProductBelow, ProductIsNat
  <1>7. x \div SectorSize = i /\ x % SectorSize = o
    BY <1>1, <1>4, DivMod
  <1>8. n * cs * SectorSize \in Nat
    BY <1>1, <1>5, ProductIsNat
  <1> HIDE DEF x
  <1> DEFINE m == n * cs * SectorSize
  <1>9. x + 1 \in 1 .. m /\ (x + 1) - 1 = x
    BY <1>6, <1>8
  <1>10. Contents(d, first) = [j \in 1 .. m |->
           <<PlaceOf(d, ChainTag(d, first, (j - 1) \div SectorSize)), (j - 1) % SectorSize>>]
    BY <1>2 DEF Contents, n, cs
  <1> HIDE DEF m
  <1>11. Contents(d, first)[x + 1] = <<PlaceOf(d, ChainTag(d, first, i)), o>>
    BY <1>7, <1>9, <1>10
  <1>12. PlaceOf(d, <<"cluster", ChainOf(d, first)[k], s + 1>>)
           = ClusterStart(d, ChainOf(d, first)[k]) + s + Part(d).lba
    BY ClusterIs
  <1>13. x + 1 = ((k - 1) * d.clusterSectors + s) * SectorSize + o + 1
    BY DEF x, i, cs
  <1> QED BY <1>3, <1>11, <1>12, <1>13

\* The directories have readable entries.
LEMMA DirHeadsFit ==
  ASSUME NEW d \in Disks
  PROVE  DirHeads(d) \subseteq Heads(d) /\ DirectoriesFit(d, DirHeads(d))
  BY DisksAssumption DEF WellFormed, DirHeads

\* The entries of a directory at which a look-up may stop, if they can be decoded.
LEMMA KeptEntries ==
  ASSUME NEW d \in Disks, NEW es, EntriesFit(d, DirHeads(d), es), NEW i \in Kept(es),
         EntryUtf8(es[i])
  PROVE  /\ es[i].mark = "live"
         /\ es[i].dir => es[i].cluster \in DirHeads(d)
         /\ ~es[i].dir => es[i].cluster \in Heads(d) \cup {0}
         /\ es[i].cluster \in Nat
  <1>1. /\ es[i].mark = "live"
        /\ es[i].cluster \in IF es[i].dir THEN DirHeads(d) ELSE Heads(d) \cup {0}
    BY DEF EntriesFit
  <1>3. es[i].cluster \in Heads(d) \cup {0}
    BY <1>1, DirHeadsFit
  <1>4. es[i].cluster \in Nat
    BY <1>3, ChainIs
  <1> QED BY <1>1, <1>4

\* The directories have a cluster of their own or are the root directory.
LEMMA RootIsNoCluster ==
  ASSUME NEW d \in Disks, NEW h \in Heads(d)
  PROVE  h # Root /\ h # NoCluster
  <1>1. ChainFits(d, ChainOf(d, h)) /\ ChainOf(d, h)[1] = h /\ 1 \in DOMAIN ChainOf(d, h)
    BY ChainIs
  <1>2. h \in 2 .. BadCluster - 1
    BY <1>1 DEF ChainFits, ClusterFits
  <1>3. h \in Nat /\ h < BadCluster
    BY <1>2, BadClusterIsNat
  <1> QED BY <1>3 DEF BadCluster, Root, NoCluster

\* A sector of the root directory.
LEMMA ListedRoot ==
  ASSUME NEW d \in Disks, NEW l \in 1 .. d.rootSectors
  PROVE  /\ RootStart(d) + l - 1 \in Nat
         /\ RootStart(d) + l - 1 + 1 <= Part(d).sectors
         /\ PlaceOf(d, Listed(d, Root)[l]) = RootStart(d) + l - 1 + Part(d).lba
         /\ EntriesFit(d, DirHeads(d), EntriesAt(d, Listed(d, Root)[l]))
  <1> DEFINE n == RootStart(d) + l - 1
  <1>1. n \in Nat /\ l \in 1 .. RootCount(d)
    BY Geometry
  <1>2. Placed(d, n, <<"root", l>>)
    BY <1>1, DisksAssumption DEF WellFormed, GeometryFits
  <1>3. Listed(d, Root)[l] = <<"root", l>>
    BY DEF Listed
  <1>4. SectorEntriesFit(d, DirHeads(d), n)
    BY <1>1, DirHeadsFit DEF DirectoriesFit
  <1> HIDE DEF n
  <1>5. PlaceOf(d, <<"root", l>>) = n + Part(d).lba /\ n + 1 <= Part(d).sectors
    BY <1>1, <1>2, PlacedAt
  <1>6. EntriesFit(d, DirHeads(d), EntriesAt(d, Listed(d, Root)[l]))
    BY <1>3, <1>4, <1>5 DEF SectorEntriesFit, EntriesAt
  <1>7. PlaceOf(d, Listed(d, Root)[l]) = n + Part(d).lba
    BY <1>3, <1>5
  <1> QED BY <1>1, <1>5, <1>6, <1>7 DEF n

\* A sector of another directory.
LEMMA ListedCluster ==
  ASSUME NEW d \in Disks, NEW h \in DirHeads(d), NEW k \in 1 .. Len(ChainOf(d, h)) - 1,
         NEW s \in 0 .. d.clusterSectors - 1
  PROVE  LET l == (k - 1) * d.clusterSectors + s + 1
             n == ClusterStart(d, ChainOf(d, h)[k]) + s
         IN  /\ l \in DOMAIN Listed(d, h)
             /\ n \in Nat /\ n + 1 <= Part(d).sectors
             /\ PlaceOf(d, Listed(d, h)[l]) = n + Part(d).lba
             /\ EntriesFit(d, DirHeads(d), EntriesAt(d, Listed(d, h)[l]))
  <1> DEFINE cs == d.clusterSectors
             i == (k - 1) * cs + s
             l == i + 1
             n == ClusterStart(d, ChainOf(d, h)[k]) + s
             m == Len(ChainOf(d, h)) - 1
  <1>1. h \in Heads(d) /\ h # Root
    BY DirHeadsFit, RootIsNoCluster
  <1>2. cs \in Nat \ {0} /\ s \in Nat /\ s < cs /\ k - 1 \in Nat /\ k - 1 < m /\ m \in Nat
    BY <1>1, Geometry, ChainIs, SMTT(30)
  <1>3. k \in 1 .. Len(ChainOf(d, h)) /\ k \in DOMAIN ChainOf(d, h) /\ k \in Nat \ {0}
    BY <1>1, ChainIs
  <1>4. ChainTag(d, h, i) = <<"cluster", ChainOf(d, h)[k], s + 1>>
    BY <1>3, ChainTagIs
  <1>5. n \in Nat /\ n + 1 <= Part(d).sectors
        /\ PlaceOf(d, <<"cluster", ChainOf(d, h)[k], s + 1>>) = n + Part(d).lba
    BY <1>1, <1>3, ClusterIs
  <1>6. Listed(d, h) = [j \in 1 .. m * cs |-> ChainTag(d, h, j - 1)]
    BY <1>1 DEF Listed, ClusterTags
  <1>7. SectorEntriesFit(d, DirHeads(d), n)
    <2>1. s + 1 \in 1 .. Bpb(d).sectors_per_cluster
      BY <1>2, Geometry
    <2>2. SectorEntriesFit(d, DirHeads(d), ClusterStart(d, ChainOf(d, h)[k]) + (s + 1) - 1)
      BY <1>3, <2>1, DirHeadsFit DEF DirectoriesFit
    <2>3. ClusterStart(d, ChainOf(d, h)[k]) \in Int
      <3>1. ChainOf(d, h)[k] \in Nat
        BY <1>1, <1>3, ChainIs
      <3> QED BY <3>1, Geometry DEF ClusterStart
    <2>4. ClusterStart(d, ChainOf(d, h)[k]) + (s + 1) - 1 = n
      BY <2>3, <1>2
    <2> QED BY <2>2, <2>4
  <1> HIDE DEF n, m, cs
  <1>8. i \in Nat /\ i < m * cs /\ m * cs \in Nat
    BY <1>2, ProductBelow, ProductIsNat
  <1> HIDE DEF i
  <1>9. l \in 1 .. m * cs /\ l - 1 = i
    BY <1>8
  <1> HIDE DEF l
  <1>10. l \in DOMAIN Listed(d, h) /\ Listed(d, h)[l] = ChainTag(d, h, i)
    BY <1>6, <1>9
  <1>11. PlaceOf(d, Listed(d, h)[l]) = n + Part(d).lba
    BY <1>4, <1>5, <1>10
  <1>12. EntriesFit(d, DirHeads(d), EntriesAt(d, Listed(d, h)[l]))
    BY <1>7, <1>11 DEF SectorEntriesFit, EntriesAt
  <1>13. l = (k - 1) * d.clusterSectors + s + 1 /\ n = ClusterStart(d, ChainOf(d, h)[k]) + s
    BY DEF l, i, cs, n
  <1> QED BY <1>5, <1>10, <1>11, <1>12, <1>13

\* How many sectors of a directory a look-up searches.
LEMMA ListedLength ==
  ASSUME NEW d \in Disks
  PROVE  /\ DOMAIN Listed(d, Root) = 1 .. d.rootSectors /\ d.rootSectors \in Nat
         /\ \A h \in DirHeads(d) :
              /\ DOMAIN Listed(d, h) = 1 .. (Len(ChainOf(d, h)) - 1) * d.clusterSectors
              /\ (Len(ChainOf(d, h)) - 1) * d.clusterSectors \in Nat
  <1>1. DOMAIN Listed(d, Root) = 1 .. d.rootSectors /\ d.rootSectors \in Nat
    BY Geometry DEF Listed
  <1>2. ASSUME NEW h \in DirHeads(d)
        PROVE  /\ DOMAIN Listed(d, h) = 1 .. (Len(ChainOf(d, h)) - 1) * d.clusterSectors
               /\ (Len(ChainOf(d, h)) - 1) * d.clusterSectors \in Nat
    <2>1. h \in Heads(d) /\ h # Root
      BY DirHeadsFit, RootIsNoCluster
    <2>2. Len(ChainOf(d, h)) - 1 \in Nat /\ d.clusterSectors \in Nat
      BY <2>1, ChainIs, Geometry
    <2> QED BY <2>1, <2>2, ProductIsNat DEF Listed, ClusterTags
  <1> QED BY <1>1, <1>2

\* A sector that is searched is on the volume and its entries are readable.
LEMMA ListedFits ==
  ASSUME NEW d \in Disks, NEW dir, dir = Root \/ dir \in DirHeads(d),
         NEW l \in DOMAIN Listed(d, dir), NEW n \in Nat,
         PlaceOf(d, Listed(d, dir)[l]) = n + Part(d).lba
  PROVE  /\ n + 1 <= Part(d).sectors
         /\ EntriesFit(d, DirHeads(d), EntriesAt(d, Listed(d, dir)[l]))
         /\ EntriesAt(d, Listed(d, dir)[l]) = d.sectors[n + Part(d).lba + 1].dir
  <1>1. \E x \in Nat : /\ PlaceOf(d, Listed(d, dir)[l]) = x + Part(d).lba
                       /\ x + 1 <= Part(d).sectors
                       /\ EntriesFit(d, DirHeads(d), EntriesAt(d, Listed(d, dir)[l]))
    <2>1. CASE dir = Root
      <3>1. l \in 1 .. d.rootSectors
        BY <2>1, ListedLength
      <3> QED BY <2>1, <3>1, ListedRoot
    <2>2. CASE dir \in DirHeads(d)
      <3> DEFINE cs == d.clusterSectors
                 b == Len(ChainOf(d, dir)) - 1
                 q == (l - 1) \div cs
                 s == (l - 1) % cs
      <3>1. dir \in Heads(d)
        BY <2>2, DirHeadsFit
      <3>2. b \in Nat /\ cs \in Nat \ {0}
        BY <3>1, ChainIs, Geometry
      <3>3. l \in 1 .. b * cs /\ b * cs \in Nat
        BY <2>2, ListedLength
      <3> HIDE DEF b, cs
      <3>4. l - 1 \in Nat /\ l - 1 < b * cs
        BY <3>3
      <3>5. q \in Nat /\ s \in 0 .. cs - 1 /\ l - 1 = q * cs + s
        BY <3>2, <3>4, Divide
      <3>6. q < b
        BY <3>2, <3>4, DivideBelow
      <3> HIDE DEF q, s
      <3>7. q + 1 \in 1 .. b /\ (q + 1) - 1 = q
        BY <3>2, <3>5, <3>6
      <3>8. q * cs \in Nat
        BY <3>2, <3>5, ProductIsNat
      <3>9. l = ((q + 1) - 1) * cs + s + 1
        BY <3>3, <3>5, <3>7, <3>8
      <3> QED BY <2>2, <3>5, <3>7, <3>9, ListedCluster DEF b, cs
    <2> QED BY <2>1, <2>2
  <1>2. PICK x \in Nat : /\ PlaceOf(d, Listed(d, dir)[l]) = x + Part(d).lba
                         /\ x + 1 <= Part(d).sectors
                         /\ EntriesFit(d, DirHeads(d), EntriesAt(d, Listed(d, dir)[l]))
    BY <1>1
  <1>3. x = n
    BY <1>2, Geometry
  <1> QED BY <1>2, <1>3 DEF EntriesAt

(***************************************************************************)
(* What a look-up in one directory finds.                                  *)
(***************************************************************************)

\* Nothing in sectors without the name.
LEMMA NamedNone ==
  ASSUME NEW d, NEW tags, NEW name,
         \A l \in DOMAIN tags : Without(EntriesAt(d, tags[l]), DOMAIN EntriesAt(d, tags[l]), name)
  PROVE  Named(d, tags, name) = {}
  BY DEF Named, IsFirst, Without

\* A sector at which the search does not stop.
LEMMA NoStop ==
  ASSUME NEW es, NEW name, DOMAIN es = 1 .. SectorSize \div DirEntrySize, Stops(es, name) = {},
         NEW i \in DOMAIN es, \A j \in 1 .. i : es[j].mark # "0"
  PROVE  ~Matches(es[i], name)
  BY DEF Stops, Kept, Matches

\* Nothing in sectors up to an end mark.
LEMMA NamedEnded ==
  ASSUME NEW d, NEW tags, NEW name, NEW m \in Nat, DOMAIN tags \subseteq Nat \ {0},
         \A l \in 1 .. m : Without(EntriesAt(d, tags[l]), DOMAIN EntriesAt(d, tags[l]), name),
         DOMAIN EntriesAt(d, tags[m + 1]) = 1 .. SectorSize \div DirEntrySize,
         Stops(EntriesAt(d, tags[m + 1]), name) = {},
         \E i \in DOMAIN EntriesAt(d, tags[m + 1]) : EntriesAt(d, tags[m + 1])[i].mark = "0"
  PROVE  Named(d, tags, name) = {}
  <1>1. ASSUME NEW k \in DOMAIN tags, NEW i \in DOMAIN EntriesAt(d, tags[k]),
               IsFirst(d, tags, k, i, name)
        PROVE  FALSE
    <2> DEFINE es == EntriesAt(d, tags[m + 1])
    <2>1. CASE k <= m
      <3>1. k \in 1 .. m
        BY <1>1, <2>1
      <3>2. Without(EntriesAt(d, tags[k]), DOMAIN EntriesAt(d, tags[k]), name)
        BY <3>1
      <3> QED BY <1>1, <3>2 DEF IsFirst, Without
    <2>2. CASE k = m + 1
      <3>1. Matches(es[i], name) /\ Without(es, 1 .. i - 1, name) /\ i \in DOMAIN es
        BY <1>1, <2>2 DEF IsFirst
      <3>2. \A j \in 1 .. i - 1 : es[j].mark # "0"
        BY <3>1 DEF Without
      <3>3. es[i].mark # "0"
        BY <3>1 DEF Matches
      <3>4. i \in Int
        BY <3>1
      <3>5. \A j \in 1 .. i : es[j].mark # "0"
        BY <3>2, <3>3, <3>4
      <3> HIDE DEF es
      <3> QED BY <3>1, <3>5, NoStop DEF es
    <2>3. CASE k > m + 1
      <3>1. m + 1 \in 1 .. k - 1
        BY <1>1, <2>3
      <3>2. Without(es, DOMAIN es, name)
        BY <1>1, <3>1 DEF IsFirst
      <3> QED BY <3>2 DEF Without
    <2>4. k \in Nat
      BY <1>1
    <2> QED BY <2>1, <2>2, <2>3, <2>4
  <1> QED BY <1>1 DEF Named

\* The entry at which the search stops.
LEMMA NamedFound ==
  ASSUME NEW d, NEW tags, NEW name, NEW m \in Nat, DOMAIN tags \subseteq Nat \ {0},
         m + 1 \in DOMAIN tags,
         \A l \in 1 .. m : Without(EntriesAt(d, tags[l]), DOMAIN EntriesAt(d, tags[l]), name),
         DOMAIN EntriesAt(d, tags[m + 1]) = 1 .. SectorSize \div DirEntrySize,
         NEW i \in Stops(EntriesAt(d, tags[m + 1]), name),
         Matches(EntriesAt(d, tags[m + 1])[i], name),
         \A j \in Stops(EntriesAt(d, tags[m + 1]), name) : i <= j
  PROVE  Named(d, tags, name) = {EntriesAt(d, tags[m + 1])[i]}
  <1> DEFINE es == EntriesAt(d, tags[m + 1])
  <1>0. PICK N \in Nat : DOMAIN es = 1 .. N
    BY LayoutAssumption, QuotientIsNat
  <1>1. i \in Int /\ i \in DOMAIN es /\ \A j \in 1 .. i : es[j].mark # "0"
    BY <1>0 DEF Stops, Kept
  <1>2. ASSUME NEW j \in 1 .. i - 1 PROVE es[j].mark # "0" /\ ~Matches(es[j], name)
    <2>1. j \in DOMAIN es /\ j \in Int /\ j < i /\ \A x \in 1 .. j : es[x].mark # "0"
      <3>1. i \in 1 .. N
        BY <1>0, <1>1
      <3>2. j \in 1 .. N /\ j \in Int /\ j < i
        BY <1>1, <1>2, <3>1
      <3>3. \A x \in 1 .. j : x \in 1 .. i
        BY <1>1, <3>2
      <3> HIDE DEF es
      <3> QED BY <1>0, <1>1, <3>2, <3>3
    <2>2. es[j].mark # "0"
      BY <1>1, <1>2
    <2>3. j \notin Stops(es, name)
      BY <1>1, <2>1
    <2>4. ~Matches(es[j], name)
      BY <2>1, <2>3 DEF Stops, Kept, Matches
    <2> QED BY <2>2, <2>4
  <1>3. IsFirst(d, tags, m + 1, i, name)
    <2>1. Without(es, 1 .. i - 1, name)
      BY <1>2 DEF Without
    <2>2. \A l \in 1 .. (m + 1) - 1 : Without(EntriesAt(d, tags[l]), DOMAIN EntriesAt(d, tags[l]), name)
      OBVIOUS
    <2> QED BY <2>1, <2>2 DEF IsFirst
  <1>4. ASSUME NEW k \in DOMAIN tags, NEW x \in DOMAIN EntriesAt(d, tags[k]),
               IsFirst(d, tags, k, x, name)
        PROVE  EntriesAt(d, tags[k])[x] = es[i]
    <2>1. CASE k <= m
      <3>1. k \in 1 .. m
        BY <1>4, <2>1
      <3>2. Without(EntriesAt(d, tags[k]), DOMAIN EntriesAt(d, tags[k]), name)
        BY <3>1
      <3> QED BY <1>4, <3>2 DEF IsFirst, Without
    <2>2. CASE k = m + 1
      <3>1. Matches(es[x], name) /\ Without(es, 1 .. x - 1, name) /\ x \in DOMAIN es /\ x \in Int
        <4>1. x \in DOMAIN es
          BY <1>4, <2>2
        <4>2. x \in Int
          BY <1>0, <4>1
        <4> QED BY <1>4, <2>2, <4>1, <4>2 DEF IsFirst
      <3>2. ~ (x < i)
        <4>1. SUFFICES ASSUME x < i PROVE FALSE
          OBVIOUS
        <4>2. x \in 1 .. i - 1
          BY <1>1, <3>1, <4>1
        <4> QED BY <1>2, <3>1, <4>2
      <3>3. ~ (i < x)
        <4>1. SUFFICES ASSUME i < x PROVE FALSE
          OBVIOUS
        <4>2. i \in 1 .. x - 1
          BY <1>1, <3>1, <4>1
        <4>3. ~Matches(es[i], name)
          BY <3>1, <4>2 DEF Without
        <4> QED BY <4>3
      <3>4. x = i
        BY <1>1, <3>1, <3>2, <3>3
      <3> QED BY <2>2, <3>4
    <2>3. CASE k > m + 1
      <3>1. m + 1 \in 1 .. k - 1
        BY <1>4, <2>3
      <3>2. Without(es, DOMAIN es, name)
        BY <1>4, <3>1 DEF IsFirst
      <3>3. ~Matches(es[i], name)
        BY <1>1, <3>2 DEF Without
      <3> QED BY <3>3
    <2>4. k \in Nat
      BY <1>4
    <2> QED BY <2>1, <2>2, <2>3, <2>4
  <1>5. es[i] \in Named(d, tags, name)
    <2>1. i \in {x \in DOMAIN es : IsFirst(d, tags, m + 1, x, name)}
      BY <1>1, <1>3
    <2>2. es[i] \in {EntriesAt(d, tags[m + 1])[x] : x \in {x \in DOMAIN EntriesAt(d, tags[m + 1]) :
                                                        IsFirst(d, tags, m + 1, x, name)}}
      BY <2>1
    <2> QED BY <2>2 DEF Named
  <1>6. \A e \in Named(d, tags, name) : e = es[i]
    BY <1>4 DEF Named
  <1> QED BY <1>5, <1>6

\* A name that is not in the directory leads to nothing.
LEMMA FollowNone ==
  ASSUME NEW d, NEW dir, NEW name, name # EmptySegment, Named(d, Listed(d, dir), name) = {}
  PROVE  Follow(d, [kind |-> "Dir", first |-> dir], name) = Absent
  BY DEF Follow

\* A name that is in the directory leads to its entry.
LEMMA FollowFound ==
  ASSUME NEW d, NEW dir, NEW name, name # EmptySegment, NEW e,
         Named(d, Listed(d, dir), name) = {e}
  PROVE  Follow(d, [kind |-> "Dir", first |-> dir], name)
           = [kind |-> IF e.dir THEN "Dir" ELSE "File", first |-> e.cluster]
  <1>1. (CHOOSE x \in {e} : TRUE) = e
    OBVIOUS
  <1> QED BY <1>1 DEF Follow

(***************************************************************************)
(* The walk along a path.                                                  *)
(***************************************************************************)

\* Induction over the natural numbers, for a set.
LEMMA SetInduction ==
  ASSUME NEW K, 0 \in K, \A k \in Nat : k \in K => k + 1 \in K
  PROVE  Nat \subseteq K
  <1> DEFINE R == OpToRel(<, Nat)
  <1>1. IsWellFoundedOn(R, Nat)
    BY NatLessThanWellFounded
  <1>2. \A x, y \in Nat : x < y => <<x, y>> \in R
    BY DEF OpToRel
  <1> HIDE DEF R
  <1>3. SUFFICES ASSUME Nat \ K # {} PROVE FALSE
    OBVIOUS
  <1>4. PICK x \in Nat \ K : \A y \in Nat \ K : ~ (<<y, x>> \in R)
    BY <1>1, <1>3, WFMin
  <1>5. x # 0 /\ x - 1 \in Nat /\ x - 1 < x /\ (x - 1) + 1 = x
    BY <1>4
  <1> QED BY <1>2, <1>4, <1>5

\* Every path can be walked, and the walk ends where the path leads.
LEMMA WalkIs ==
  ASSUME NEW d, NEW S, NEW p \in Seq(S), p # <<>>
  PROVE  /\ Walk(d, p)[1] = [kind |-> "Dir", first |-> Root]
         /\ \A i \in 2 .. Len(p) : Walk(d, p)[i] = Follow(d, Walk(d, p)[i - 1], p[i])
         /\ Head(p) = EmptySegment => Lookup(d, p) = Walk(d, p)[Len(p)]
  <1> DEFINE K == {k \in Nat : \E f : IsWalk(d, p, f, k)}
  <1>1. 0 \in K
    <2>1. IsWalk(d, p, [i \in 1 .. 0 |-> 0], 0)
      BY DEF IsWalk
    <2> QED BY <2>1
  <1>2. ASSUME NEW k \in Nat, k \in K PROVE k + 1 \in K
    <2>1. PICK f : IsWalk(d, p, f, k)
      BY <1>2
    <2> DEFINE x == IF k = 0 THEN [kind |-> "Dir", first |-> Root] ELSE Follow(d, f[k], p[k + 1])
               g == [i \in 1 .. k + 1 |-> IF i <= k THEN f[i] ELSE x]
    <2>2. ASSUME NEW i \in 1 .. k + 1
          PROVE  g[i] = IF i = 1 THEN [kind |-> "Dir", first |-> Root] ELSE Follow(d, g[i - 1], p[i])
      <3>1. CASE i <= k
        <4>1. i \in 1 .. k /\ (i # 1 => i - 1 \in 1 .. k)
          BY <3>1, <2>2
        <4>2. g[i] = f[i] /\ (i # 1 => g[i - 1] = f[i - 1])
          BY <4>1
        <4>3. f[i] = IF i = 1 THEN [kind |-> "Dir", first |-> Root] ELSE Follow(d, f[i - 1], p[i])
          BY <2>1, <4>1 DEF IsWalk
        <4> QED BY <4>2, <4>3
      <3>2. CASE i = k + 1
        <4>1. g[i] = x
          BY <3>2
        <4>2. CASE k = 0
          BY <3>2, <4>1, <4>2
        <4>3. CASE k # 0
          <5>1. g[k] = f[k] /\ i - 1 = k /\ i # 1
            BY <3>2, <4>3
          <5> QED BY <4>1, <4>3, <5>1, <3>2
        <4> QED BY <4>2, <4>3
      <3> QED BY <2>2, <3>1, <3>2
    <2>3. IsWalk(d, p, g, k + 1)
      <3>1. g = [i \in 1 .. k + 1 |-> g[i]]
        OBVIOUS
      <3> HIDE DEF g
      <3> QED BY <2>2, <3>1 DEF IsWalk
    <2> HIDE DEF g
    <2> QED BY <2>3
  <1>3. \A k \in Nat : k \in K => k + 1 \in K
    BY <1>2
  <1> HIDE DEF K
  <1>4. Len(p) \in K
    <2>1. Nat \subseteq K
      BY <1>1, <1>3, SetInduction
    <2> QED BY <2>1
  <1>5. IsWalk(d, p, Walk(d, p), Len(p))
    BY <1>4 DEF K, Walk
  <1>6. Len(p) \in Nat \ {0}
    BY EmptySeq
  <1>7. Walk(d, p)[1] = [kind |-> "Dir", first |-> Root]
    BY <1>5, <1>6 DEF IsWalk
  <1>8. \A i \in 2 .. Len(p) : Walk(d, p)[i] = Follow(d, Walk(d, p)[i - 1], p[i])
    BY <1>5, <1>6 DEF IsWalk
  <1>9. Head(p) = EmptySegment => Lookup(d, p) = Walk(d, p)[Len(p)]
    BY DEF Lookup, Walk, IsWalk
  <1> QED BY <1>7, <1>8, <1>9

\* A walk that has come to no directory leads to nothing.
LEMMA WalkEnds ==
  ASSUME NEW d, NEW S, NEW p \in Seq(S), p # <<>>, NEW i \in 1 .. Len(p), i < Len(p),
         Walk(d, p)[i].kind # "Dir"
  PROVE  Walk(d, p)[Len(p)] = Absent
  <1> DEFINE K == {k \in Nat : i + 1 + k <= Len(p) => Walk(d, p)[i + 1 + k] = Absent}
  <1>1. 0 \in K
    <2>1. i + 1 \in 2 .. Len(p) /\ (i + 1) - 1 = i
      OBVIOUS
    <2>2. Walk(d, p)[i + 1] = Follow(d, Walk(d, p)[i], p[i + 1])
      BY <2>1, WalkIs
    <2> QED BY <2>2 DEF Follow
  <1>2. ASSUME NEW k \in Nat, k \in K PROVE k + 1 \in K
    <2>1. SUFFICES ASSUME i + 1 + (k + 1) <= Len(p) PROVE Walk(d, p)[i + 1 + (k + 1)] = Absent
      OBVIOUS
    <2> DEFINE j == i + 1 + (k + 1)
    <2>2. j \in 2 .. Len(p) /\ j - 1 = i + 1 + k /\ i + 1 + k <= Len(p)
      BY <2>1
    <2>3. Walk(d, p)[j - 1] = Absent
      BY <1>2, <2>2
    <2> HIDE DEF j
    <2>4. Walk(d, p)[j] = Follow(d, Walk(d, p)[j - 1], p[j])
      BY <2>2, WalkIs
    <2>5. Walk(d, p)[j] = Absent
      BY <2>3, <2>4 DEF Follow, Absent
    <2> QED BY <2>5 DEF j
  <1>3. \A k \in Nat : k \in K => k + 1 \in K
    BY <1>2
  <1> HIDE DEF K
  <1>4. Nat \subseteq K
    BY <1>1, <1>3, SetInduction
  <1>5. Len(p) - i - 1 \in Nat /\ i + 1 + (Len(p) - i - 1) = Len(p)
    OBVIOUS
  <1>6. Len(p) - i - 1 \in K
    BY <1>4, <1>5
  <1> QED BY <1>5, <1>6 DEF K

(***************************************************************************)
(* The steps.                                                              *)
(***************************************************************************)

\* The sector of the FAT with the entry of a cluster is a sector number.
LEMMA FatSectorIsNat ==
  ASSUME disk \in Disks, Mounted, NEW c \in Nat
  PROVE  FatSectorOf(c) \in Nat
  <1>1. Bpb(disk).reserved_sector_count \in Nat
    BY DisksAssumption DEF WellFormed, GeometryFits
  <1>2. c * FatEntrySize \in Nat
    BY ProductIsNat, LayoutAssumption
  <1>3. (c * FatEntrySize) \div SectorSize \in Nat
    BY <1>2, QuotientIsNat, LayoutAssumption
  <1> QED BY <1>1, <1>3 DEF FatSectorOf, first_fat_sector, Mounted

\* The clusters of a chain are followed to its end.
LEMMA NextOf ==
  ASSUME disk \in Disks, Mounted, NEW first \in Heads(disk),
         NEW k \in 1 .. Len(ChainOf(disk, first))
  PROVE  LET chain == ChainOf(disk, first)
         IN  /\ ~NextPanics(chain[k])
             /\ Next_cluster(chain[k]) = IF k < Len(chain) THEN chain[k + 1] ELSE NoCluster
             /\ chain[k] # NoCluster
  <1> DEFINE chain == ChainOf(disk, first)
             c == chain[k]
             next == IF k < Len(chain) THEN {chain[k + 1]} ELSE EndOfChain .. NoCluster - 1
  <1>1. chain \in Seq(Nat) /\ k \in DOMAIN chain /\ ChainFits(disk, chain)
    BY ChainIs
  <1>2. ClusterFits(disk, c, next)
    BY <1>1 DEF ChainFits
  <1>4. c \in Nat /\ c >= 2 /\ c < BadCluster
    BY <1>2, BadClusterIsNat DEF ClusterFits
  <1>3. c < max_cluster /\ InPartition(FatSectorOf(c)) /\ FatEntry(c) \in next
    <2>1. c < max_cluster /\ FatSectorOf(c) + 1 <= part.sectors /\ FatEntry(c) \in next
      BY <1>2 DEF ClusterFits, Mounted, max_cluster, fat_sector_count, FatSectorOf,
         first_fat_sector, FatEntry, Sector
    <2>2. FatSectorOf(c) \in Nat
      BY <1>4, FatSectorIsNat
    <2>3. part.sectors \in Nat
      BY Geometry DEF Mounted
    <2> QED BY <2>1, <2>2, <2>3 DEF InPartition
  <1>5. max_cluster \in Nat
    BY DisksAssumption, LayoutAssumption, QuotientIsNat, ProductIsNat
       DEF WellFormed, GeometryFits, Mounted, max_cluster, fat_sector_count
  <1>6. ~ (c >= max_cluster)
    BY <1>3, <1>4, <1>5
  <1>7. CASE k < Len(chain)
    <2>1. FatEntry(c) = chain[k + 1]
      BY <1>3, <1>7
    <2>2. k + 1 \in DOMAIN chain
      BY <1>1, <1>7
    <2>3. PICK x : ClusterFits(disk, chain[k + 1], x)
      BY <1>1, <2>2 DEF ChainFits
    <2>4. chain[k + 1] \in Nat /\ chain[k + 1] < BadCluster
      BY <2>3, BadClusterIsNat DEF ClusterFits
    <2>5. FatEntry(c) # BadCluster /\ ~ (FatEntry(c) >= EndOfChain)
      BY <2>1, <2>4 DEF BadCluster, EndOfChain
    <2>6. ~NextPanics(c)
      BY <1>3, <1>6, <2>5 DEF NextPanics
    <2> QED BY <1>4, <1>7, <2>1, <2>5, <2>6 DEF Next_cluster, BadCluster, NoCluster
  <1>8. CASE ~ (k < Len(chain))
    <2>1. FatEntry(c) \in EndOfChain .. NoCluster - 1
      BY <1>3, <1>8
    <2>2. FatEntry(c) # BadCluster /\ FatEntry(c) >= EndOfChain
      BY <2>1 DEF BadCluster, EndOfChain, NoCluster
    <2>3. ~NextPanics(c)
      BY <1>3, <1>6, <2>2 DEF NextPanics
    <2> QED BY <1>4, <1>8, <2>2, <2>3 DEF Next_cluster, BadCluster, NoCluster
  <1> QED BY <1>7, <1>8

\* Nothing times anything.
LEMMA ZeroTimes ==
  ASSUME NEW x \in Nat
  PROVE  0 * x = 0
  OBVIOUS

\* The count of the bytes is the same when nothing is read.
LEMMA PosSame ==
  ASSUME hist' = hist, bpb' = bpb
  PROVE  pos' = pos
  BY DEF pos, ClusterBytes, sectors_per_cluster

\* A file that has not been read is at its beginning.
LEMMA PosNone ==
  ASSUME hist = NoHist, bpb.sectors_per_cluster \in Nat
  PROVE  pos = 0
  <1>1. ClusterBytes \in Nat
    BY ProductIsNat, LayoutAssumption DEF ClusterBytes, sectors_per_cluster
  <1>2. 0 * ClusterBytes = 0
    BY <1>1
  <1> QED BY <1>2 DEF pos, NoHist

\* A read returns after it has copied t bytes.
LEMMA PosReturns ==
  ASSUME FatInv, NEW t \in Nat, bpb' = bpb,
         hist' = [hist EXCEPT !.bytes = hist.bytes + t]
  PROVE  pos' = pos + t /\ hist' \in [bytes : Nat, repeats : 0 .. MaxRepeats]
  <1> DEFINE x == hist.repeats * ClusterBytes
  <1>1. hist \in [bytes : Nat, repeats : 0 .. MaxRepeats] /\ bpb.sectors_per_cluster \in Nat
    BY DEF FatInv, TypePart
  <1>2. x \in Nat
    BY <1>1, ProductIsNat, LayoutAssumption DEF ClusterBytes, sectors_per_cluster
  <1>3. /\ hist'.bytes = hist.bytes + t /\ hist'.repeats = hist.repeats
        /\ hist' \in [bytes : Nat, repeats : 0 .. MaxRepeats]
    BY <1>1
  <1>4. pos' = hist'.bytes - x
    BY <1>3 DEF pos, ClusterBytes, sectors_per_cluster
  <1> HIDE DEF x
  <1>5. pos = hist.bytes - x
    BY DEF pos, x
  <1> QED BY <1>1, <1>2, <1>3, <1>4, <1>5

\* A read fails because of the FAT after it has copied t bytes.
LEMMA PosRepeats ==
  ASSUME FatInv, NEW t \in Nat, bpb' = bpb, hist.repeats < MaxRepeats,
         hist' = [bytes |-> hist.bytes + t, repeats |-> hist.repeats + 1]
  PROVE  /\ pos' = (pos + t) - ClusterBytes
         /\ hist' \in [bytes : Nat, repeats : 0 .. MaxRepeats]
  <1> DEFINE x == hist.repeats * ClusterBytes
  <1>1. hist \in [bytes : Nat, repeats : 0 .. MaxRepeats] /\ bpb.sectors_per_cluster \in Nat
        /\ MaxRepeats \in Nat
    BY LayoutAssumption DEF FatInv, TypePart
  <1>2. x \in Nat /\ ClusterBytes \in Nat
    BY <1>1, ProductIsNat, LayoutAssumption DEF ClusterBytes, sectors_per_cluster
  <1>3. hist' \in [bytes : Nat, repeats : 0 .. MaxRepeats]
    BY <1>1
  <1>4. (hist.repeats + 1) * ClusterBytes = x + ClusterBytes
    <2>1. \A a, b \in Nat : (a + 1) * b = a * b + b
      OBVIOUS
    <2>2. hist.repeats \in Nat
      BY <1>1
    <2> HIDE DEF x
    <2> QED BY <1>2, <2>1, <2>2, Zenon DEF x
  <1>5. pos' = (hist.bytes + t) - (hist.repeats + 1) * ClusterBytes
    BY DEF pos, ClusterBytes, sectors_per_cluster
  <1> HIDE DEF x
  <1>6. pos = hist.bytes - x
    BY DEF pos, x
  <1> QED BY <1>1, <1>2, <1>3, <1>4, <1>5, <1>6

\* The kernel panics.
LEMMA PanicStep ==
  ASSUME FatInv, NEW why, Panic(why), UNCHANGED <<mountVars, op, file, call, last, hist>>,
         \/ why \in {"boot", "write", "path not utf8", "memory"}
         \/ why = "entry not utf8" /\ Undecodable(disk)
         \/ why \in {"underflow", "partition", "cluster"} /\ file.kind = "File" /\ file.first = 0
  PROVE  FatInv'
  <1> USE DEF FatInv, Panic, mountVars
  <1>1. TypePart'
    BY PosSame DEF TypePart
  <1>2. MountPart'
    BY DEF MountPart
  <1>3. PanicPart'
    BY DEF PanicPart
  <1>4. PositionPart' /\ GotPart' /\ WalkPart' /\ ScanPart'
    BY DEF PositionPart, GotPart, WalkPart, ScanPart
  <1>5. OpenIsLookup'
    BY DEF OpenIsLookup
  <1> QED BY <1>1, <1>2, <1>3, <1>4, <1>5

\* The boot state satisfies the invariant.
LEMMA InitStep ==
  Init => FatInv
  <1> SUFFICES ASSUME Init PROVE FatInv
    OBVIOUS
  <1> USE DEF Init
  <1>1. <<>> \in Seq(Seq(STRING)) /\ <<EmptySegment>> \in Seq(Seq(STRING)) \ {<<>>}
    BY DEF EmptySegment
  <1>2. op \in [path : Seq(Seq(STRING)) \ {<<>>}, rest : Seq(Seq(STRING)), dir : Nat,
                sectors : Seq(Nat), cluster : Nat] /\ Len(op.rest) <= Len(op.path)
    BY <1>1 DEF NoOp, Root, NoCluster
  <1>3. file \in [kind : {"None", "Dir", "File"}, first : Nat, cluster : Nat, sector : Nat,
                  offset : 0 .. SectorSize]
    BY LayoutAssumption DEF NoFile, NoCluster
  <1>4. file.sector = 0 /\ bpb.sectors_per_cluster = 0 /\ file.kind = "None"
    BY DEF NoFile
  <1>5. call \in [left : Nat, got : Seq(Nat \X Nat)]
    OBVIOUS
  <1>6. TypePart
    <2>1. pos = 0 /\ hist \in [bytes : Nat, repeats : 0 .. MaxRepeats]
      BY <1>4, PosNone, LayoutAssumption DEF NoHist
    <2> QED BY <1>2, <1>3, <1>4, <1>5, <2>1 DEF TypePart
  <1>7. MountPart /\ PanicPart /\ PositionPart /\ GotPart /\ WalkPart /\ ScanPart
    BY <1>4 DEF MountPart, PanicPart, PositionPart, GotPart, WalkPart, ScanPart
  <1>8. OpenIsLookup
    BY DEF OpenIsLookup
  <1> QED BY <1>6, <1>7, <1>8 DEF FatInv

\* Mbr::partitions takes the partition of the disk.
LEMMA ReadMbrStep ==
  ASSUME FatInv, ReadMbr
  PROVE  FatInv'
  <1>1. CASE Panic("boot") /\ UNCHANGED part
    BY <1>1, PanicStep DEF ReadMbr, mountVars
  <1>2. CASE /\ part' = [lba |-> disk.sectors[1].parts[1].lba,
                         sectors |-> disk.sectors[1].parts[1].sectors]
             /\ pc' = "bpb" /\ UNCHANGED panic
    <2> USE DEF FatInv, ReadMbr
    <2>1. TypePart'
      BY <1>2, PosSame DEF TypePart
    <2>2. MountPart'
      BY <1>2 DEF MountPart, Part
    <2>3. PanicPart'
      BY <1>2 DEF PanicPart
    <2>4. PositionPart' /\ GotPart' /\ WalkPart' /\ ScanPart'
      BY <1>2 DEF PositionPart, GotPart, WalkPart, ScanPart
    <2>5. OpenIsLookup'
      BY <1>2 DEF OpenIsLookup
    <2> QED BY <2>1, <2>2, <2>3, <2>4, <2>5
  <1> QED BY <1>1, <1>2 DEF ReadMbr

\* BiosParameterBlock::read takes the parameters of the volume.
LEMMA ReadBpbStep ==
  ASSUME FatInv, ReadBpb
  PROVE  FatInv'
  <1>1. CASE Panic("boot") /\ UNCHANGED bpb
    BY <1>1, PanicStep DEF ReadBpb, mountVars
  <1>2. CASE bpb' = Sector(0).bpb /\ pc' = "idle" /\ UNCHANGED panic
    <2> USE DEF FatInv, ReadBpb
    <2>1. part.lba = Part(disk).lba /\ part.sectors = Part(disk).sectors /\ file = NoFile
          /\ disk \in Disks
      BY DEF MountPart, TypePart
    <2>2. 0 + part.lba + 1 = Part(disk).lba + 1
      BY <2>1, Geometry
    <2>3. Sector(0).bpb = Bpb(disk)
      BY <2>1, <2>2 DEF Sector, Bpb
    <2>4. bpb' = Bpb(disk) /\ bpb'.sectors_per_cluster \in Nat
      BY <1>2, <2>1, <2>3, Geometry
    <2>5. file.sector = 0 /\ file.kind = "None"
      BY <2>1 DEF NoFile
    <2>6. TypePart'
      <3>1. hist' = NoHist
        BY <2>5 DEF MountPart
      <3>2. pos' = 0
        <4>1. hist'.bytes = 0 /\ hist'.repeats = 0
          BY <3>1 DEF NoHist
        <4>2. ClusterBytes' \in Nat
          BY <2>4, ProductIsNat, LayoutAssumption DEF ClusterBytes, sectors_per_cluster
        <4>3. 0 * ClusterBytes' = 0
          BY ONLY <4>2, ZeroTimes
        <4> QED BY <4>1, <4>3 DEF pos
      <3> QED BY <1>2, <2>4, <2>5, <3>2 DEF TypePart
    <2>7. MountPart'
      BY <1>2, <2>1, <2>4 DEF MountPart, Mounted
    <2>8. PanicPart'
      BY <1>2 DEF PanicPart
    <2>9. PositionPart' /\ GotPart' /\ WalkPart' /\ ScanPart'
      BY <1>2, <2>5 DEF PositionPart, GotPart, WalkPart, ScanPart
    <2>10. OpenIsLookup'
      BY <1>2 DEF OpenIsLookup, MountPart
    <2> QED BY <2>6, <2>7, <2>8, <2>9, <2>10
  <1> QED BY <1>1, <1>2 DEF ReadBpb

\* A write ends in the panic that a program may ask for.
LEMMA WriteCallStep ==
  ASSUME FatInv, WriteCall
  PROVE  FatInv'
  BY PanicStep DEF WriteCall

\* Closing the file forgets its position.
LEMMA CloseStep ==
  ASSUME FatInv, Close
  PROVE  FatInv'
  <1> USE DEF FatInv, Close, mountVars
  <1>1. file' \in [kind : {"None", "Dir", "File"}, first : Nat, cluster : Nat, sector : Nat,
                   offset : 0 .. SectorSize] /\ file'.sector = 0 /\ file'.kind = "None"
    BY LayoutAssumption DEF NoFile, NoCluster
  <1>2. TypePart'
    <2>1. hist' \in [bytes : Nat, repeats : 0 .. MaxRepeats] /\ hist'.bytes = 0 /\ hist'.repeats = 0
      BY LayoutAssumption DEF NoHist
    <2>2. ClusterBytes' \in Nat
      BY ProductIsNat, LayoutAssumption DEF TypePart, ClusterBytes, sectors_per_cluster
    <2>3. 0 * ClusterBytes' = 0
      BY ONLY <2>2, ZeroTimes
    <2>4. pos' = 0
      BY <2>1, <2>3 DEF pos
    <2> QED BY <1>1, <2>1, <2>4 DEF TypePart
  <1>3. MountPart'
    BY <1>1 DEF MountPart, Mounted
  <1>4. PanicPart'
    BY DEF PanicPart
  <1>5. PositionPart' /\ GotPart' /\ WalkPart' /\ ScanPart'
    BY <1>1 DEF PositionPart, GotPart, WalkPart, ScanPart
  <1>6. OpenIsLookup'
    BY DEF OpenIsLookup
  <1> QED BY <1>2, <1>3, <1>4, <1>5, <1>6

\* A step that changes nothing keeps the invariant.
LEMMA StutterStep ==
  ASSUME FatInv, UNCHANGED vars
  PROVE  FatInv'
  <1> USE DEF FatInv, vars
  <1>0. pos' = pos
    BY PosSame
  <1>1. TypePart' /\ MountPart' /\ PanicPart'
    BY <1>0 DEF TypePart, MountPart, Mounted, PanicPart
  <1>2. PositionPart' /\ GotPart'
    BY <1>0 DEF PositionPart, InChain, AtEnd, Total, GotPart
  <1>3. WalkPart' /\ OpenIsLookup'
    BY DEF WalkPart, OpenIsLookup
  <1>4. ScanPart'
    BY DEF ScanPart, Searched
  <1> QED BY <1>1, <1>2, <1>3, <1>4

(***************************************************************************)
(* open.                                                                   *)
(***************************************************************************)

OpType == [path : Seq(Seq(STRING)) \ {<<>>}, rest : Seq(Seq(STRING)), dir : Nat,
           sectors : Seq(Nat), cluster : Nat]
FileType == [kind : {"None", "Dir", "File"}, first : Nat, cluster : Nat, sector : Nat,
             offset : 0 .. SectorSize]

\* What is known of the open in progress.
LEMMA Opening ==
  ASSUME FatInv, pc \in {"segment", "scan"}
  PROVE  /\ disk \in Disks /\ Mounted /\ file = NoFile /\ hist = NoHist /\ pos = 0
         /\ panic = "none"
         /\ op \in OpType /\ Len(op.rest) <= Len(op.path)
         /\ Head(op.path) = EmptySegment
         /\ op.dir = Root \/ op.dir \in DirHeads(disk)
  <1>1. file = NoFile /\ Mounted
    BY DEF FatInv, MountPart
  <1>2. hist = NoHist /\ pos = 0
    <2>1. hist = NoHist /\ bpb.sectors_per_cluster \in Nat
      BY <1>1 DEF FatInv, MountPart, NoFile, TypePart
    <2> QED BY <2>1, PosNone
  <1> QED BY <1>1, <1>2 DEF FatInv, TypePart, PanicPart, WalkPart, OpType

\* What open may return.
Opened(ret) ==
  /\ \/ UNCHANGED file /\ ret # "Ok"
     \/ \E x \in Nat : /\ file' = [NoFile EXCEPT !.kind = "Dir", !.first = x]
                       /\ Lookup(disk, op.path) = [kind |-> "Dir", first |-> x]
                       /\ ret = "Ok"
     \/ \E x \in Heads(disk) \cup {0} :
          /\ file' = [NoFile EXCEPT !.kind = "File", !.first = x, !.cluster = x]
          /\ Lookup(disk, op.path) = [kind |-> "File", first |-> x]
          /\ ret = "Ok"
  /\ ret = "NotFound" => Lookup(disk, op.path).kind = "None"

\* A file that has just been opened.
NewFile(f) ==
  /\ f \in FileType /\ f.sector = 0 /\ f.offset = 0
  /\ f.kind = "None" => f = NoFile
  /\ f.kind = "File" => f.first \in Heads(disk) \cup {0} /\ f.cluster = f.first

\* What open leaves as the open file: it is at its beginning.
LEMMA OpenedFile ==
  ASSUME disk \in Disks, file = NoFile, NEW ret, Opened(ret)
  PROVE  /\ NewFile(file')
         /\ ret = "Ok" => [kind |-> file'.kind, first |-> file'.first] = Lookup(disk, op.path)
         /\ ret = "NotFound" => Lookup(disk, op.path).kind = "None"
  <1>1. SectorSize \in Nat
    BY LayoutAssumption
  <1>2. CASE UNCHANGED file /\ ret # "Ok"
    <2>1. NewFile(NoFile)
      BY <1>1 DEF NoFile, NewFile, FileType, NoCluster
    <2> QED BY <1>2, <2>1 DEF Opened
  <1>3. ASSUME NEW x \in Nat, file' = [NoFile EXCEPT !.kind = "Dir", !.first = x],
               Lookup(disk, op.path) = [kind |-> "Dir", first |-> x], ret = "Ok"
        PROVE  /\ NewFile(file') /\ ret = "Ok" /\ ret # "NotFound"
               /\ [kind |-> file'.kind, first |-> file'.first] = Lookup(disk, op.path)
    <2>1. file' = [kind |-> "Dir", first |-> x, cluster |-> NoCluster, sector |-> 0, offset |-> 0]
      BY <1>3 DEF NoFile
    <2>2. file' \in FileType
      BY <1>1, <1>3, <2>1 DEF FileType, NoCluster
    <2>3. NewFile(file')
      BY <2>1, <2>2 DEF NewFile
    <2> QED BY <1>3, <2>1, <2>3
  <1>4. ASSUME NEW x \in Heads(disk) \cup {0},
               file' = [NoFile EXCEPT !.kind = "File", !.first = x, !.cluster = x],
               Lookup(disk, op.path) = [kind |-> "File", first |-> x], ret = "Ok"
        PROVE  /\ NewFile(file') /\ ret = "Ok" /\ ret # "NotFound"
               /\ [kind |-> file'.kind, first |-> file'.first] = Lookup(disk, op.path)
    <2>1. file' = [kind |-> "File", first |-> x, cluster |-> x, sector |-> 0, offset |-> 0]
      BY <1>4 DEF NoFile
    <2>2. x \in Nat
      BY <1>4, ChainIs
    <2>3. file' \in FileType
      BY <1>1, <2>1, <2>2 DEF FileType
    <2>4. NewFile(file')
      <3>1. file'.kind = "File" /\ file'.first = x /\ file'.cluster = x
            /\ file'.sector = 0 /\ file'.offset = 0
        BY <2>1
      <3> QED BY <2>3, <3>1 DEF NewFile
    <2> QED BY <1>4, <2>1, <2>4
  <1>5. \/ UNCHANGED file /\ ret # "Ok"
        \/ \E x \in Nat : /\ file' = [NoFile EXCEPT !.kind = "Dir", !.first = x]
                          /\ Lookup(disk, op.path) = [kind |-> "Dir", first |-> x]
                          /\ ret = "Ok"
        \/ \E x \in Heads(disk) \cup {0} :
             /\ file' = [NoFile EXCEPT !.kind = "File", !.first = x, !.cluster = x]
             /\ Lookup(disk, op.path) = [kind |-> "File", first |-> x]
             /\ ret = "Ok"
    BY DEF Opened
  <1> QED BY <1>2, <1>3, <1>4, <1>5

\* open returns.
LEMMA OpenReturn ==
  ASSUME FatInv, pc \in {"segment", "scan"}, NEW ret, NEW rest \in {op.rest, <<>>},
         Open(rest, ret), UNCHANGED <<mountVars, call, panic, hist>>, Opened(ret)
  PROVE  FatInv'
  <1>1. /\ pc' = "idle" /\ last' = [call |-> "open", ret |-> ret]
        /\ op' = [op EXCEPT !.rest = rest]
        /\ disk' = disk /\ part' = part /\ bpb' = bpb /\ call' = call /\ panic' = panic
        /\ hist' = hist /\ pos' = pos
    BY PosSame DEF Open, Return, mountVars
  <1>2. /\ disk \in Disks /\ Mounted /\ file = NoFile /\ hist = NoHist /\ pos = 0 /\ panic = "none"
        /\ op \in OpType /\ Len(op.rest) <= Len(op.path)
    BY Opening
  <1>3. op' \in OpType /\ op'.path = op.path /\ Len(op'.rest) <= Len(op'.path)
    <2>1. rest \in Seq(Seq(STRING)) /\ Len(rest) <= Len(op.path)
      <3>1. CASE rest = op.rest
        BY <1>2, <3>1 DEF OpType
      <3>2. CASE rest = <<>>
        <4>1. <<>> \in Seq(Seq(STRING)) /\ Len(<<>>) = 0 /\ op.path \in Seq(Seq(STRING))
          BY <1>2 DEF OpType
        <4>2. Len(op.path) \in Nat
          BY <4>1
        <4> QED BY <4>1, <4>2, <3>2
      <3> QED BY <3>1, <3>2
    <2> QED BY <1>1, <1>2, <2>1 DEF OpType
  <1>4. /\ NewFile(file')
        /\ ret = "Ok" => [kind |-> file'.kind, first |-> file'.first] = Lookup(disk, op.path)
        /\ ret = "NotFound" => Lookup(disk, op.path).kind = "None"
    BY <1>2, OpenedFile
  <1>5. TypePart'
    <2>1. TypePart
      BY DEF FatInv
    <2> QED BY <1>1, <1>2, <1>3, <1>4, <2>1 DEF TypePart, OpType, FileType, NewFile
  <1>6. MountPart'
    BY <1>1, <1>2, <1>4 DEF MountPart, Mounted, NewFile
  <1>7. PanicPart'
    BY <1>1, <1>2 DEF PanicPart
  <1>8. PositionPart'
    <2>1. Total' = 0
      BY <1>1, <1>2 DEF Total
    <2>2. CASE file'.kind = "File" /\ file'.first = 0
      <3>1. disk.clusterSectors \in Nat \ {0}
        BY <1>2, Geometry
      <3> QED BY <1>1, <1>4, <2>2, <3>1 DEF PositionPart, NewFile
    <2>3. CASE file'.kind = "File" /\ file'.first \in Heads(disk)
      <3>1. /\ 1 \in 1 .. Len(ChainOf(disk, file'.first))
            /\ ChainOf(disk, file'.first)[1] = file'.first
            /\ disk.clusterSectors \in Nat \ {0}
        BY <1>2, <2>3, ChainIs, Geometry
      <3>2. (1 - 1) * disk.clusterSectors + 0 = 0 /\ 0 * SectorSize + 0 = 0
        BY <3>1, LayoutAssumption
      <3>3. file'.cluster = ChainOf(disk, file'.first)[1] /\ file'.sector < disk.clusterSectors
            /\ Total' = ((1 - 1) * disk.clusterSectors + file'.sector) * SectorSize + file'.offset
        BY <1>4, <2>1, <2>3, <3>1, <3>2 DEF NewFile
      <3>4. InChain(1)'
        BY <1>1, <3>3 DEF InChain
      <3> QED BY <1>1, <2>3, <3>1, <3>4 DEF PositionPart
    <2> QED BY <1>4, <2>2, <2>3 DEF PositionPart, NewFile
  <1>9. GotPart' /\ WalkPart' /\ ScanPart'
    BY <1>1 DEF GotPart, WalkPart, ScanPart
  <1>10. OpenIsLookup'
    BY <1>1, <1>3, <1>4 DEF OpenIsLookup
  <1> QED BY <1>5, <1>6, <1>7, <1>8, <1>9, <1>10 DEF FatInv

\* The walk has come to a directory, and a segment of the path is next.
LEMMA WalkedTo ==
  ASSUME FatInv, pc \in {"segment", "scan"}
  PROVE  \E i \in 1 .. Len(op.path) :
           /\ op.rest = SubSeq(op.path, i + 1, Len(op.path))
           /\ Walk(disk, op.path)[i] = [kind |-> "Dir", first |-> op.dir]
           /\ op.rest = <<>> <=> i = Len(op.path)
           /\ op.rest # <<>> => /\ i + 1 \in 2 .. Len(op.path)
                                /\ Head(op.rest) = op.path[i + 1]
                                /\ Tail(op.rest) = SubSeq(op.path, i + 2, Len(op.path))
                                /\ Walk(disk, op.path)[i + 1]
                                     = Follow(disk, Walk(disk, op.path)[i], op.path[i + 1])
                                /\ Tail(op.rest) = <<>> <=> i + 1 = Len(op.path)
  <1> DEFINE p == op.path
  <1>1. PICK i \in 1 .. Len(op.path) :
           /\ op.rest = SubSeq(op.path, i + 1, Len(op.path))
           /\ Walk(disk, op.path)[i] = [kind |-> "Dir", first |-> op.dir]
    BY DEF FatInv, WalkPart
  <1>2. p \in Seq(Seq(STRING)) /\ p # <<>> /\ op.rest \in Seq(Seq(STRING))
    BY Opening DEF OpType
  <1>3. Len(op.rest) = Len(p) - i
    BY <1>1, <1>2
  <1>4. op.rest = <<>> <=> i = Len(p)
    BY <1>2, <1>3, EmptySeq
  <1>5. ASSUME op.rest # <<>>
        PROVE  /\ i + 1 \in 2 .. Len(p) /\ Head(op.rest) = p[i + 1]
               /\ Tail(op.rest) = SubSeq(p, i + 2, Len(p))
               /\ Walk(disk, p)[i + 1] = Follow(disk, Walk(disk, p)[i], p[i + 1])
               /\ Tail(op.rest) = <<>> <=> i + 1 = Len(p)
    <2>1. i + 1 \in 2 .. Len(p) /\ (i + 1) - 1 = i /\ i \in Nat
      BY <1>1, <1>2, <1>4, <1>5
    <2>2. Head(op.rest) = p[i + 1]
      BY <1>1, <1>2, <2>1
    <2>3. Tail(op.rest) = SubSeq(p, i + 2, Len(p))
      BY <1>1, <1>2, <1>3, <2>1
    <2>4. Walk(disk, p)[i + 1] = Follow(disk, Walk(disk, p)[(i + 1) - 1], p[i + 1])
      BY <1>2, <2>1, WalkIs
    <2>5. Tail(op.rest) = <<>> <=> i + 1 = Len(p)
      <3>1. Tail(op.rest) \in Seq(Seq(STRING)) /\ Len(Tail(op.rest)) = Len(op.rest) - 1
        BY <1>2, <1>5, HeadTailProperties
      <3>2. Tail(op.rest) = <<>> <=> Len(op.rest) - 1 = 0
        BY <3>1, EmptySeq
      <3> QED BY <1>3, <2>1, <3>2
    <2> QED BY <2>1, <2>2, <2>3, <2>4, <2>5
  <1> QED BY <1>1, <1>4, <1>5

\* The walk goes on in another directory, or on to the next segment.
LEMMA WalkOn ==
  ASSUME FatInv, pc \in {"segment", "scan"}, op.rest # <<>>, NEW dir,
         dir = Root \/ dir \in DirHeads(disk),
         Follow(disk, [kind |-> "Dir", first |-> op.dir], Head(op.rest))
           = [kind |-> "Dir", first |-> dir],
         op' = [op EXCEPT !.dir = dir, !.rest = Tail(op.rest)], pc' = "segment",
         UNCHANGED <<mountVars, file, call, last, panic, hist>>
  PROVE  FatInv'
  <1>1. /\ disk' = disk /\ part' = part /\ bpb' = bpb /\ file' = file /\ call' = call
        /\ last' = last /\ panic' = panic /\ hist' = hist /\ pos' = pos
    BY PosSame DEF mountVars
  <1>2. /\ disk \in Disks /\ Mounted /\ file = NoFile /\ hist = NoHist /\ pos = 0 /\ panic = "none"
        /\ op \in OpType /\ Len(op.rest) <= Len(op.path) /\ Head(op.path) = EmptySegment
    BY Opening
  <1>3. dir \in Nat
    BY <1>2, DirHeadsFit, ChainIs DEF Root
  <1>4. /\ op' \in OpType /\ op'.path = op.path /\ op'.dir = dir /\ op'.rest = Tail(op.rest)
        /\ Len(op'.rest) <= Len(op'.path)
    <2>1. op.rest \in Seq(Seq(STRING)) /\ op.path \in Seq(Seq(STRING))
      BY <1>2 DEF OpType
    <2>2. Tail(op.rest) \in Seq(Seq(STRING)) /\ Len(Tail(op.rest)) = Len(op.rest) - 1
      BY <2>1, HeadTailProperties
    <2>3. Len(Tail(op.rest)) <= Len(op.path)
      BY <1>2, <2>1, <2>2
    <2> QED BY <1>2, <1>3, <2>2, <2>3 DEF OpType
  <1>5. TypePart'
    <2>1. TypePart
      BY DEF FatInv
    <2> QED BY <1>1, <1>4, <2>1 DEF TypePart, OpType
  <1>6. MountPart' /\ PanicPart'
    BY <1>1, <1>2 DEF MountPart, Mounted, PanicPart, NoFile
  <1>7. PositionPart' /\ GotPart' /\ ScanPart' /\ OpenIsLookup'
    BY DEF PositionPart, GotPart, ScanPart, OpenIsLookup
  <1>8. WalkPart'
    <2>1. PICK i \in 1 .. Len(op.path) :
            /\ Walk(disk, op.path)[i] = [kind |-> "Dir", first |-> op.dir]
            /\ i + 1 \in 2 .. Len(op.path) /\ Head(op.rest) = op.path[i + 1]
            /\ Tail(op.rest) = SubSeq(op.path, i + 2, Len(op.path))
            /\ Walk(disk, op.path)[i + 1]
                 = Follow(disk, Walk(disk, op.path)[i], op.path[i + 1])
      BY WalkedTo
    <2>2. i + 1 \in 1 .. Len(op.path) /\ (i + 1) + 1 = i + 2
      BY <2>1
    <2>3. Walk(disk, op.path)[i + 1] = [kind |-> "Dir", first |-> dir]
      BY <2>1
    <2>4. op'.rest = SubSeq(op'.path, (i + 1) + 1, Len(op'.path))
      BY <1>4, <2>1, <2>2
    <2>5. Walk(disk', op'.path)[i + 1] = [kind |-> "Dir", first |-> op'.dir]
      BY <1>1, <1>4, <2>3
    <2>6. i + 1 \in 1 .. Len(op'.path) /\ Head(op'.path) = EmptySegment
          /\ (op'.dir = Root \/ op'.dir \in DirHeads(disk'))
      BY <1>1, <1>2, <1>4, <2>2
    <2> QED BY <2>4, <2>5, <2>6 DEF WalkPart
  <1> QED BY <1>5, <1>6, <1>7, <1>8 DEF FatInv

\* Skipping an empty segment stays in the directory.
LEMMA SkipEmptySegmentStep ==
  ASSUME FatInv, SkipEmptySegment
  PROVE  FatInv'
  <1>1. pc = "segment" /\ op.rest # <<>> /\ Head(op.rest) = EmptySegment /\ pc' = "segment"
        /\ op' = [op EXCEPT !.rest = Tail(op.rest)]
    BY DEF SkipEmptySegment
  <1>2. op \in OpType /\ (op.dir = Root \/ op.dir \in DirHeads(disk))
    BY <1>1, Opening
  <1>3. op' = [op EXCEPT !.dir = op.dir, !.rest = Tail(op.rest)]
    BY <1>1, <1>2 DEF OpType
  <1>4. Follow(disk, [kind |-> "Dir", first |-> op.dir], Head(op.rest))
          = [kind |-> "Dir", first |-> op.dir]
    BY <1>1 DEF Follow
  <1>5. UNCHANGED <<mountVars, file, call, last, panic, hist>>
    BY DEF SkipEmptySegment
  <1> QED BY <1>1, <1>2, <1>3, <1>4, <1>5, WalkOn

\* A path that ends in a directory opens it.
LEMMA OpenedDirStep ==
  ASSUME FatInv, OpenedDir
  PROVE  FatInv'
  <1>1. pc = "segment" /\ op.rest = <<>> /\ UNCHANGED <<mountVars, call, hist>>
    BY DEF OpenedDir
  <1>2. op \in OpType /\ disk \in Disks /\ Head(op.path) = EmptySegment
    BY <1>1, Opening
  <1>3. op.path \in Seq(Seq(STRING)) /\ op.path # <<>> /\ op.dir \in Nat
    BY <1>2 DEF OpType
  <1>4. Lookup(disk, op.path) = [kind |-> "Dir", first |-> op.dir]
    <2>1. Walk(disk, op.path)[Len(op.path)] = [kind |-> "Dir", first |-> op.dir]
      BY <1>1, WalkedTo
    <2> QED BY <1>2, <1>3, <2>1, WalkIs
  <1>5. CASE /\ file' = [NoFile EXCEPT !.kind = "Dir", !.first = op.dir]
             /\ Open(<<>>, "Ok") /\ UNCHANGED panic
    <2>1. Opened("Ok")
      BY <1>3, <1>4, <1>5 DEF Opened
    <2>2. UNCHANGED <<mountVars, call, panic, hist>>
      BY <1>1, <1>5
    <2> QED BY <1>1, <1>5, <2>1, <2>2, OpenReturn
  <1>6. CASE Open(<<>>, "MemoryExhausted") /\ UNCHANGED <<file, panic>>
    <2>1. Opened("MemoryExhausted")
      BY <1>6 DEF Opened
    <2>2. UNCHANGED <<mountVars, call, panic, hist>>
      BY <1>1, <1>6
    <2> QED BY <1>1, <1>6, <2>1, <2>2, OpenReturn
  <1>7. CASE Panic("memory") /\ UNCHANGED <<op, file, last>>
    <2>1. UNCHANGED <<mountVars, op, file, call, last, hist>>
      BY <1>1, <1>7
    <2> QED BY <1>7, <2>1, PanicStep
  <1> QED BY <1>5, <1>6, <1>7 DEF OpenedDir, OpenFile, NoObject

\* open fails for another reason than the path.
LEMMA OpenFails ==
  ASSUME FatInv, pc = "scan", NEW ret, ret \in {"IoError", "MemoryExhausted"},
         Open(op.rest, ret) \/ Open(<<>>, ret),
         UNCHANGED <<mountVars, file, call, panic, hist>>
  PROVE  FatInv'
  <1>1. Opened(ret)
    BY DEF Opened
  <1>2. UNCHANGED <<mountVars, call, panic, hist>>
    OBVIOUS
  <1> QED BY <1>1, <1>2, OpenReturn

\* The segment is not in the directory.
LEMMA NotFoundStep ==
  ASSUME FatInv, pc = "scan",
         \/ Named(disk, Listed(disk, op.dir), Head(op.rest)) = {}
         \/ /\ Tail(op.rest) # <<>>
            /\ \E x : Follow(disk, [kind |-> "Dir", first |-> op.dir], Head(op.rest))
                        = [kind |-> "File", first |-> x],
         Open(op.rest, "NotFound"), UNCHANGED <<mountVars, file, call, panic, hist>>
  PROVE  FatInv'
  <1>1. op \in OpType /\ disk \in Disks /\ Head(op.path) = EmptySegment
    BY Opening
  <1>2. op.path \in Seq(Seq(STRING)) /\ op.path # <<>>
    BY <1>1 DEF OpType
  <1>3. op.rest # <<>> /\ Head(op.rest) # EmptySegment
    BY DEF FatInv, ScanPart
  <1>4. PICK i \in 1 .. Len(op.path) :
            /\ Walk(disk, op.path)[i] = [kind |-> "Dir", first |-> op.dir]
            /\ i + 1 \in 2 .. Len(op.path) /\ Head(op.rest) = op.path[i + 1]
            /\ Walk(disk, op.path)[i + 1]
                 = Follow(disk, Walk(disk, op.path)[i], op.path[i + 1])
            /\ Tail(op.rest) = <<>> <=> i + 1 = Len(op.path)
    BY <1>3, WalkedTo
  <1>5. Walk(disk, op.path)[i + 1]
          = Follow(disk, [kind |-> "Dir", first |-> op.dir], Head(op.rest))
    BY <1>4
  <1>6. Walk(disk, op.path)[Len(op.path)] = Absent
    <2>1. CASE Named(disk, Listed(disk, op.dir), Head(op.rest)) = {}
      <3>1. Walk(disk, op.path)[i + 1] = Absent
        BY <1>3, <1>5, <2>1, FollowNone
      <3>2. CASE i + 1 = Len(op.path)
        BY <3>1, <3>2
      <3>3. CASE i + 1 # Len(op.path)
        <4>1. i + 1 \in 1 .. Len(op.path) /\ i + 1 < Len(op.path)
          BY <1>2, <1>4, <3>3
        <4>2. Walk(disk, op.path)[i + 1].kind # "Dir"
          BY <3>1 DEF Absent
        <4> QED BY <1>2, <4>1, <4>2, WalkEnds
      <3> QED BY <3>2, <3>3
    <2>2. ASSUME Tail(op.rest) # <<>>, NEW x,
                 Follow(disk, [kind |-> "Dir", first |-> op.dir], Head(op.rest))
                   = [kind |-> "File", first |-> x]
          PROVE  Walk(disk, op.path)[Len(op.path)] = Absent
      <3>1. Walk(disk, op.path)[i + 1].kind # "Dir"
        BY <1>5, <2>2
      <3>2. i + 1 \in 1 .. Len(op.path) /\ i + 1 < Len(op.path)
        BY <1>2, <1>4, <2>2
      <3> QED BY <1>2, <3>1, <3>2, WalkEnds
    <2> QED BY <2>1, <2>2
  <1>7. Lookup(disk, op.path).kind = "None"
    BY <1>1, <1>2, <1>6, WalkIs DEF Absent
  <1>8. Opened("NotFound")
    BY <1>7 DEF Opened
  <1>9. UNCHANGED <<mountVars, call, panic, hist>>
    OBVIOUS
  <1> QED BY <1>8, <1>9, OpenReturn

\* The scan of a directory goes on.
LEMMA ScanOn ==
  ASSUME FatInv, pc \in {"segment", "scan"}, op.rest # <<>>, Head(op.rest) # EmptySegment,
         NEW sectors \in Seq(Nat), NEW cluster \in Nat,
         op' = [op EXCEPT !.cluster = cluster, !.sectors = sectors], pc' = "scan",
         UNCHANGED <<mountVars, file, call, last, panic, hist>>,
         \E m \in Nat :
           /\ \A l \in 1 .. m : Without(EntriesAt(disk, Listed(disk, op.dir)[l]),
                                        DOMAIN EntriesAt(disk, Listed(disk, op.dir)[l]),
                                        Head(op.rest))
           /\ \A i \in 1 .. Len(sectors) :
                /\ m + i \in DOMAIN Listed(disk, op.dir)
                /\ PlaceOf(disk, Listed(disk, op.dir)[m + i]) = sectors[i] + part.lba
           /\ IF op.dir = Root
              THEN cluster = NoCluster /\ m + Len(sectors) = disk.rootSectors
              ELSE \E k \in 1 .. Len(ChainOf(disk, op.dir)) :
                     /\ cluster = ChainOf(disk, op.dir)[k]
                     /\ m + Len(sectors) = (k - 1) * disk.clusterSectors
  PROVE  FatInv'
  <1>1. /\ disk' = disk /\ part' = part /\ bpb' = bpb /\ file' = file /\ call' = call
        /\ last' = last /\ panic' = panic /\ hist' = hist /\ pos' = pos
    BY PosSame DEF mountVars
  <1>2. /\ disk \in Disks /\ Mounted /\ file = NoFile /\ hist = NoHist /\ pos = 0 /\ panic = "none"
        /\ op \in OpType /\ Len(op.rest) <= Len(op.path)
    BY Opening
  <1>3. /\ op' \in OpType /\ op'.path = op.path /\ op'.dir = op.dir /\ op'.rest = op.rest
        /\ op'.sectors = sectors /\ op'.cluster = cluster
    BY <1>2 DEF OpType
  <1>4. TypePart'
    <2>1. TypePart
      BY DEF FatInv
    <2> QED BY <1>1, <1>2, <1>3, <2>1 DEF TypePart, OpType
  <1>5. MountPart' /\ PanicPart'
    BY <1>1, <1>2 DEF MountPart, Mounted, PanicPart, NoFile
  <1>6. PositionPart' /\ GotPart' /\ OpenIsLookup'
    BY DEF PositionPart, GotPart, OpenIsLookup
  <1>7. WalkPart'
    <2>1. WalkPart
      BY DEF FatInv
    <2> QED BY <1>1, <1>3, <2>1 DEF WalkPart
  <1>8. ScanPart'
    <2>1. \E m \in Nat : Searched(m)'
      BY <1>1, <1>3 DEF Searched
    <2> QED BY <1>3, <2>1 DEF ScanPart
  <1> QED BY <1>4, <1>5, <1>6, <1>7, <1>8 DEF FatInv

\* At the beginning of a scan nothing has been searched.
LEMMA StartScanStep ==
  ASSUME FatInv, StartScan
  PROVE  FatInv'
  <1>1. /\ pc = "segment" /\ pc' = "scan" /\ op.rest # <<>> /\ Head(op.rest) # EmptySegment
        /\ UNCHANGED <<mountVars, file, call, last, panic, hist>>
    BY DEF StartScan
  <1>2. disk \in Disks /\ Mounted /\ op \in OpType /\ (op.dir = Root \/ op.dir \in DirHeads(disk))
    BY <1>1, Opening
  <1>3. CASE op.dir = Root
    <2> DEFINE sectors == [i \in 1 .. root_dir_sector_count |-> first_root_dir_sector + i - 1]
    <2>1. op' = [op EXCEPT !.cluster = NoCluster, !.sectors = sectors]
      BY <1>3 DEF StartScan
    <2>2. root_dir_sector_count = disk.rootSectors /\ first_root_dir_sector = RootStart(disk)
          /\ disk.rootSectors \in Nat /\ RootStart(disk) \in Nat
          /\ part.lba = Part(disk).lba
      BY <1>2, Geometry DEF Mounted, root_dir_sector_count, RootCount, first_root_dir_sector,
         RootStart, first_fat_sector, all_fats_sector_count, fat_sector_count
    <2>3. sectors \in Seq(Nat) /\ Len(sectors) = disk.rootSectors
          /\ \A i \in 1 .. Len(sectors) : sectors[i] = RootStart(disk) + i - 1
      BY <2>2, SMTT(30)
    <2> HIDE DEF sectors
    <2>4. ASSUME NEW i \in 1 .. Len(sectors)
          PROVE  /\ 0 + i \in DOMAIN Listed(disk, op.dir)
                 /\ PlaceOf(disk, Listed(disk, op.dir)[0 + i]) = sectors[i] + part.lba
      <3>1. i \in 1 .. disk.rootSectors /\ 0 + i = i
        BY <2>2, <2>3
      <3>2. PlaceOf(disk, Listed(disk, Root)[i]) = RootStart(disk) + i - 1 + Part(disk).lba
        BY <1>2, <3>1, ListedRoot
      <3>3. i \in DOMAIN Listed(disk, Root)
        BY <1>2, <3>1, ListedLength
      <3> QED BY <1>3, <2>2, <2>3, <3>1, <3>2, <3>3
    <2>5. 0 + Len(sectors) = disk.rootSectors /\ NoCluster \in Nat /\ 0 \in Nat
      BY <2>2, <2>3 DEF NoCluster
    <2>6. \A l \in 1 .. 0 : FALSE
      OBVIOUS
    <2> QED BY <1>1, <1>3, <2>1, <2>3, <2>4, <2>5, <2>6, ScanOn
  <1>4. CASE op.dir # Root
    <2>1. op' = [op EXCEPT !.cluster = op.dir, !.sectors = <<>>]
      BY <1>4 DEF StartScan
    <2>2. op.dir \in Heads(disk)
      BY <1>2, <1>4, DirHeadsFit
    <2>3. /\ op.dir \in Nat /\ 1 \in 1 .. Len(ChainOf(disk, op.dir))
          /\ ChainOf(disk, op.dir)[1] = op.dir
          /\ disk.clusterSectors \in Nat
      BY <1>2, <2>2, ChainIs, Geometry
    <2>4. 0 + Len(<<>>) = (1 - 1) * disk.clusterSectors
      BY <2>3
    <2>5. \A l \in 1 .. 0 : FALSE
      OBVIOUS
    <2>6. \A i \in 1 .. Len(<<>>) : FALSE
      OBVIOUS
    <2>7. <<>> \in Seq(Nat) /\ 0 \in Nat
      OBVIOUS
    <2>8. \E k \in 1 .. Len(ChainOf(disk, op.dir)) :
            /\ op.dir = ChainOf(disk, op.dir)[k]
            /\ 0 + Len(<<>>) = (k - 1) * disk.clusterSectors
      BY <2>3, <2>4
    <2> QED BY <1>1, <1>4, <2>1, <2>3, <2>5, <2>6, <2>7, <2>8, ScanOn
  <1> QED BY <1>3, <1>4

\* What has been searched, in a state of the scan.
LEMMA Scanning ==
  ASSUME FatInv, pc = "scan"
  PROVE  /\ disk \in Disks /\ Mounted /\ op \in OpType
         /\ op.dir = Root \/ op.dir \in DirHeads(disk)
         /\ op.rest # <<>> /\ Head(op.rest) # EmptySegment
         /\ \E m \in Nat : Searched(m)
  BY Opening DEF FatInv, ScanPart

\* At the end of the root directory all of it has been searched.
LEMMA ScanEndsStep ==
  ASSUME FatInv, ScanEnds
  PROVE  FatInv'
  <1>1. pc = "scan" /\ op.sectors = <<>> /\ op.cluster = NoCluster
        /\ Open(op.rest, "NotFound") /\ UNCHANGED <<mountVars, file, call, panic, hist>>
    BY DEF ScanEnds
  <1>2. PICK m \in Nat : Searched(m)
    BY <1>1, Scanning
  <1>3. op.dir = Root
    <2>1. SUFFICES ASSUME op.dir # Root PROVE FALSE
      OBVIOUS
    <2>2. PICK k \in 1 .. Len(ChainOf(disk, op.dir)) : op.cluster = ChainOf(disk, op.dir)[k]
      BY <1>2, <2>1 DEF Searched
    <2>3. op.dir \in Heads(disk) /\ disk \in Disks /\ Mounted
      BY <1>1, <2>1, Scanning, DirHeadsFit
    <2> QED BY <1>1, <2>2, <2>3, NextOf
  <1>4. m = disk.rootSectors
    BY <1>1, <1>2, <1>3 DEF Searched
  <1>5. DOMAIN Listed(disk, op.dir) = 1 .. m
    BY <1>1, <1>3, <1>4, Scanning, ListedLength
  <1>6. Named(disk, Listed(disk, op.dir), Head(op.rest)) = {}
    BY <1>2, <1>5, NamedNone DEF Searched
  <1> QED BY <1>1, <1>6, NotFoundStep

\* The stream of a directory goes on with the sectors of the next cluster, or all that
\* a look-up may search has been searched.
LEMMA ScanClusterStep ==
  ASSUME FatInv, ScanCluster
  PROVE  FatInv'
  <1>1. pc = "scan" /\ op.sectors = <<>> /\ op.cluster # NoCluster
        /\ UNCHANGED <<mountVars, file, call, hist>>
    BY DEF ScanCluster
  <1>2. /\ disk \in Disks /\ Mounted /\ op \in OpType
        /\ op.dir = Root \/ op.dir \in DirHeads(disk)
        /\ op.rest # <<>> /\ Head(op.rest) # EmptySegment
    BY <1>1, Scanning
  <1>3. PICK m \in Nat : Searched(m)
    BY <1>1, Scanning
  <1>4. op.dir # Root
    BY <1>1, <1>3 DEF Searched
  <1> DEFINE chain == ChainOf(disk, op.dir)
             cs == disk.clusterSectors
  <1>5. PICK k \in 1 .. Len(chain) : /\ op.cluster = chain[k]
                                     /\ m + Len(op.sectors) = (k - 1) * cs
    BY <1>3, <1>4 DEF Searched
  <1>6. op.dir \in Heads(disk) /\ op.dir \in DirHeads(disk)
    BY <1>2, <1>4, DirHeadsFit
  <1>7. /\ ~NextPanics(op.cluster)
        /\ Next_cluster(op.cluster) = IF k < Len(chain) THEN chain[k + 1] ELSE NoCluster
    BY <1>2, <1>5, <1>6, NextOf
  <1>8. chain \in Seq(Nat) /\ Len(chain) \in Nat \ {0} /\ cs \in Nat \ {0} /\ k \in Nat
        /\ Bpb(disk).sectors_per_cluster = cs
    BY <1>2, <1>5, <1>6, ChainIs, Geometry
  <1>9. m = (k - 1) * cs
    <2>1. Len(op.sectors) = 0
      BY <1>1
    <2> QED BY <1>3, <1>5, <2>1
  <1>10. CASE Open(op.rest, "IoError") /\ UNCHANGED panic
    BY <1>1, <1>10, OpenFails
  <1>11. CASE Next_cluster(op.cluster) = NoCluster /\ Open(op.rest, "NotFound") /\ UNCHANGED panic
    <2>1. k = Len(chain)
      <3>1. SUFFICES ASSUME k < Len(chain) PROVE FALSE
        BY <1>5, <1>8
      <3>2. k + 1 \in 1 .. Len(chain) /\ chain[k + 1] = NoCluster
        BY <1>7, <1>8, <1>11, <3>1
      <3> QED BY <1>2, <1>6, <3>2, NextOf
    <2>2. DOMAIN Listed(disk, op.dir) = 1 .. m
      BY <1>2, <1>6, <1>9, <2>1, ListedLength
    <2>3. Named(disk, Listed(disk, op.dir), Head(op.rest)) = {}
      BY <1>3, <2>2, NamedNone DEF Searched
    <2>4. UNCHANGED <<mountVars, file, call, panic, hist>>
      BY <1>1, <1>11
    <2> QED BY <1>1, <1>11, <2>3, <2>4, NotFoundStep
  <1>12. CASE /\ Next_cluster(op.cluster) # NoCluster
              /\ op' = [op EXCEPT !.sectors = ChainItem(op.cluster),
                                  !.cluster = Next_cluster(op.cluster)]
              /\ UNCHANGED <<pc, last, panic>>
    <2> DEFINE sectors == ChainItem(op.cluster)
               start == ClusterStart(disk, op.cluster)
    <2>1. k < Len(chain) /\ Next_cluster(op.cluster) = chain[k + 1]
      BY <1>7, <1>12
    <2>2. k \in 1 .. Len(chain) - 1 /\ k + 1 \in 1 .. Len(chain) /\ (k + 1) - 1 = k
          /\ chain[k + 1] \in Nat
      BY <1>8, <2>1
    <2>3. 0 \in 0 .. cs - 1
      BY <1>8
    <2>4. start + 0 \in Nat /\ start \in Int
      <3>1. op.cluster \in Nat
        BY <1>5, <1>8
      <3>2. start \in Int
        BY <1>2, <3>1, Geometry DEF ClusterStart
      <3> QED BY <1>2, <1>5, <1>6, <2>2, <2>3, <3>2, ListedCluster
    <2>5. first_cluster_sector(op.cluster) = start /\ sectors_per_cluster = cs
          /\ part.lba = Part(disk).lba
      BY <1>2, <1>8 DEF Mounted, first_cluster_sector, ClusterStart, sectors_per_cluster,
         first_root_dir_sector, RootStart, root_dir_sector_count, RootCount, first_fat_sector,
         all_fats_sector_count, fat_sector_count
    <2>6. sectors = [i \in 1 .. cs |-> start + i - 1]
      BY <2>5 DEF ChainItem, cluster_sectors
    <2>7. sectors \in Seq(Nat) /\ Len(sectors) = cs
      BY <1>8, <2>4, <2>6, SMTT(30)
    <2>8. ASSUME NEW i \in 1 .. Len(sectors)
          PROVE  /\ m + i \in DOMAIN Listed(disk, op.dir)
                 /\ PlaceOf(disk, Listed(disk, op.dir)[m + i]) = sectors[i] + part.lba
      <3>1. i - 1 \in 0 .. cs - 1 /\ i \in 1 .. cs /\ i \in Nat
        BY <1>8, <2>7
      <3>2. (k - 1) * cs + (i - 1) + 1 = m + i /\ m \in Nat
        BY <1>3, <1>9, <3>1
      <3>3. sectors[i] = start + (i - 1)
        BY <2>4, <2>6, <3>1
      <3>4. /\ (k - 1) * cs + (i - 1) + 1 \in DOMAIN Listed(disk, op.dir)
            /\ PlaceOf(disk, Listed(disk, op.dir)[(k - 1) * cs + (i - 1) + 1])
                 = start + (i - 1) + Part(disk).lba
        BY <1>2, <1>5, <1>6, <2>2, <3>1, ListedCluster
      <3> QED BY <2>5, <3>2, <3>3, <3>4
    <2>9. m + Len(sectors) = ((k + 1) - 1) * cs
      BY <1>8, <1>9, <2>2, <2>7
    <2>10. \A l \in 1 .. m : Without(EntriesAt(disk, Listed(disk, op.dir)[l]),
                                     DOMAIN EntriesAt(disk, Listed(disk, op.dir)[l]),
                                     Head(op.rest))
      BY <1>3 DEF Searched
    <2>11. op' = [op EXCEPT !.cluster = chain[k + 1], !.sectors = sectors] /\ pc' = "scan"
           /\ UNCHANGED <<mountVars, file, call, last, panic, hist>>
      BY <1>1, <1>2, <1>12, <2>1 DEF OpType
    <2> HIDE DEF sectors, start
    <2>12. \E x \in 1 .. Len(ChainOf(disk, op.dir)) :
             /\ chain[k + 1] = ChainOf(disk, op.dir)[x]
             /\ m + Len(sectors) = (x - 1) * disk.clusterSectors
      BY <2>2, <2>9
    <2> HIDE DEF chain, cs
    <2> QED BY <1>1, <1>2, <1>4, <2>2, <2>7, <2>8, <2>10, <2>11, <2>12, ScanOn
  <1> QED BY <1>7, <1>10, <1>11, <1>12 DEF ScanCluster

\* A sector is searched: the name is in it, an end mark is, or the scan goes on.
LEMMA ScanSectorStep ==
  ASSUME FatInv, ScanSector
  PROVE  FatInv'
  <1> DEFINE n == Head(op.sectors)
             es == Sector(n).dir
             name == Head(op.rest)
             tags == Listed(disk, op.dir)
             stops == Stops(es, name)
  <1>1. pc = "scan" /\ op.sectors # <<>> /\ UNCHANGED <<mountVars, call, hist>>
    BY DEF ScanSector
  <1>2. /\ disk \in Disks /\ Mounted /\ op \in OpType
        /\ op.dir = Root \/ op.dir \in DirHeads(disk)
        /\ op.rest # <<>> /\ name # EmptySegment
    BY <1>1, Scanning
  <1>3. PICK m \in Nat : Searched(m)
    BY <1>1, Scanning
  <1>4. op.sectors \in Seq(Nat) /\ op.rest \in Seq(Seq(STRING))
    BY <1>2 DEF OpType
  <1>5. /\ n \in Nat /\ n = op.sectors[1] /\ 1 \in 1 .. Len(op.sectors)
        /\ Tail(op.sectors) \in Seq(Nat) /\ Len(Tail(op.sectors)) = Len(op.sectors) - 1
        /\ \A i \in 1 .. Len(Tail(op.sectors)) : Tail(op.sectors)[i] = op.sectors[i + 1]
    BY <1>1, <1>4, HeadTailProperties
  <1>6. m + 1 \in DOMAIN tags /\ PlaceOf(disk, tags[m + 1]) = n + Part(disk).lba
    BY <1>2, <1>3, <1>5 DEF Searched, Mounted
  <1>7. /\ n + 1 <= Part(disk).sectors
        /\ EntriesFit(disk, DirHeads(disk), EntriesAt(disk, tags[m + 1]))
        /\ EntriesAt(disk, tags[m + 1]) = disk.sectors[n + Part(disk).lba + 1].dir
    BY <1>2, <1>5, <1>6, ListedFits
  <1>8. EntriesAt(disk, tags[m + 1]) = es /\ InPartition(n)
    <2>1. n + 1 \in 0 .. Part(disk).sectors
      BY <1>2, <1>5, <1>7, Geometry, SMTT(30)
    <2> QED BY <1>2, <1>7, <2>1 DEF Sector, InPartition, Mounted
  <1>9. \A l \in 1 .. m : Without(EntriesAt(disk, tags[l]), DOMAIN EntriesAt(disk, tags[l]), name)
    BY <1>3 DEF Searched
  <1>10. DOMAIN tags \subseteq Nat \ {0}
    <2>1. PICK N \in Nat : DOMAIN tags = 1 .. N
      BY <1>2, ListedLength
    <2> QED BY <2>1
  <1>11. DOMAIN es = 1 .. SectorSize \div DirEntrySize /\ EntriesFit(disk, DirHeads(disk), es)
    BY <1>7, <1>8 DEF EntriesFit
  <1>12. \/ /\ Open(op.rest, "IoError")
            /\ UNCHANGED <<file, panic>>
         \/ /\ Open(op.rest, "MemoryExhausted")
            /\ UNCHANGED <<file, panic>>
         \/ /\ stops = {}
            /\ IF \E i \in DOMAIN es : es[i].mark = "0"
               THEN Open(op.rest, "NotFound")
               ELSE /\ op' = [op EXCEPT !.sectors = Tail(op.sectors)]
                    /\ UNCHANGED <<pc, last>>
            /\ UNCHANGED <<file, panic>>
         \/ \E i \in stops :
              /\ \A j \in stops : i <= j
              /\ IF EntryUtf8(es[i]) /\ name \notin NonUtf8
                 THEN OpenEntry(es[i])
                 ELSE /\ Panic(IF EntryUtf8(es[i]) THEN "path not utf8"
                               ELSE "entry not utf8")
                      /\ UNCHANGED <<op, file, last>>
    BY <1>8 DEF ScanSector
  <1> HIDE DEF es, stops, tags, n, name
  <1>13. CASE Open(op.rest, "IoError") /\ UNCHANGED <<file, panic>>
    BY <1>1, <1>13, OpenFails
  <1>14. CASE Open(op.rest, "MemoryExhausted") /\ UNCHANGED <<file, panic>>
    BY <1>1, <1>14, OpenFails
  <1>15. CASE /\ stops = {} /\ (\E i \in DOMAIN es : es[i].mark = "0")
              /\ Open(op.rest, "NotFound") /\ UNCHANGED <<file, panic>>
    <2>1. Named(disk, tags, name) = {}
      BY <1>3, <1>8, <1>9, <1>10, <1>11, <1>15, NamedEnded DEF stops
    <2>2. UNCHANGED <<mountVars, file, call, panic, hist>>
      BY <1>1, <1>15
    <2>3. Named(disk, Listed(disk, op.dir), Head(op.rest)) = {}
      BY <2>1 DEF tags, name
    <2> QED BY <1>1, <1>15, <2>2, <2>3, NotFoundStep
  <1>16. CASE /\ stops = {} /\ ~ (\E i \in DOMAIN es : es[i].mark = "0")
              /\ op' = [op EXCEPT !.sectors = Tail(op.sectors)]
              /\ UNCHANGED <<pc, last>> /\ UNCHANGED <<file, panic>>
    <2> DEFINE rest == Tail(op.sectors)
    <2>1. op' = [op EXCEPT !.cluster = op.cluster, !.sectors = rest] /\ pc' = "scan"
          /\ op.cluster \in Nat
      BY <1>1, <1>2, <1>16 DEF OpType
    <2>2. UNCHANGED <<mountVars, file, call, last, panic, hist>>
      BY <1>1, <1>16
    <2>3. Without(es, DOMAIN es, name)
      <3>1. ASSUME NEW i \in DOMAIN es PROVE es[i].mark # "0" /\ ~Matches(es[i], name)
        <4>1. \A j \in 1 .. i : es[j].mark # "0"
          <5>1. PICK N \in Nat : DOMAIN es = 1 .. N
            BY <1>11, LayoutAssumption, QuotientIsNat
          <5>2. \A j \in 1 .. i : j \in DOMAIN es
            BY <3>1, <5>1
          <5> QED BY <1>16, <5>2
        <4>2. ~Matches(es[i], name)
          BY <1>11, <1>16, <4>1, NoStop DEF stops
        <4> QED BY <1>16, <4>2
      <3> QED BY <3>1 DEF Without
    <2>4. \A l \in 1 .. m + 1 : Without(EntriesAt(disk, tags[l]), DOMAIN EntriesAt(disk, tags[l]), name)
      <3>1. ASSUME NEW l \in 1 .. m + 1
            PROVE  Without(EntriesAt(disk, tags[l]), DOMAIN EntriesAt(disk, tags[l]), name)
        <4>1. CASE l = m + 1
          BY <1>8, <2>3, <4>1
        <4>2. CASE l \in 1 .. m
          BY <1>9, <4>2
        <4> QED BY <1>3, <3>1, <4>1, <4>2
      <3> QED BY <3>1
    <2>5. ASSUME NEW i \in 1 .. Len(rest)
          PROVE  /\ (m + 1) + i \in DOMAIN tags
                 /\ PlaceOf(disk, tags[(m + 1) + i]) = rest[i] + part.lba
      <3>1. i + 1 \in 1 .. Len(op.sectors) /\ (m + 1) + i = m + (i + 1)
            /\ rest[i] = op.sectors[i + 1]
        BY <1>3, <1>4, <1>5, <2>5
      <3>2. /\ m + (i + 1) \in DOMAIN tags
            /\ PlaceOf(disk, tags[m + (i + 1)]) = op.sectors[i + 1] + part.lba
        BY <1>3, <3>1 DEF Searched, tags
      <3> QED BY <3>1, <3>2
    <2>6. (m + 1) + Len(rest) = m + Len(op.sectors)
      <3>1. Len(op.sectors) \in Nat
        BY <1>4, LenProperties
      <3>2. Len(rest) = Len(op.sectors) - 1
        BY <1>5, Zenon
      <3>3. \A a, b : a \in Nat /\ b = a - 1 => (m + 1) + b = m + a
        BY <1>3
      <3> QED BY <3>1, <3>2, <3>3, Zenon
    <2>7. IF op.dir = Root
          THEN op.cluster = NoCluster /\ (m + 1) + Len(rest) = disk.rootSectors
          ELSE \E k \in 1 .. Len(ChainOf(disk, op.dir)) :
                 /\ op.cluster = ChainOf(disk, op.dir)[k]
                 /\ (m + 1) + Len(rest) = (k - 1) * disk.clusterSectors
      BY <1>3, <2>6 DEF Searched
    <2>8. rest \in Seq(Nat) /\ m + 1 \in Nat
      BY <1>3, <1>5
    <2>9. pc \in {"segment", "scan"}
      BY <1>1
    <2> HIDE DEF rest
    <2> QED BY <1>2, <2>1, <2>2, <2>4, <2>5, <2>7, <2>8, <2>9, ScanOn DEF tags, name
  <1>17. ASSUME NEW i \in stops, \A j \in stops : i <= j,
                IF EntryUtf8(es[i]) /\ name \notin NonUtf8
                THEN OpenEntry(es[i])
                ELSE /\ Panic(IF EntryUtf8(es[i]) THEN "path not utf8"
                              ELSE "entry not utf8")
                     /\ UNCHANGED <<op, file, last>>
         PROVE  FatInv'
    <2>1. i \in Kept(es)
      BY <1>17 DEF stops, Stops
    <2>2. CASE ~EntryUtf8(es[i])
      <3>1. Panic("entry not utf8") /\ UNCHANGED <<mountVars, op, file, call, last, hist>>
        BY <1>1, <1>17, <2>2
      <3>2. n + Part(disk).lba + 1 \in DOMAIN disk.sectors
        <4>1. n + Part(disk).lba + 1 \in 1 .. Part(disk).lba + Part(disk).sectors
          <5>1. Part(disk).lba \in Nat /\ Part(disk).sectors \in Nat
            BY <1>2, Geometry
          <5>2. \A x, y, z \in Nat : x + 1 <= z => x + y + 1 \in 1 .. y + z
            OBVIOUS
          <5> QED BY <1>5, <1>7, <5>1, <5>2
        <4> QED BY <1>2, <4>1, DisksAssumption DEF WellFormed, GeometryFits
      <3>3. es = disk.sectors[n + Part(disk).lba + 1].dir
        BY <1>7, <1>8
      <3>4. Undecodable(disk)
        BY <2>1, <2>2, <3>2, <3>3 DEF Undecodable
      <3> QED BY <3>1, <3>4, PanicStep
    <2>3. CASE EntryUtf8(es[i]) /\ name \in NonUtf8
      <3>1. Panic("path not utf8") /\ UNCHANGED <<mountVars, op, file, call, last, hist>>
        BY <1>1, <1>17, <2>3
      <3> QED BY <3>1, PanicStep
    <2>4. CASE EntryUtf8(es[i]) /\ name \notin NonUtf8
      <3> DEFINE e == es[i]
      <3>0. /\ es[i].mark = "live"
            /\ es[i].dir => es[i].cluster \in DirHeads(disk)
            /\ ~es[i].dir => es[i].cluster \in Heads(disk) \cup {0}
        BY <1>2, <1>11, <2>1, <2>4, KeptEntries
      <3>1. OpenEntry(e)
        BY <1>17, <2>4
      <3>2. Matches(e, name)
        BY <1>17, <2>4, <3>0 DEF stops, Stops, Matches
      <3>3. Named(disk, tags, name) = {e}
        <4>1. i \in Stops(EntriesAt(disk, tags[m + 1]), name)
              /\ \A j \in Stops(EntriesAt(disk, tags[m + 1]), name) : i <= j
          BY <1>8, <1>17 DEF stops
        <4>2. Matches(EntriesAt(disk, tags[m + 1])[i], name)
          BY <1>8, <3>2
        <4>3. DOMAIN EntriesAt(disk, tags[m + 1]) = 1 .. SectorSize \div DirEntrySize
          BY <1>8, <1>11
        <4>4. Named(disk, tags, name) = {EntriesAt(disk, tags[m + 1])[i]}
          BY <1>3, <1>6, <1>9, <1>10, <4>1, <4>2, <4>3, NamedFound
        <4> QED BY <1>8, <4>4 DEF e
      <3> HIDE DEF e
      <3>4. Follow(disk, [kind |-> "Dir", first |-> op.dir], name)
              = [kind |-> IF e.dir THEN "Dir" ELSE "File", first |-> e.cluster]
        BY <1>2, <3>3, FollowFound DEF tags
      <3>6. CASE e.dir
        <4>1. op' = [op EXCEPT !.dir = e.cluster, !.rest = Tail(op.rest)] /\ pc' = "segment"
              /\ UNCHANGED <<file, last, panic>>
          BY <3>1, <3>6 DEF OpenEntry
        <4>2. UNCHANGED <<mountVars, file, call, last, panic, hist>>
          BY <1>1, <4>1
        <4>3. Follow(disk, [kind |-> "Dir", first |-> op.dir], Head(op.rest))
                = [kind |-> "Dir", first |-> e.cluster]
          BY <3>4, <3>6 DEF name
        <4>4. e.cluster \in DirHeads(disk)
          BY <3>0, <3>6 DEF e
        <4> QED BY <1>1, <1>2, <4>1, <4>2, <4>3, <4>4, WalkOn
      <3>7. CASE ~e.dir
        <4>1. Follow(disk, [kind |-> "Dir", first |-> op.dir], Head(op.rest))
                = [kind |-> "File", first |-> e.cluster]
          BY <3>4, <3>7 DEF name
        <4>2. e.cluster \in Heads(disk) \cup {0}
          BY <3>0, <3>7 DEF e
        <4>3. CASE Tail(op.rest) # <<>>
          <5>1. Open(op.rest, "NotFound") /\ UNCHANGED <<file, panic>>
            BY <3>1, <3>7, <4>3 DEF OpenEntry
          <5>2. UNCHANGED <<mountVars, file, call, panic, hist>>
            BY <1>1, <5>1
          <5> QED BY <1>1, <4>1, <4>3, <5>1, <5>2, NotFoundStep
        <4>4. CASE Tail(op.rest) = <<>>
          <5>1. \/ /\ file' = [NoFile EXCEPT !.kind = "File", !.first = e.cluster,
                                             !.cluster = e.cluster]
                   /\ Open(<<>>, "Ok") /\ UNCHANGED panic
                \/ Open(<<>>, "MemoryExhausted") /\ UNCHANGED <<file, panic>>
                \/ Panic("memory") /\ UNCHANGED <<op, file, last>>
            BY <3>1, <3>7, <4>4 DEF OpenEntry, OpenFile, NoObject
          <5>2. Lookup(disk, op.path) = [kind |-> "File", first |-> e.cluster]
            <6>1. /\ op.path \in Seq(Seq(STRING)) /\ op.path # <<>>
                  /\ Head(op.path) = EmptySegment
              BY <1>1, <1>2, Opening DEF OpType
            <6>2. PICK x \in 1 .. Len(op.path) :
                    /\ Walk(disk, op.path)[x] = [kind |-> "Dir", first |-> op.dir]
                    /\ Head(op.rest) = op.path[x + 1]
                    /\ Walk(disk, op.path)[x + 1]
                         = Follow(disk, Walk(disk, op.path)[x], op.path[x + 1])
                    /\ x + 1 = Len(op.path)
              BY <1>1, <1>2, <4>4, WalkedTo
            <6>3. Walk(disk, op.path)[Len(op.path)] = [kind |-> "File", first |-> e.cluster]
              BY <4>1, <6>2
            <6> QED BY <6>1, <6>3, WalkIs
          <5>3. CASE /\ file' = [NoFile EXCEPT !.kind = "File", !.first = e.cluster,
                                               !.cluster = e.cluster]
                     /\ Open(<<>>, "Ok") /\ UNCHANGED panic
            <6>1. Opened("Ok")
              BY <4>2, <5>2, <5>3 DEF Opened
            <6>2. UNCHANGED <<mountVars, call, panic, hist>>
              BY <1>1, <5>3
            <6> QED BY <1>1, <5>3, <6>1, <6>2, OpenReturn
          <5>4. CASE Open(<<>>, "MemoryExhausted") /\ UNCHANGED <<file, panic>>
            <6>1. UNCHANGED <<mountVars, file, call, panic, hist>>
              BY <1>1, <5>4
            <6> QED BY <1>1, <5>4, <6>1, OpenFails
          <5>5. CASE Panic("memory") /\ UNCHANGED <<op, file, last>>
            <6>1. UNCHANGED <<mountVars, op, file, call, last, hist>>
              BY <1>1, <5>5
            <6> QED BY <5>5, <6>1, PanicStep
          <5> QED BY <5>1, <5>3, <5>4, <5>5
        <4> QED BY <4>3, <4>4
      <3> QED BY <3>6, <3>7
    <2> QED BY <2>2, <2>3, <2>4
  <1> QED BY <1>12, <1>13, <1>14, <1>15, <1>16, <1>17

\* open begins in the root directory, or refuses a relative path.
LEMMA OpenPathStep ==
  ASSUME FatInv, OpenPath
  PROVE  FatInv'
  <1>1. PICK p \in Paths :
          IF Head(p) = EmptySegment
          THEN /\ op' = [NoOp EXCEPT !.path = p, !.rest = Tail(p)]
               /\ pc' = "segment"
               /\ UNCHANGED last
          ELSE /\ op' = [NoOp EXCEPT !.path = p]
               /\ Return("open", "NotFound")
    BY DEF OpenPath
  <1>2. /\ pc = "idle" /\ file = NoFile /\ disk' = disk /\ part' = part /\ bpb' = bpb
        /\ file' = file /\ call' = call /\ panic' = panic /\ hist' = hist /\ pos' = pos
    BY PosSame DEF OpenPath, mountVars
  <1>3. file.kind = "None" /\ hist = NoHist /\ Mounted /\ panic = "none"
    BY <1>2 DEF FatInv, MountPart, PanicPart, NoFile
  <1>4. p \in Seq(Seq(STRING)) /\ p # <<>>
    BY LayoutAssumption
  <1>5. /\ Tail(p) \in Seq(Seq(STRING)) /\ Len(Tail(p)) = Len(p) - 1 /\ Len(p) \in Nat \ {0}
    BY <1>4, HeadTailProperties, EmptySeq
  <1>6. op' \in OpType /\ op'.path = p /\ op'.dir = Root /\ Len(op'.rest) <= Len(op'.path)
        /\ (Head(p) = EmptySegment => op'.rest = Tail(p))
    <2>1. Root \in Nat /\ NoCluster \in Nat /\ <<>> \in Seq(Nat) /\ <<>> \in Seq(Seq(STRING))
          /\ Len(<<>>) = 0
      BY DEF Root, NoCluster
    <2>2. CASE Head(p) = EmptySegment
      <3>1. op' = [path |-> p, rest |-> Tail(p), dir |-> Root, sectors |-> <<>>,
                   cluster |-> NoCluster]
        BY <1>1, <2>2 DEF NoOp
      <3> QED BY <1>4, <1>5, <2>1, <3>1 DEF OpType
    <2>3. CASE Head(p) # EmptySegment
      <3>1. op' = [path |-> p, rest |-> <<>>, dir |-> Root, sectors |-> <<>>,
                   cluster |-> NoCluster]
        BY <1>1, <2>3 DEF NoOp
      <3> QED BY <1>4, <1>5, <2>1, <2>3, <3>1 DEF OpType
    <2> QED BY <2>2, <2>3
  <1>7. pc' \in {"segment", "idle"} /\ (pc' = "segment" => Head(p) = EmptySegment)
        /\ (pc' = "idle" => /\ Head(p) # EmptySegment
                            /\ last' = [call |-> "open", ret |-> "NotFound"])
    BY <1>1 DEF Return
  <1>8. TypePart'
    <2>1. TypePart
      BY DEF FatInv
    <2> QED BY <1>2, <1>6, <1>7, <2>1 DEF TypePart, OpType
  <1>9. MountPart' /\ PanicPart'
    BY <1>2, <1>3, <1>7 DEF MountPart, Mounted, PanicPart
  <1>10. PositionPart' /\ GotPart' /\ ScanPart'
    BY <1>2, <1>3, <1>7 DEF PositionPart, GotPart, ScanPart
  <1>11. WalkPart'
    <2>1. SUFFICES ASSUME pc' = "segment" PROVE WalkPart'
      BY <1>7 DEF WalkPart
    <2>2. Head(p) = EmptySegment /\ op'.rest = Tail(p)
      BY <1>6, <1>7, <2>1
    <2>3. Tail(p) = SubSeq(p, 1 + 1, Len(p))
      BY <1>4, <1>5
    <2>4. 1 \in 1 .. Len(p) /\ Walk(disk, p)[1] = [kind |-> "Dir", first |-> Root]
      BY <1>4, <1>5, WalkIs
    <2> QED BY <1>2, <1>6, <2>2, <2>3, <2>4 DEF WalkPart
  <1>12. OpenIsLookup'
    BY <1>2, <1>6, <1>7 DEF OpenIsLookup, Lookup, Absent
  <1> QED BY <1>8, <1>9, <1>10, <1>11, <1>12 DEF FatInv

(***************************************************************************)
(* read.                                                                   *)
(***************************************************************************)

\* What is known of the file of a read in progress.
LEMMA Reading ==
  ASSUME FatInv, pc = "read"
  PROVE  /\ disk \in Disks /\ Mounted /\ file \in FileType /\ file.kind = "File"
         /\ call.left \in Nat /\ call.got \in Seq(Nat \X Nat)
         /\ call \in [left : Nat, got : Seq(Nat \X Nat)]
         /\ hist \in [bytes : Nat, repeats : 0 .. MaxRepeats]
         /\ Total = pos + Len(call.got) /\ Len(call.got) \in Nat /\ panic = "none"
         /\ sectors_per_cluster = disk.clusterSectors /\ disk.clusterSectors \in Nat \ {0}
         /\ SectorSize \in Nat \ {0} /\ part.lba = Part(disk).lba
         /\ file.first # 0 =>
              /\ pos \in Nat /\ file.first \in Heads(disk)
              /\ \A i \in 1 .. Len(call.got) : call.got[i] = Contents(disk, file.first)[pos + i]
              /\ AtEnd \/ \E k \in 1 .. Len(ChainOf(disk, file.first)) : InChain(k)
         /\ file.first = 0 => file.sector < disk.clusterSectors
  <1>1. TypePart /\ MountPart /\ GotPart /\ PositionPart /\ PanicPart
    BY DEF FatInv
  <1>2. disk \in Disks /\ Mounted /\ file \in FileType /\ file.kind = "File"
        /\ call \in [left : Nat, got : Seq(Nat \X Nat)] /\ panic = "none"
        /\ hist \in [bytes : Nat, repeats : 0 .. MaxRepeats]
    BY <1>1 DEF TypePart, MountPart, GotPart, PanicPart, FileType
  <1>3. call.left \in Nat /\ call.got \in Seq(Nat \X Nat)
    BY <1>2
  <1>4. Len(call.got) \in Nat
    BY <1>3
  <1>5. Total = pos + Len(call.got)
    BY DEF Total
  <1>6. sectors_per_cluster = disk.clusterSectors /\ disk.clusterSectors \in Nat \ {0}
        /\ part.lba = Part(disk).lba
    BY <1>2, Geometry DEF Mounted, sectors_per_cluster
  <1>7. ASSUME file.first # 0
        PROVE  /\ pos \in Nat /\ file.first \in Heads(disk)
               /\ \A i \in 1 .. Len(call.got) : call.got[i] = Contents(disk, file.first)[pos + i]
               /\ AtEnd \/ \E k \in 1 .. Len(ChainOf(disk, file.first)) : InChain(k)
    <2>1. pos \in Nat
      BY <1>1, <1>7 DEF TypePart
    <2>2. \A i \in 1 .. Len(call.got) : call.got[i] = Contents(disk, file.first)[pos + i]
      BY <1>1, <1>7 DEF GotPart
    <2>3. file.first \in Heads(disk)
          /\ (AtEnd \/ \E k \in 1 .. Len(ChainOf(disk, file.first)) : InChain(k))
      BY <1>1, <1>2, <1>7 DEF PositionPart
    <2> QED BY <2>1, <2>2, <2>3
  <1>8. ASSUME file.first = 0 PROVE file.sector < disk.clusterSectors
    <2>1. 0 \notin Heads(disk)
      <3>1. SUFFICES ASSUME 0 \in Heads(disk) PROVE FALSE
        OBVIOUS
      <3>2. 0 >= 2
        BY <1>2, <3>1, ChainIs
      <3> QED BY <3>2
    <2> QED BY <1>1, <1>2, <1>8, <2>1 DEF PositionPart
  <1> QED BY <1>2, <1>3, <1>4, <1>5, <1>6, <1>7, <1>8, LayoutAssumption

\* The position after t bytes: sector s.sector and offset s.offset of a cluster.
At(s, t) ==
  \/ /\ s.first \in Heads(disk)
     /\ s.cluster = NoCluster /\ s.sector = 0 /\ s.offset = 0
     /\ t = Len(ChainOf(disk, s.first)) * disk.clusterSectors * SectorSize
  \/ /\ s.first \in Heads(disk)
     /\ \E k \in 1 .. Len(ChainOf(disk, s.first)) :
          /\ s.cluster = ChainOf(disk, s.first)[k]
          /\ s.sector < disk.clusterSectors
          /\ t = ((k - 1) * disk.clusterSectors + s.sector) * SectorSize + s.offset

\* A step of a read of an empty file that stays in the read or ends it.
LEMMA EmptyReadStep ==
  ASSUME FatInv, pc = "read", pc' \in {"read", "idle"}, UNCHANGED <<mountVars, op, panic>>,
         file.first = 0, file' \in FileType, file'.kind = "File", file'.first = 0,
         file'.sector < disk.clusterSectors,
         hist' \in [bytes : Nat, repeats : 0 .. MaxRepeats],
         call' \in [left : Nat, got : Seq(Nat \X Nat)],
         pc' = "idle" => last'.call = "read"
  PROVE  FatInv'
  <1>1. /\ disk' = disk /\ part' = part /\ bpb' = bpb /\ op' = op /\ panic' = panic
    BY DEF mountVars
  <1>2. disk \in Disks /\ Mounted /\ panic = "none" /\ disk.clusterSectors \in Nat \ {0}
    BY Reading
  <1>3. bpb.sectors_per_cluster = disk.clusterSectors
    BY <1>2, Geometry DEF Mounted
  <1>4. TypePart'
    <2>1. TypePart
      BY DEF FatInv
    <2>2. file'.sector \in Nat /\ file'.sector <= disk.clusterSectors
      BY <1>2 DEF FileType
    <2> QED BY <1>1, <1>3, <2>1, <2>2 DEF TypePart, FileType
  <1>5. MountPart' /\ PanicPart'
    BY <1>1, <1>2 DEF MountPart, Mounted, PanicPart
  <1>6. PositionPart' /\ GotPart'
    BY <1>1 DEF PositionPart, GotPart
  <1>7. WalkPart' /\ ScanPart' /\ OpenIsLookup'
    BY DEF WalkPart, ScanPart, OpenIsLookup
  <1> QED BY <1>4, <1>5, <1>6, <1>7 DEF FatInv

\* A step of a read that stays in the read or ends it.
LEMMA ReadStep ==
  ASSUME FatInv, pc = "read", pc' \in {"read", "idle"}, UNCHANGED <<mountVars, op, panic>>,
         file.first # 0,
         file' \in FileType, file'.kind = "File", file'.first = file.first,
         hist' \in [bytes : Nat, repeats : 0 .. MaxRepeats],
         pos' \in Nat, call' \in [left : Nat, got : Seq(Nat \X Nat)],
         At(file', IF pc' = "read" THEN pos' + Len(call'.got) ELSE pos'),
         pc' = "read" =>
           \A i \in 1 .. Len(call'.got) : call'.got[i] = Contents(disk, file.first)[pos' + i],
         pc' = "idle" => \E ret : /\ last' = [call |-> "read", ret |-> ret]
                                  /\ ret = "Ok" /\ call'.left > 0 =>
                                       /\ file.first \in Heads(disk)
                                       /\ file'.cluster = NoCluster
  PROVE  FatInv'
  <1>1. /\ disk' = disk /\ part' = part /\ bpb' = bpb /\ op' = op /\ panic' = panic
    BY DEF mountVars
  <1>2. disk \in Disks /\ Mounted /\ panic = "none" /\ SectorSize \in Nat \ {0}
        /\ disk.clusterSectors \in Nat \ {0}
    BY Reading
  <1>3. Total' = IF pc' = "read" THEN pos' + Len(call'.got) ELSE pos'
    BY DEF Total
  <1>4. bpb.sectors_per_cluster = disk.clusterSectors
    BY <1>2, Geometry DEF Mounted
  <1>5. At(file', Total')
    BY <1>3
  <1>6. TypePart'
    <2>1. TypePart
      BY DEF FatInv
    <2>2. file'.sector \in Nat /\ file'.sector <= disk.clusterSectors
      BY <1>2, <1>5, SMTT(30) DEF At, FileType
    <2> QED BY <1>1, <1>4, <2>1, <2>2 DEF TypePart, FileType
  <1>7. MountPart' /\ PanicPart'
    BY <1>1, <1>2 DEF MountPart, Mounted, PanicPart
  <1>8. PositionPart'
    BY <1>1, <1>5 DEF PositionPart, At, AtEnd, InChain
  <1>9. GotPart'
    <2>1. CASE pc' = "read"
      BY <1>1, <2>1 DEF GotPart
    <2>2. CASE pc' = "idle"
      <3>1. SUFFICES ASSUME last' = [call |-> "read", ret |-> "Ok"], call'.left > 0
                     PROVE  file'.first \in Heads(disk') /\ AtEnd'
        BY <2>2 DEF GotPart
      <3>2. file.first \in Heads(disk) /\ file'.cluster = NoCluster
        BY <2>2, <3>1
      <3>3. file.first \in Nat /\ file.first >= 2
        BY <1>2, <3>2, ChainIs
      <3>4. ~ \E k \in 1 .. Len(ChainOf(disk, file'.first)) : file'.cluster = ChainOf(disk, file'.first)[k]
        BY <1>2, <3>2, NextOf
      <3> QED BY <1>1, <1>5, <3>2, <3>3, <3>4 DEF At, AtEnd
    <2> QED BY <2>1, <2>2
  <1>10. WalkPart' /\ ScanPart'
    BY DEF WalkPart, ScanPart
  <1>11. OpenIsLookup'
    BY DEF OpenIsLookup
  <1> QED BY <1>6, <1>7, <1>8, <1>9, <1>10, <1>11 DEF FatInv

\* A read returns and what it has copied is counted.
LEMMA ReadReturnsPos ==
  ASSUME FatInv, pc = "read", UNCHANGED mountVars, NEW ret, ReadReturns(ret)
  PROVE  /\ pc' = "idle" /\ last' = [call |-> "read", ret |-> ret] /\ panic' = panic
         /\ pos' = pos + Len(call.got) /\ hist' \in [bytes : Nat, repeats : 0 .. MaxRepeats]
  <1>1. Len(call.got) \in Nat
    BY Reading
  <1>2. hist' = [hist EXCEPT !.bytes = hist.bytes + Len(call.got)] /\ bpb' = bpb
    BY DEF ReadReturns, mountVars
  <1>3. pos' = pos + Len(call.got) /\ hist' \in [bytes : Nat, repeats : 0 .. MaxRepeats]
    BY <1>1, <1>2, PosReturns
  <1> QED BY <1>3 DEF ReadReturns, Return

\* A read that has filled its buffer returns.
LEMMA ReadDoneStep ==
  ASSUME FatInv, ReadDone
  PROVE  FatInv'
  <1>1. /\ pc = "read" /\ call.left = 0 /\ UNCHANGED <<mountVars, op, panic>>
        /\ file' = file /\ call' = call /\ ReadReturns("Ok")
    BY DEF ReadDone, ReadReturns
  <1>0. /\ pc' = "idle" /\ last' = [call |-> "read", ret |-> "Ok"]
        /\ pos' = pos + Len(call.got) /\ hist' \in [bytes : Nat, repeats : 0 .. MaxRepeats]
    BY <1>1, ReadReturnsPos
  <1>8. CASE file.first = 0
    BY <1>0, <1>1, <1>8, Reading, EmptyReadStep
  <1>9. SUFFICES ASSUME file.first # 0 PROVE FatInv'
    BY <1>8
  <1>2. At(file, Total)
    BY <1>1, <1>9, Reading DEF At, AtEnd, InChain
  <1>3. At(file', IF pc' = "read" THEN pos' + Len(call'.got) ELSE pos')
    BY <1>0, <1>1, <1>2, <1>9, Reading
  <1>4. \E ret : /\ last' = [call |-> "read", ret |-> ret]
                 /\ ret = "Ok" /\ call'.left > 0 =>
                      /\ file.first \in Heads(disk)
                      /\ file'.cluster = NoCluster
    <2>1. ~ (call'.left > 0)
      BY <1>1
    <2> QED BY <1>0, <2>1
  <1>5. pos' \in Nat /\ file' \in FileType /\ file'.kind = "File" /\ file'.first = file.first
        /\ call' \in [left : Nat, got : Seq(Nat \X Nat)]
    BY <1>0, <1>1, <1>9, Reading
  <1>6. pc' \in {"read", "idle"} /\ pc' # "read"
    BY <1>0
  <1> QED BY <1>0, <1>1, <1>3, <1>4, <1>5, <1>6, <1>9, ReadStep

\* A read begins where the last one ended.
LEMMA ReadCallStep ==
  ASSUME FatInv, ReadCall
  PROVE  FatInv'
  <1>1. PICK n \in ReadSizes :
       /\ call' = [left |-> n, got |-> <<>>]
       /\ IF file.kind = "Dir"
          THEN Return("read", "InvalidOperation")
          ELSE \/ pc' = "read" /\ UNCHANGED last
               \/ Return("read", "MemoryExhausted")
    BY DEF ReadCall
  <1>2. /\ pc = "idle" /\ file.kind # "None" /\ disk' = disk /\ part' = part /\ bpb' = bpb
        /\ op' = op /\ file' = file /\ panic' = panic /\ hist' = hist /\ pos' = pos
    BY PosSame DEF ReadCall, mountVars
  <1>3. n \in Nat
    BY LayoutAssumption
  <1>4. call' \in [left : Nat, got : Seq(Nat \X Nat)] /\ call'.got = <<>> /\ Len(call'.got) = 0
    BY <1>1, <1>3
  <1>5. TypePart /\ MountPart /\ PanicPart /\ PositionPart
    BY DEF FatInv
  <1>6. \/ pc' = "idle" /\ last'.call = "read" /\ last'.ret # "Ok"
        \/ pc' = "read" /\ file.kind = "File"
    BY <1>1, <1>2, <1>5, SMTT(30) DEF Return, TypePart
  <1>7. TypePart'
    BY <1>2, <1>4, <1>5, <1>6 DEF TypePart
  <1>8. MountPart' /\ PanicPart'
    BY <1>2, <1>5, <1>6 DEF MountPart, Mounted, PanicPart
  <1>9. file.first # 0 => Total' = Total
    <2>1. SUFFICES ASSUME file.first # 0 PROVE Total' = Total
      OBVIOUS
    <2>2. pos \in Nat /\ pos + 0 = pos
      BY <1>5, <2>1 DEF TypePart
    <2> QED BY <1>2, <1>4, <1>6, <2>2 DEF Total
  <1>10. PositionPart'
    <2>1. CASE file.kind # "File"
      BY <1>2, <2>1 DEF PositionPart
    <2>2. CASE file.kind = "File" /\ file.first = 0 /\ file.sector < disk.clusterSectors
      BY <1>2, <2>2 DEF PositionPart
    <2>3. CASE /\ file.kind = "File" /\ file.first \in Heads(disk)
               /\ AtEnd \/ \E k \in 1 .. Len(ChainOf(disk, file.first)) : InChain(k)
      <3>1. file.first # 0
        <4>1. file.first >= 2
          BY <1>5, <2>3, ChainIs DEF TypePart
        <4> QED BY <4>1
      <3>2. Total' = Total
        BY <1>9, <3>1
      <3>3. (AtEnd \/ \E k \in 1 .. Len(ChainOf(disk, file.first)) : InChain(k))'
        BY <1>2, <2>3, <3>2 DEF AtEnd, InChain
      <3> QED BY <1>2, <2>3, <3>3 DEF PositionPart
    <2> QED BY <1>2, <1>5, <2>1, <2>2, <2>3 DEF PositionPart
  <1>11. GotPart'
    BY <1>2, <1>4, <1>6 DEF GotPart
  <1>12. WalkPart' /\ ScanPart' /\ OpenIsLookup'
    BY <1>6 DEF WalkPart, ScanPart, OpenIsLookup
  <1> QED BY <1>7, <1>8, <1>10, <1>11, <1>12 DEF FatInv

\* The position at the beginning of the next sector is the one at the end of this.
LEMMA NextMultiple ==
  ASSUME NEW a \in Nat, NEW m \in Nat
  PROVE  a * m + m = (a + 1) * m + 0
  OBVIOUS

\* Moved keeps the number of bytes before the position.
LEMMA MovedAt ==
  ASSUME FatInv, pc = "read",
         NEW k \in 1 .. Len(ChainOf(disk, file.first)), file.first \in Heads(disk), InChain(k)
  PROVE  LET s == Moved(file)
         IN  /\ s \in FileType /\ s.kind = "File" /\ s.first = file.first
             /\ s.cluster = file.cluster /\ s.offset \in 0 .. SectorSize - 1
             /\ s.sector \in 0 .. disk.clusterSectors
             /\ (k - 1) * disk.clusterSectors + s.sector \in Nat
             /\ Total = ((k - 1) * disk.clusterSectors + s.sector) * SectorSize + s.offset
             /\ s.sector = disk.clusterSectors => s.offset = 0
  <1> DEFINE cs == disk.clusterSectors
             s == Moved(file)
             a == (k - 1) * cs + file.sector
  <1>1. /\ file \in FileType /\ file.kind = "File" /\ cs \in Nat \ {0}
        /\ SectorSize \in Nat \ {0} /\ disk \in Disks
    BY Reading
  <1>2. /\ file.sector \in Nat /\ file.offset \in 0 .. SectorSize /\ file.sector < cs
        /\ Total = a * SectorSize + file.offset
    BY <1>1 DEF FileType, InChain
  <1>3. k - 1 \in Nat
    BY <1>1, ChainIs
  <1> HIDE DEF cs
  <1>4. (k - 1) * cs \in Nat
    BY <1>1, <1>3, ProductIsNat
  <1>5. a \in Nat /\ a + 1 = (k - 1) * cs + (file.sector + 1)
    BY <1>2, <1>4
  <1>6. CASE file.offset = SectorSize
    <2>1. s = [file EXCEPT !.offset = 0, !.sector = file.sector + 1]
      BY <1>6 DEF Moved
    <2>2. /\ s.kind = file.kind /\ s.first = file.first /\ s.cluster = file.cluster
          /\ s.offset = 0 /\ s.sector = file.sector + 1 /\ s \in FileType
      <3>1. s = [kind |-> file.kind, first |-> file.first, cluster |-> file.cluster,
                 sector |-> file.sector + 1, offset |-> 0]
        BY <1>1, <2>1 DEF FileType
      <3>2. file.kind \in {"None", "Dir", "File"} /\ file.first \in Nat /\ file.cluster \in Nat
            /\ file.sector + 1 \in Nat /\ 0 \in 0 .. SectorSize
        BY <1>1, <1>2 DEF FileType
      <3> HIDE DEF s
      <3> QED BY <3>1, <3>2 DEF FileType
    <2> HIDE DEF s
    <2>3. (k - 1) * cs + s.sector = a + 1
      BY <1>5, <2>2
    <2> HIDE DEF a
    <2>4. Total = (a + 1) * SectorSize + 0
      BY <1>1, <1>2, <1>5, <1>6, NextMultiple
    <2>5. s.offset \in 0 .. SectorSize - 1 /\ s.sector \in 0 .. cs
      BY <1>1, <1>2, <2>2
    <2>6. (k - 1) * cs + s.sector \in Nat
      BY <1>5, <2>3
    <2>7. Total = ((k - 1) * cs + s.sector) * SectorSize + s.offset
      BY <2>2, <2>3, <2>4
    <2> QED BY <1>1, <2>2, <2>5, <2>6, <2>7 DEF s, cs
  <1>7. CASE file.offset # SectorSize
    <2>1. s = file
      BY <1>7 DEF Moved
    <2>2. file.offset \in 0 .. SectorSize - 1 /\ file.sector \in 0 .. cs /\ file.sector # cs
      BY <1>1, <1>2, <1>7
    <2> QED BY <1>1, <1>2, <1>5, <2>1, <2>2 DEF cs
  <1> QED BY <1>6, <1>7

\* The position of an empty file stays within a cluster.
LEMMA EmptyMoved ==
  ASSUME FatInv, pc = "read", file.first = 0
  PROVE  LET s == Moved(file)
         IN  /\ s \in FileType /\ s.kind = "File" /\ s.first = 0 /\ s.cluster \in Nat
             /\ s.sector \in 0 .. disk.clusterSectors /\ s.offset \in 0 .. SectorSize - 1
             /\ AtClusterEnd <=> s.sector = disk.clusterSectors
  <1> DEFINE s == Moved(file)
  <1>1. /\ file \in FileType /\ file.kind = "File" /\ disk.clusterSectors \in Nat \ {0}
        /\ SectorSize \in Nat \ {0} /\ file.sector < disk.clusterSectors
        /\ sectors_per_cluster = disk.clusterSectors
    BY Reading
  <1>2. AtClusterEnd <=> s.sector = disk.clusterSectors
    BY <1>1 DEF AtClusterEnd
  <1>3. /\ file = [kind |-> file.kind, first |-> file.first, cluster |-> file.cluster,
                   sector |-> file.sector, offset |-> file.offset]
        /\ file.cluster \in Nat /\ file.sector \in Nat /\ file.offset \in 0 .. SectorSize
    BY <1>1 DEF FileType
  <1>4. CASE file.offset = SectorSize
    <2>1. s = [kind |-> "File", first |-> 0, cluster |-> file.cluster,
               sector |-> file.sector + 1, offset |-> 0]
      BY <1>1, <1>3, <1>4 DEF Moved
    <2>2. file.sector + 1 \in 0 .. disk.clusterSectors /\ 0 \in 0 .. SectorSize - 1
          /\ 0 \in 0 .. SectorSize /\ file.sector + 1 \in Nat
      BY <1>1, <1>3
    <2> HIDE DEF s
    <2> QED BY <1>2, <1>3, <2>1, <2>2 DEF FileType, s
  <1>5. CASE file.offset # SectorSize
    <2>1. s = file
      BY <1>5 DEF Moved
    <2>2. file.sector \in 0 .. disk.clusterSectors /\ file.offset \in 0 .. SectorSize - 1
      BY <1>1, <1>3, <1>5
    <2> QED BY <1>1, <1>2, <1>3, <2>1, <2>2
  <1> QED BY <1>4, <1>5

\* An entry of the FAT is a number of 16 bits, whatever the cluster.
LEMMA FatEntryIs ==
  ASSUME disk \in Disks, Mounted, NEW c \in Nat, InPartition(FatSectorOf(c))
  PROVE  Next_cluster(c) \in Nat
  <1> DEFINE sector == FatSectorOf(c)
             x == (c * FatEntrySize) % SectorSize
             slot == x \div FatEntrySize
             q == SectorSize \div FatEntrySize
  <1>1. sector \in Nat
    BY FatSectorIsNat
  <1>2. /\ part.lba \in Nat /\ part.sectors \in Nat /\ part.lba = Part(disk).lba
        /\ part.sectors = Part(disk).sectors
    BY Geometry DEF Mounted
  <1> HIDE DEF sector
  <1>3. sector + part.lba + 1 \in 1 .. Part(disk).lba + Part(disk).sectors
    BY <1>1, <1>2 DEF InPartition, sector
  <1>4. Sector(sector).fat \in [1 .. q -> 0 .. NoCluster - 1]
    BY <1>3, DisksAssumption DEF WellFormed, GeometryFits, Sector
  <1>5. c * FatEntrySize \in Nat /\ SectorSize \in Nat \ {0} /\ FatEntrySize \in Nat \ {0}
    BY ProductIsNat, LayoutAssumption
  <1>6. x \in 0 .. SectorSize - 1
    BY <1>5, Divide
  <1>7. q \in Nat /\ SectorSize = q * FatEntrySize
    <2>1. SectorSize = q * FatEntrySize + (SectorSize % FatEntrySize) /\ q \in Nat
      BY <1>5, Divide
    <2>2. q * FatEntrySize \in Nat
      BY <1>5, <2>1, ProductIsNat
    <2> HIDE DEF q
    <2> QED BY <2>1, <2>2, LayoutAssumption
  <1> HIDE DEF x, q
  <1>8. slot \in Nat /\ slot < q
    <2>1. x \in Nat /\ x < q * FatEntrySize
      BY <1>5, <1>6, <1>7
    <2> QED BY <1>5, <1>7, <2>1, DivideBelow, QuotientIsNat
  <1> HIDE DEF slot
  <1>9. FatEntry(c) \in 0 .. NoCluster - 1
    <2>1. slot + 1 \in 1 .. q
      BY <1>7, <1>8
    <2>2. FatEntry(c) = Sector(sector).fat[slot + 1]
      BY Zenon DEF FatEntry, sector, slot, x
    <2> QED BY <1>4, <2>1, <2>2
  <1>10. NoCluster \in Nat
    BY DEF NoCluster
  <1>11. \A b \in Nat : \A v \in 0 .. b - 1 : v \in Nat
    OBVIOUS
  <1>12. FatEntry(c) \in Nat
    BY <1>9, <1>10, <1>11, Zenon
  <1> QED BY <1>10, <1>12, Zenon DEF Next_cluster

\* A position that is not at the end of its cluster is in a sector of it.
LEMMA NotAtEnd ==
  ASSUME FatInv, pc = "read", file.sector = 0, file.offset = 0
  PROVE  Moved(file) = file /\ ~AtClusterEnd
  <1>1. Moved(file) = file
    BY Reading DEF Moved
  <1> QED BY <1>1, Reading DEF AtClusterEnd

\* The beginning of the cluster before.
LEMMA OneClusterBack ==
  ASSUME NEW a \in Nat, NEW cs \in Nat, NEW m \in Nat
  PROVE  ((a + cs) * m + 0) - cs * m = (a + 0) * m + 0
  OBVIOUS

\* At the end of a cluster the position moves to the next one, or back to the
\* beginning of this one when the FAT cannot be read.
LEMMA ReadNextClusterStep ==
  ASSUME FatInv, ReadNextCluster
  PROVE  FatInv'
  <1> DEFINE cs == disk.clusterSectors
             chain == ChainOf(disk, file.first)
             s == Moved(file)
  <1>1. pc = "read" /\ AtClusterEnd /\ UNCHANGED <<mountVars, op, call>>
    BY DEF ReadNextCluster
  <1>0. CASE file.first = 0
    <2>1. /\ s \in FileType /\ s.kind = "File" /\ s.first = 0 /\ s.cluster \in Nat
          /\ s.offset \in 0 .. SectorSize - 1
      BY <1>0, <1>1, EmptyMoved
    <2>2. /\ disk \in Disks /\ Mounted /\ file \in FileType /\ file.kind = "File"
          /\ call \in [left : Nat, got : Seq(Nat \X Nat)] /\ cs \in Nat \ {0}
          /\ hist \in [bytes : Nat, repeats : 0 .. MaxRepeats] /\ Len(call.got) \in Nat
      BY <1>1, Reading
    <2>3. s.cluster = file.cluster
      BY <2>2 DEF Moved, FileType
    <2> HIDE DEF s, cs
    <2>4. CASE NextPanics(file.cluster) /\ Panic("cluster") /\ UNCHANGED <<file, last, hist>>
      <3>1. UNCHANGED <<mountVars, op, file, call, last, hist>>
        BY <1>1, <2>4
      <3> QED BY <1>0, <2>2, <2>4, <3>1, PanicStep
    <2>5. CASE /\ ~NextPanics(file.cluster) /\ file' = Advanced(file)
               /\ UNCHANGED <<pc, last, panic, hist>>
      <3>1. Next_cluster(file.cluster) \in Nat
        BY <2>1, <2>2, <2>3, <2>5, FatEntryIs DEF NextPanics
      <3>2. file' = [s EXCEPT !.sector = 0, !.cluster = Next_cluster(file.cluster)]
        BY <2>5 DEF Advanced, s
      <3>3. file' \in FileType /\ file'.kind = "File" /\ file'.first = 0 /\ file'.sector = 0
        BY <2>1, <3>1, <3>2 DEF FileType
      <3>4. file'.sector < disk.clusterSectors
        BY <2>2, <3>3 DEF cs
      <3>5. UNCHANGED <<mountVars, op, panic>> /\ pc' = "read" /\ call' = call /\ hist' = hist
        BY <1>1, <2>5
      <3> QED BY <1>0, <1>1, <2>2, <3>3, <3>4, <3>5, EmptyReadStep
    <2>6. CASE /\ hist.repeats < MaxRepeats
               /\ file' = [Moved(file) EXCEPT !.sector = 0]
               /\ Return("read", "IoError")
               /\ hist' = [bytes |-> hist.bytes + Len(call.got), repeats |-> hist.repeats + 1]
               /\ UNCHANGED panic
      <3>1. file' = [s EXCEPT !.sector = 0]
        BY <2>6 DEF s
      <3>2. file' \in FileType /\ file'.kind = "File" /\ file'.first = 0 /\ file'.sector = 0
        BY <2>1, <3>1 DEF FileType
      <3>3. file'.sector < disk.clusterSectors
        BY <2>2, <3>2 DEF cs
      <3>4. hist' \in [bytes : Nat, repeats : 0 .. MaxRepeats]
        BY <1>1, <2>2, <2>6, PosRepeats DEF mountVars
      <3>5. UNCHANGED <<mountVars, op, panic>> /\ pc' = "idle" /\ call' = call
            /\ last'.call = "read"
        BY <1>1, <2>6 DEF Return
      <3> QED BY <1>0, <1>1, <2>2, <3>2, <3>3, <3>4, <3>5, EmptyReadStep
    <2> QED BY <2>4, <2>5, <2>6 DEF ReadNextCluster
  <1>12. SUFFICES ASSUME file.first # 0 PROVE FatInv'
    BY <1>0
  <1>2. /\ disk \in Disks /\ Mounted /\ file \in FileType /\ pos \in Nat
        /\ call \in [left : Nat, got : Seq(Nat \X Nat)]
        /\ hist \in [bytes : Nat, repeats : 0 .. MaxRepeats]
        /\ Total = pos + Len(call.got) /\ Len(call.got) \in Nat
        /\ sectors_per_cluster = cs /\ cs \in Nat \ {0} /\ SectorSize \in Nat \ {0}
        /\ \A i \in 1 .. Len(call.got) : call.got[i] = Contents(disk, file.first)[pos + i]
    BY <1>1, <1>12, Reading
  <1>3. file.first \in Heads(disk) /\ \E k \in 1 .. Len(chain) : InChain(k)
    BY <1>1, <1>12, Reading, NotAtEnd DEF AtEnd
  <1>4. PICK k \in 1 .. Len(chain) : InChain(k)
    BY <1>3
  <1>5. /\ s \in FileType /\ s.kind = "File" /\ s.first = file.first
        /\ s.cluster = file.cluster /\ s.sector = cs /\ s.offset = 0
        /\ Total = ((k - 1) * cs + cs) * SectorSize + 0
    <2>1. s.sector = cs
      BY <1>1, <1>2 DEF AtClusterEnd
    <2> QED BY <1>1, <1>3, <1>4, <2>1, MovedAt
  <1>6. file.cluster = chain[k]
    BY <1>4 DEF InChain
  <1>7. /\ ~NextPanics(file.cluster)
        /\ Next_cluster(file.cluster) = IF k < Len(chain) THEN chain[k + 1] ELSE NoCluster
    BY <1>2, <1>3, <1>4, <1>6, NextOf
  <1>8. chain \in Seq(Nat) /\ Len(chain) \in Nat \ {0} /\ k \in Nat /\ k - 1 \in Nat
        /\ (k + 1) - 1 = k
    BY <1>2, <1>3, ChainIs
  <1> HIDE DEF chain, cs
  <1>9. (k - 1) * cs \in Nat /\ (k - 1) * cs + cs = k * cs /\ k * cs \in Nat
    BY <1>2, <1>8, ProductIsNat, NextMultiple
  <1>10. CASE file' = Advanced(file) /\ UNCHANGED <<pc, last, panic, hist>>
    <2> DEFINE next == Next_cluster(file.cluster)
    <2>1. next \in Nat
      BY <1>4, <1>7, <1>8 DEF NoCluster
    <2> HIDE DEF next
    <2>2. file' = [s EXCEPT !.sector = 0, !.cluster = next]
      BY <1>10 DEF Advanced, next
    <2> HIDE DEF s
    <2>3. /\ file' \in FileType /\ file'.kind = "File" /\ file'.first = file.first
          /\ file'.cluster = next /\ file'.sector = 0 /\ file'.offset = 0
      BY <1>5, <2>1, <2>2 DEF FileType
    <2>4. At(file', Total)
      <3>1. CASE k < Len(chain)
        <4>1. k + 1 \in 1 .. Len(chain) /\ next = chain[k + 1]
          BY <1>7, <1>8, <3>1 DEF next
        <4>2. Total = (((k + 1) - 1) * cs + file'.sector) * SectorSize + file'.offset
          <5>1. ((k + 1) - 1) * cs + 0 = (k - 1) * cs + cs
            BY <1>8, <1>9
          <5> QED BY <1>5, <2>3, <5>1
        <4>3. file'.sector < cs
          BY <1>2, <2>3
        <4> QED BY <1>3, <2>3, <4>1, <4>2, <4>3 DEF At, chain, cs
      <3>2. CASE ~ (k < Len(chain))
        <4>1. k = Len(chain) /\ next = NoCluster
          BY <1>4, <1>7, <1>8, <3>2 DEF next
        <4>2. k * cs * SectorSize \in Nat
          BY <1>2, <1>9, ProductIsNat
        <4>3. Total = Len(chain) * cs * SectorSize
          BY <1>5, <1>9, <4>1, <4>2
        <4> QED BY <1>3, <2>3, <4>1, <4>3 DEF At, chain, cs
      <3> QED BY <3>1, <3>2
    <2>5. pc' = "read" /\ pos' = pos /\ call' = call /\ UNCHANGED <<mountVars, op, panic>>
          /\ hist' = hist
      BY <1>1, <1>10, PosSame DEF mountVars
    <2>6. At(file', IF pc' = "read" THEN pos' + Len(call'.got) ELSE pos')
      BY <1>2, <2>4, <2>5
    <2>7. pc' \in {"read", "idle"} /\ pc' # "idle" /\ pos' \in Nat
          /\ call' \in [left : Nat, got : Seq(Nat \X Nat)]
          /\ \A i \in 1 .. Len(call'.got) : call'.got[i] = Contents(disk, file.first)[pos' + i]
      BY <1>2, <2>5
    <2> QED BY <1>1, <1>2, <1>12, <2>3, <2>5, <2>6, <2>7, ReadStep
  <1>11. CASE /\ hist.repeats < MaxRepeats
              /\ file' = [Moved(file) EXCEPT !.sector = 0]
              /\ Return("read", "IoError")
              /\ hist' = [bytes |-> hist.bytes + Len(call.got), repeats |-> hist.repeats + 1]
              /\ UNCHANGED panic
    <2>0. pos' = (pos + Len(call.got)) - ClusterBytes
          /\ hist' \in [bytes : Nat, repeats : 0 .. MaxRepeats]
      BY <1>1, <1>2, <1>11, PosRepeats DEF mountVars
    <2>1. file' = [s EXCEPT !.sector = 0]
      BY <1>11
    <2> HIDE DEF s
    <2>2. /\ file' \in FileType /\ file'.kind = "File" /\ file'.first = file.first
          /\ file'.cluster = chain[k] /\ file'.sector = 0 /\ file'.offset = 0
      BY <1>5, <1>6, <2>1 DEF FileType
    <2> DEFINE a == (k - 1) * cs
    <2>3. a \in Nat /\ Total = (a + cs) * SectorSize + 0
      BY <1>5, <1>9
    <2>4. pos' = Total - cs * SectorSize
      BY <1>2, <2>0 DEF ClusterBytes
    <2> HIDE DEF a
    <2>5. pos' = (a + 0) * SectorSize + 0
      BY <1>2, <2>3, <2>4, OneClusterBack
    <2>6. pos' \in Nat
      BY <1>2, <2>3, <2>5, ProductIsNat
    <2>7. pos' = ((k - 1) * cs + file'.sector) * SectorSize + file'.offset
      BY <2>2, <2>5 DEF a
    <2>8. file'.sector < cs
      BY <1>2, <2>2
    <2>9. At(file', pos')
      BY <1>3, <1>4, <2>2, <2>7, <2>8 DEF At, chain, cs
    <2>10. pc' = "idle" /\ last' = [call |-> "read", ret |-> "IoError"] /\ call' = call
           /\ UNCHANGED <<mountVars, op, panic>>
      BY <1>1, <1>11 DEF Return
    <2>11. At(file', IF pc' = "read" THEN pos' + Len(call'.got) ELSE pos')
      BY <2>9, <2>10
    <2>12. \E ret : /\ last' = [call |-> "read", ret |-> ret]
                    /\ ret = "Ok" /\ call'.left > 0 =>
                         /\ file.first \in Heads(disk)
                         /\ file'.cluster = NoCluster
      <3>1. "IoError" # "Ok"
        OBVIOUS
      <3> QED BY <2>10, <3>1
    <2>13. pc' \in {"read", "idle"} /\ pc' # "read" /\ call' \in [left : Nat, got : Seq(Nat \X Nat)]
      BY <1>2, <2>10
    <2> QED BY <1>1, <1>12, <2>0, <2>2, <2>6, <2>10, <2>11, <2>12, <2>13, ReadStep
  <1> QED BY <1>7, <1>10, <1>11 DEF ReadNextCluster

\* The position after t bytes is in a sector of the k-th cluster of the file, which
\* has n more bytes.
InSector(d, first, k, sector, offset, n, t) ==
  /\ d \in Disks /\ first \in Heads(d) /\ k \in 1 .. Len(ChainOf(d, first))
  /\ sector \in 0 .. d.clusterSectors - 1 /\ offset \in Nat /\ n \in Nat
  /\ offset + n <= SectorSize
  /\ t = ((k - 1) * d.clusterSectors + sector) * SectorSize + offset

\* The bytes that are copied are the next ones of the file.
LEMMA CopiedBytes ==
  ASSUME NEW d, NEW first, NEW k, NEW sector, NEW offset, NEW n, NEW t,
         InSector(d, first, k, sector, offset, n, t), NEW i \in 1 .. n
  PROVE  Contents(d, first)[t + i]
           = <<ClusterStart(d, ChainOf(d, first)[k]) + sector + Part(d).lba, offset + i - 1>>
  <1> USE DEF InSector
  <1> DEFINE a == ((k - 1) * d.clusterSectors + sector) * SectorSize
             o == offset + i - 1
  <1>1. o \in 0 .. SectorSize - 1
    BY LayoutAssumption
  <1>2. k - 1 \in Nat /\ d.clusterSectors \in Nat
    <2>1. d \in Disks /\ first \in Heads(d) /\ k \in 1 .. Len(ChainOf(d, first))
      BY Zenon
    <2>2. Len(ChainOf(d, first)) \in Nat
      BY <2>1, ChainIs, Zenon
    <2>3. \A m \in Nat : \A j \in 1 .. m : j - 1 \in Nat
      OBVIOUS
    <2>4. k - 1 \in Nat
      BY <2>1, <2>2, <2>3, Zenon
    <2>5. d.clusterSectors \in Nat
      BY ONLY <2>1, Geometry
    <2> QED BY <2>4, <2>5
  <1>3. (k - 1) * d.clusterSectors \in Nat
    BY <1>2, ProductIsNat
  <1>4. (k - 1) * d.clusterSectors + sector \in Nat
    BY <1>2, <1>3
  <1>5. a \in Nat
    BY <1>4, ProductIsNat, LayoutAssumption
  <1>6. Contents(d, first)[a + o + 1]
          = <<ClusterStart(d, ChainOf(d, first)[k]) + sector + Part(d).lba, o>>
    BY <1>1, ContentsAt
  <1> HIDE DEF a
  <1>7. t = a + offset
    BY DEF a
  <1>8. a + o + 1 = t + i
    BY <1>5, <1>7
  <1> QED BY <1>6, <1>8

\* The bytes of a sector are copied, or the file has ended.
LEMMA ReadSectorStep ==
  ASSUME FatInv, ReadSector
  PROVE  FatInv'
  <1> DEFINE cs == disk.clusterSectors
             chain == ChainOf(disk, file.first)
             s == Moved(file)
             n == first_cluster_sector(s.cluster) + s.sector
             b == Lesser(SectorSize - s.offset, call.left)
  <1>1. pc = "read" /\ call.left > 0 /\ ~AtClusterEnd /\ UNCHANGED <<mountVars, op>>
    BY DEF ReadSector
  <1>2. /\ disk \in Disks /\ Mounted /\ file \in FileType /\ file.kind = "File"
        /\ hist \in [bytes : Nat, repeats : 0 .. MaxRepeats]
        /\ call.left \in Nat /\ call.got \in Seq(Nat \X Nat)
        /\ call \in [left : Nat, got : Seq(Nat \X Nat)]
        /\ Total = pos + Len(call.got) /\ Len(call.got) \in Nat
        /\ sectors_per_cluster = cs /\ cs \in Nat \ {0} /\ SectorSize \in Nat \ {0}
        /\ part.lba = Part(disk).lba
    BY <1>1, Reading
  <1>3. IF s.cluster = NoCluster
        THEN /\ file' = s
             /\ ReadReturns("Ok")
             /\ UNCHANGED call
        ELSE \/ /\ s.cluster < 2
                /\ Panic("underflow")
                /\ UNCHANGED <<file, call, last, hist>>
             \/ /\ ~InPartition(n)
                /\ Panic("partition")
                /\ UNCHANGED <<file, call, last, hist>>
             \/ /\ InPartition(n)
                /\ file' = s
                /\ ReadReturns("IoError")
                /\ UNCHANGED call
             \/ /\ InPartition(n)
                /\ call' = [left |-> call.left - b, got |-> call.got \o Bytes(s, n, b)]
                /\ file' = [s EXCEPT !.offset = s.offset + b]
                /\ UNCHANGED <<pc, last, panic, hist>>
    BY DEF ReadSector
  <1>4. CASE file.first = 0
    <2>1. /\ s \in FileType /\ s.kind = "File" /\ s.first = 0 /\ s.cluster \in Nat
          /\ s.sector \in 0 .. cs - 1 /\ s.sector < cs /\ s.offset \in 0 .. SectorSize - 1
      <3>1. /\ s \in FileType /\ s.kind = "File" /\ s.first = 0 /\ s.cluster \in Nat
            /\ s.sector \in 0 .. cs /\ s.offset \in 0 .. SectorSize - 1 /\ s.sector # cs
        BY <1>1, <1>4, EmptyMoved
      <3>2. \A x, y : y \in Nat \ {0} /\ x \in 0 .. y /\ x # y => x \in 0 .. y - 1 /\ x < y
        OBVIOUS
      <3> HIDE DEF s, cs
      <3> QED BY <1>2, <3>1, <3>2, Zenon
    <2>2. n \in Int
      <3>1. s.cluster - 2 \in Int /\ sectors_per_cluster \in Nat
        BY <1>2, <2>1
      <3>2. (s.cluster - 2) * sectors_per_cluster \in Int
        BY <3>1
      <3>3. first_root_dir_sector + root_dir_sector_count \in Nat
        BY <1>2, Geometry DEF Mounted, first_root_dir_sector, RootStart, root_dir_sector_count,
           RootCount, first_fat_sector, all_fats_sector_count, fat_sector_count
      <3> HIDE DEF s
      <3> QED BY <1>2, <2>1, <3>2, <3>3 DEF first_cluster_sector
    <2> HIDE DEF n, s, cs
    <2>3. CASE s.cluster = NoCluster /\ file' = s /\ ReadReturns("Ok") /\ UNCHANGED call
      <3>1. /\ pc' = "idle" /\ last'.call = "read" /\ panic' = panic
            /\ hist' \in [bytes : Nat, repeats : 0 .. MaxRepeats]
        BY <1>1, <2>3, ReadReturnsPos
      <3>2. file'.sector < disk.clusterSectors
        BY <2>1, <2>3 DEF cs
      <3> QED BY <1>1, <1>2, <1>4, <2>1, <2>3, <3>1, <3>2, EmptyReadStep
    <2>4. CASE (Panic("underflow") \/ Panic("partition")) /\ UNCHANGED <<file, call, last, hist>>
      <3>1. UNCHANGED <<mountVars, op, file, call, last, hist>>
        BY <1>1, <2>4
      <3> QED BY <1>2, <1>4, <2>4, <3>1, PanicStep
    <2>5. CASE file' = s /\ ReadReturns("IoError") /\ UNCHANGED call
      <3>1. /\ pc' = "idle" /\ last'.call = "read" /\ panic' = panic
            /\ hist' \in [bytes : Nat, repeats : 0 .. MaxRepeats]
        BY <1>1, <2>5, ReadReturnsPos
      <3>2. file'.sector < disk.clusterSectors
        BY <2>1, <2>5 DEF cs
      <3> QED BY <1>1, <1>2, <1>4, <2>1, <2>5, <3>1, <3>2, EmptyReadStep
    <2>6. CASE /\ InPartition(n)
               /\ call' = [left |-> call.left - b, got |-> call.got \o Bytes(s, n, b)]
               /\ file' = [s EXCEPT !.offset = s.offset + b]
               /\ UNCHANGED <<pc, last, panic, hist>>
      <3>1. s.offset \in Nat /\ s.offset < SectorSize
        BY <1>2, <2>1
      <3>2. b \in Nat /\ b <= call.left /\ s.offset + b \in 0 .. SectorSize
        BY <1>2, <3>1 DEF Lesser
      <3>3. n + part.lba \in Nat
        BY <1>2, <2>2, <2>6, Geometry, SMTT(30) DEF InPartition
      <3> HIDE DEF b
      <3>4. Bytes(s, n, b) \in Seq(Nat \X Nat)
        <4>1. \A i \in 1 .. b : <<n + part.lba, s.offset + i - 1>> \in Nat \X Nat
          BY <3>1, <3>2, <3>3
        <4> QED BY <3>2, <4>1 DEF Bytes
      <3>5. call.left - b \in Nat /\ call.got \o Bytes(s, n, b) \in Seq(Nat \X Nat)
        BY <1>2, <3>2, <3>4
      <3>6. call' \in [left : Nat, got : Seq(Nat \X Nat)]
        BY <2>6, <3>5
      <3>7. file' \in FileType /\ file'.kind = "File" /\ file'.first = 0
            /\ file'.sector = s.sector
        BY <2>1, <2>6, <3>2 DEF FileType
      <3>8. file'.sector < disk.clusterSectors
        BY <2>1, <3>7 DEF cs
      <3>9. pc' = "read" /\ UNCHANGED <<mountVars, op, panic>> /\ hist' = hist
        BY <1>1, <2>6
      <3> QED BY <1>1, <1>2, <1>4, <3>6, <3>7, <3>8, <3>9, EmptyReadStep
    <2> QED BY <1>3, <2>3, <2>4, <2>5, <2>6
  <1>7. SUFFICES ASSUME file.first # 0 PROVE FatInv'
    BY <1>4
  <1>8. /\ pos \in Nat
        /\ \A i \in 1 .. Len(call.got) : call.got[i] = Contents(disk, file.first)[pos + i]
    BY <1>1, <1>7, Reading
  <1>5. CASE file.first \in Heads(disk) /\ AtEnd
    <2>1. s = file /\ s.cluster = NoCluster
      BY <1>1, <1>5, NotAtEnd DEF AtEnd
    <2>2. /\ file' = file /\ pc' = "idle" /\ last' = [call |-> "read", ret |-> "Ok"]
          /\ pos' = pos + Len(call.got) /\ call' = call /\ UNCHANGED <<mountVars, op, panic>>
          /\ hist' \in [bytes : Nat, repeats : 0 .. MaxRepeats]
      <3>1. file' = file /\ ReadReturns("Ok") /\ call' = call
        BY <1>3, <2>1
      <3>2. UNCHANGED mountVars
        BY <1>1
      <3> QED BY <1>1, <3>1, <3>2, ReadReturnsPos
    <2>3. At(file', pos')
      BY <1>2, <1>5, <2>2 DEF At, AtEnd
    <2>4. At(file', IF pc' = "read" THEN pos' + Len(call'.got) ELSE pos')
      BY <2>2, <2>3
    <2>5. \E ret : /\ last' = [call |-> "read", ret |-> ret]
                   /\ ret = "Ok" /\ call'.left > 0 =>
                        /\ file.first \in Heads(disk)
                        /\ file'.cluster = NoCluster
      BY <1>5, <2>1, <2>2
    <2>6. pc' \in {"read", "idle"} /\ pc' # "read" /\ pos' \in Nat
          /\ call' \in [left : Nat, got : Seq(Nat \X Nat)]
          /\ file' \in FileType /\ file'.kind = "File" /\ file'.first = file.first
      BY <1>2, <1>8, <2>2
    <2> QED BY <1>1, <1>7, <2>2, <2>4, <2>5, <2>6, ReadStep
  <1>6. ASSUME file.first \in Heads(disk), NEW k \in 1 .. Len(chain), InChain(k)
        PROVE  FatInv'
    <2>1. /\ s \in FileType /\ s.kind = "File" /\ s.first = file.first
          /\ s.cluster = file.cluster /\ s.offset \in 0 .. SectorSize - 1
          /\ s.sector \in 0 .. cs /\ (k - 1) * cs + s.sector \in Nat
          /\ Total = ((k - 1) * cs + s.sector) * SectorSize + s.offset
      BY <1>1, <1>6, MovedAt
    <2>2. s.cluster = chain[k]
      BY <1>6, <2>1 DEF InChain
    <2>3. s.sector \in 0 .. cs - 1 /\ s.sector < cs
      <3>1. s.sector # cs
        BY <1>1, <1>2 DEF AtClusterEnd
      <3>2. \A x, y : y \in Nat \ {0} /\ x \in 0 .. y /\ x # y => x \in 0 .. y - 1 /\ x < y
        OBVIOUS
      <3> HIDE DEF s, cs
      <3> QED BY <1>2, <2>1, <3>1, <3>2, Zenon
    <2>4. /\ s.cluster \in 2 .. BadCluster - 1
          /\ ClusterStart(disk, s.cluster) + s.sector \in Nat
          /\ ClusterStart(disk, s.cluster) + s.sector + 1 <= Part(disk).sectors
      <3>1. k \in 1 .. Len(ChainOf(disk, file.first)) /\ s.sector \in 0 .. disk.clusterSectors - 1
        BY <1>6, <2>3
      <3>2. /\ chain[k] \in 2 .. BadCluster - 1
            /\ ClusterStart(disk, chain[k]) + s.sector \in Nat
            /\ ClusterStart(disk, chain[k]) + s.sector + 1 <= Part(disk).sectors
        <4>1. disk \in Disks /\ file.first \in Heads(disk)
          BY <1>2, <1>6
        <4>2. ASSUME NEW x \in 0 .. disk.clusterSectors - 1
              PROVE  /\ chain[k] \in 2 .. BadCluster - 1
                     /\ ClusterStart(disk, chain[k]) + x \in Nat
                     /\ ClusterStart(disk, chain[k]) + x + 1 <= Part(disk).sectors
          BY <3>1, <4>1, ClusterIs
        <4> HIDE DEF s, chain
        <4> QED BY <3>1, <4>2, Zenon
      <3> QED BY <2>2, <3>2
    <2>5. n = ClusterStart(disk, s.cluster) + s.sector
      BY <1>2, Geometry DEF Mounted, first_cluster_sector, ClusterStart, sectors_per_cluster,
         first_root_dir_sector, RootStart, root_dir_sector_count, RootCount, first_fat_sector,
         all_fats_sector_count, fat_sector_count
    <2>6. s.cluster # NoCluster /\ ~ (s.cluster < 2) /\ InPartition(n) /\ n \in Nat
      <3>1. s.cluster \in Nat /\ s.cluster >= 2 /\ s.cluster < BadCluster
        BY <2>4, BadClusterIsNat
      <3>2. s.cluster # NoCluster /\ ~ (s.cluster < 2)
        BY <3>1 DEF BadCluster, NoCluster
      <3>3. InPartition(n) /\ n \in Nat
        <4>1. n \in Nat /\ n + 1 <= part.sectors /\ part.sectors \in Nat
          BY <1>2, <2>4, <2>5, Geometry DEF Mounted
        <4> HIDE DEF n
        <4> QED BY <4>1 DEF InPartition
      <3> QED BY <3>2, <3>3
    <2> HIDE DEF n, s, chain, cs
    <2>7. At(s, Total)
      BY <1>6, <2>1, <2>2, <2>3 DEF At, chain, cs
    <2>8. CASE file' = s /\ ReadReturns("IoError") /\ UNCHANGED call
      <3>1. /\ pc' = "idle" /\ last' = [call |-> "read", ret |-> "IoError"]
            /\ pos' = pos + Len(call.got) /\ call' = call /\ UNCHANGED <<mountVars, op, panic>>
            /\ hist' \in [bytes : Nat, repeats : 0 .. MaxRepeats]
        <4>1. UNCHANGED mountVars
          BY <1>1
        <4> QED BY <1>1, <2>8, <4>1, ReadReturnsPos
      <3>2. At(file', IF pc' = "read" THEN pos' + Len(call'.got) ELSE pos')
        BY <1>2, <2>7, <2>8, <3>1
      <3>3. \E ret : /\ last' = [call |-> "read", ret |-> ret]
                     /\ ret = "Ok" /\ call'.left > 0 =>
                          /\ file.first \in Heads(disk)
                          /\ file'.cluster = NoCluster
        <4>1. "IoError" # "Ok"
          OBVIOUS
        <4> QED BY <3>1, <4>1
      <3>4. pc' \in {"read", "idle"} /\ pc' # "read" /\ pos' \in Nat
            /\ call' \in [left : Nat, got : Seq(Nat \X Nat)]
            /\ file' \in FileType /\ file'.kind = "File" /\ file'.first = file.first
        BY <1>2, <1>8, <2>1, <2>8, <3>1
      <3> QED BY <1>1, <1>7, <3>1, <3>2, <3>3, <3>4, ReadStep
    <2>9. CASE /\ call' = [left |-> call.left - b, got |-> call.got \o Bytes(s, n, b)]
               /\ file' = [s EXCEPT !.offset = s.offset + b]
               /\ UNCHANGED <<pc, last, panic, hist>>
      <3> DEFINE bytes == Bytes(s, n, b)
      <3>1. s.offset \in Nat /\ s.offset < SectorSize /\ s.sector \in Nat
        BY <1>2, <2>1, <2>3, SMTT(30)
      <3>2. b \in Nat /\ b <= call.left /\ s.offset + b <= SectorSize
        BY <1>2, <3>1 DEF Lesser
      <3>3. bytes \in Seq(Nat \X Nat) /\ Len(bytes) = b
            /\ \A i \in 1 .. b : bytes[i] = <<n + part.lba, s.offset + i - 1>>
        <4>1. part.lba \in Nat
          BY <1>2, Geometry
        <4>2. \A i \in 1 .. b : <<n + part.lba, s.offset + i - 1>> \in Nat \X Nat
          BY <2>6, <3>1, <3>2, <4>1, SMTT(30)
        <4> HIDE DEF b
        <4> QED BY <3>2, <4>2 DEF Bytes
      <3> HIDE DEF b, bytes
      <3>4. call' = [left |-> call.left - b, got |-> call.got \o bytes]
        BY <2>9 DEF bytes
      <3>5. call.got \o bytes \in Seq(Nat \X Nat)
            /\ Len(call.got \o bytes) = Len(call.got) + b
            /\ \A i \in 1 .. Len(call.got) + b : (call.got \o bytes)[i] =
                 IF i <= Len(call.got) THEN call.got[i] ELSE bytes[i - Len(call.got)]
        <4>1. call.got \o bytes \in Seq(Nat \X Nat)
              /\ Len(call.got \o bytes) = Len(call.got) + Len(bytes)
              /\ \A i \in 1 .. Len(call.got) + Len(bytes) : (call.got \o bytes)[i] =
                   IF i <= Len(call.got) THEN call.got[i] ELSE bytes[i - Len(call.got)]
          <5>1. call.got \in Seq(Nat \X Nat) /\ bytes \in Seq(Nat \X Nat)
            BY <1>2, <3>3
          <5> QED BY <5>1, ConcatProperties, Zenon
        <4> QED BY <3>3, <4>1
      <3>6. call.left - b \in Nat
        BY <1>2, <3>2
      <3>7. /\ call'.got = call.got \o bytes /\ Len(call'.got) = Len(call.got) + b
            /\ call' \in [left : Nat, got : Seq(Nat \X Nat)]
        BY <3>4, <3>5, <3>6
      <3>8. file' = [s EXCEPT !.offset = s.offset + b]
        BY <2>9
      <3>9. /\ file' \in FileType /\ file'.kind = "File" /\ file'.first = file.first
            /\ file'.cluster = chain[k] /\ file'.sector = s.sector
            /\ file'.offset = s.offset + b
        <4>1. s.offset + b \in 0 .. SectorSize
          BY <1>2, <3>1, <3>2
        <4> QED BY <2>1, <2>2, <3>8, <4>1 DEF FileType
      <3>10. Total + b = ((k - 1) * cs + file'.sector) * SectorSize + file'.offset
        <4> DEFINE a == ((k - 1) * cs + s.sector) * SectorSize
        <4>1. a \in Nat
          BY <1>2, <2>1, ProductIsNat
        <4>2. Total = a + s.offset
          BY <2>1
        <4> HIDE DEF a
        <4>3. Total + b = a + (s.offset + b)
          BY <3>1, <3>2, <4>1, <4>2
        <4> QED BY <3>9, <4>3 DEF a
      <3>11. At(file', Total + b)
        BY <1>6, <2>3, <3>9, <3>10 DEF At, chain, cs
      <3>12. pc' = "read" /\ hist' = hist /\ pos' = pos /\ UNCHANGED <<mountVars, op, panic>>
        BY <1>1, <2>9, PosSame DEF mountVars
      <3>13. pos' + Len(call'.got) = Total + b
        BY <1>2, <1>8, <3>2, <3>7, <3>12
      <3>14. At(file', IF pc' = "read" THEN pos' + Len(call'.got) ELSE pos')
        BY <3>11, <3>12, <3>13
      <3>15. ASSUME NEW i \in 1 .. Len(call'.got)
             PROVE  call'.got[i] = Contents(disk, file.first)[pos' + i]
        <4>1. i \in 1 .. Len(call.got) + b /\ i \in Nat
          BY <3>7, <3>15, <1>2, <3>2
        <4>2. CASE i <= Len(call.got)
          <5>1. i \in 1 .. Len(call.got)
            BY <1>2, <4>1, <4>2
          <5> QED BY <1>2, <1>8, <3>5, <3>7, <3>12, <4>1, <4>2, <5>1
        <4>3. CASE ~ (i <= Len(call.got))
          <5> DEFINE j == i - Len(call.got)
          <5>1. j \in 1 .. b /\ Total + j = pos + i
            BY <1>2, <1>8, <3>2, <4>1, <4>3
          <5>2. call'.got[i] = bytes[j]
            BY <3>5, <3>7, <4>1, <4>3
          <5> HIDE DEF j
          <5>3. Total \in Nat
            BY <1>2, <1>8
          <5>4. Contents(disk, file.first)[Total + j]
                  = <<ClusterStart(disk, ChainOf(disk, file.first)[k]) + s.sector + Part(disk).lba,
                      s.offset + j - 1>>
            <6>1. /\ k \in 1 .. Len(ChainOf(disk, file.first))
                  /\ s.sector \in 0 .. disk.clusterSectors - 1
                  /\ Total = ((k - 1) * disk.clusterSectors + s.sector) * SectorSize + s.offset
              BY <1>6, <2>1, <2>3 DEF chain, cs
            <6>2. disk \in Disks /\ file.first \in Heads(disk) /\ s.offset \in Nat
                  /\ b \in Nat /\ s.offset + b <= SectorSize /\ j \in 1 .. b /\ Total \in Nat
              BY <1>2, <1>6, <3>1, <3>2, <5>1, <5>3
            <6>3. InSector(disk, file.first, k, s.sector, s.offset, b, Total)
              BY <6>1, <6>2 DEF InSector
            <6> QED BY <5>1, <6>3, CopiedBytes
          <5>5. Contents(disk, file.first)[Total + j] = <<n + part.lba, s.offset + j - 1>>
            BY <1>2, <2>2, <2>5, <5>4 DEF chain
          <5>6. bytes[j] = <<n + part.lba, s.offset + j - 1>>
            BY <3>3, <5>1
          <5> QED BY <3>12, <5>1, <5>2, <5>5, <5>6
        <4> QED BY <4>2, <4>3
      <3>16. pc' \in {"read", "idle"} /\ pc' # "idle" /\ pos' \in Nat
        BY <1>2, <1>8, <3>12
      <3> QED BY <1>1, <1>2, <1>7, <3>7, <3>9, <3>12, <3>14, <3>15, <3>16, ReadStep
    <2> QED BY <1>3, <2>6, <2>8, <2>9 DEF s, n
  <1> QED BY <1>1, <1>5, <1>6, <1>7, Reading DEF chain

\* SubSeq as a function.
LEMMA SubSeqIs ==
  ASSUME NEW a, NEW m \in Nat, NEW n \in Nat
  PROVE  SubSeq(a, m, n) = [i \in 1 .. (1 + n - m) |-> a[i + m - 1]]
  OBVIOUS

\* The t elements after the first p.
LEMMA SubSeqFrom ==
  ASSUME NEW a, NEW p \in Nat, NEW t \in Nat
  PROVE  SubSeq(a, p + 1, p + t) = [i \in 1 .. t |-> a[p + i]]
  <1>1. SubSeq(a, p + 1, p + t) = [i \in 1 .. (1 + (p + t) - (p + 1)) |-> a[i + (p + 1) - 1]]
    <2>1. p + 1 \in Nat /\ p + t \in Nat
      OBVIOUS
    <2> QED BY <2>1, SubSeqIs
  <1>2. 1 + (p + t) - (p + 1) = t /\ \A i \in 1 .. t : i + (p + 1) - 1 = p + i
    OBVIOUS
  <1> QED BY <1>1, <1>2

(***************************************************************************)
(* The theorems.                                                           *)
(***************************************************************************)

\* Every step keeps the invariant.
LEMMA NextStep ==
  FatInv /\ [Next]_vars => FatInv'
  <1> SUFFICES ASSUME FatInv, [Next]_vars PROVE FatInv'
    OBVIOUS
  <1>1. CASE Next
    BY <1>1, ReadMbrStep, ReadBpbStep, OpenedDirStep, SkipEmptySegmentStep, StartScanStep,
       ScanClusterStep, ScanEndsStep, ScanSectorStep, ReadDoneStep, ReadNextClusterStep,
       ReadSectorStep, OpenPathStep, ReadCallStep, WriteCallStep, CloseStep, StutterStep
       DEF Next, Running, Halted
  <1>2. CASE UNCHANGED vars
    BY <1>2, StutterStep
  <1> QED BY <1>1, <1>2

\* The inductive invariant of Fat16: the volume is mounted, the path walk is at the
\* directory its segments name, the scan has passed over sectors without the name,
\* and the position of an open file that is not empty counts the bytes that were read,
\* less a cluster for each failed read of the FAT.
THEOREM FatInvariant == Spec => []FatInv
  BY InitStep, NextStep, PTL DEF Spec

\* File::read hands out the bytes of the file one after the other, for any sizes of
\* the buffers, any chain of clusters and errors anywhere, but one cluster again for
\* each read that failed because of the FAT; and a short read is at the end of the
\* file.
THEOREM ReadsAreExact == Spec => []ReadsNextBytes
  <1>1. ASSUME FatInv PROVE ReadsNextBytes
    <2>1. ASSUME pc = "read", file.first # 0
          PROVE  call.got = SubSeq(Contents(disk, file.first), pos + 1, pos + Len(call.got))
      <3> DEFINE all == Contents(disk, file.first)
                 t == Len(call.got)
      <3>1. call.got \in Seq(Nat \X Nat) /\ pos \in Nat /\ t \in Nat
            /\ \A i \in 1 .. t : call.got[i] = all[pos + i]
        BY <1>1, <2>1, Reading
      <3> HIDE DEF all
      <3>2. call.got = [i \in 1 .. t |-> call.got[i]]
        BY <3>1
      <3> HIDE DEF t
      <3>3. SubSeq(all, pos + 1, pos + t) = [i \in 1 .. t |-> all[pos + i]]
        BY <3>1, SubSeqFrom
      <3> QED BY <3>1, <3>2, <3>3 DEF all, t
    <2>2. ASSUME pc = "idle", file.kind = "File", file.first # 0, last = [call |-> "read", ret |-> "Ok"],
                 call.left > 0
          PROVE  pos = Len(Contents(disk, file.first))
      <3>1. file.first \in Heads(disk) /\ AtEnd /\ disk \in Disks
        BY <1>1, <2>2 DEF FatInv, GotPart, TypePart
      <3> DEFINE m == Len(ChainOf(disk, file.first)) * disk.clusterSectors * SectorSize
      <3>2. pos = m /\ m \in Nat /\ file.first # 0
        BY <1>1, <2>2, <3>1, SMTT(30) DEF AtEnd, Total, FatInv, TypePart
      <3>3. Contents(disk, file.first) = [j \in 1 .. m |->
              <<PlaceOf(disk, ChainTag(disk, file.first, (j - 1) \div SectorSize)),
                (j - 1) % SectorSize>>]
        BY <3>2 DEF Contents
      <3> HIDE DEF m
      <3> QED BY <3>2, <3>3
    <2> QED BY <2>1, <2>2 DEF ReadsNextBytes
  <1> QED BY <1>1, FatInvariant, PTL

\* Filesystem::open finds what the path names and nothing else, for every path and
\* every layout of the directories.
THEOREM LookupsAreExact == Spec => []OpenIsLookup
  <1>1. FatInv => OpenIsLookup
    BY DEF FatInv
  <1> QED BY <1>1, FatInvariant, PTL

\* next_cluster, first_cluster_sector and Partition::read_sectors stay on a well
\* formed volume, whatever is opened and read, but for a read of an empty file; and
\* Directory::entry panics on no path and no entry that is UTF-8.
THEOREM AccessesStayOnVolume == Spec => []StaysOnVolume
  <1>1. FatInv => StaysOnVolume
    BY DEF FatInv, TypePart, PanicPart, StaysOnVolume, TypeOK, sectors_per_cluster
  <1> QED BY <1>1, FatInvariant, PTL
=============================================================================
