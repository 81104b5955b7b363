------------------------------- MODULE Fat16 -------------------------------
(***************************************************************************)
(* The file system of CrabOS: kernel/src/fs/fat16.rs, the path walk and    *)
(* the file operations of kernel/src/fs/vfs.rs, and the partition layer of *)
(* kernel/src/device/mbr.rs.  The disk itself is read one sector at a time *)
(* and any read may fail (module Ide models how).                          *)
(*                                                                         *)
(* The data is abstract: byte i of disk sector l is the pair <<l, i>>, so  *)
(* what a read delivers says where on the disk it came from.  A sector is  *)
(* a record of what it means when it is interpreted as a partition table,  *)
(* a BIOS parameter block, a piece of the FAT or of a directory; its tag   *)
(* says what it was written as, which only the properties look at.         *)
(*                                                                         *)
(* None of the awaits in this code ever returns Pending (the drive is      *)
(* polled and the AsyncMutex of an open file is not shared between tasks), *)
(* so calls run one after another.                                         *)
(***************************************************************************)
EXTENDS Naturals, Sequences

CONSTANTS
  SectorSize,     \* SECTOR_SIZE in bytes
  DirEntrySize,   \* DIR_ENTRY_SIZE
  FatEntrySize,   \* FAT_ENTRY_SIZE
  Disks,          \* the disks the kernel may boot from
  Paths,          \* the paths programs open, split at every '/'
  ReadSizes,      \* the buffer sizes programs read with
  Lower,          \* u8::to_ascii_lowercase, on the parts of a raw name
  NonUtf8,        \* names that are not valid UTF-8
  MaxRepeats      \* bound: how often the FAT cannot be read while a file is open

ASSUME LayoutAssumption ==
  /\ SectorSize \in Nat \ {0} /\ DirEntrySize \in Nat \ {0} /\ FatEntrySize \in Nat \ {0}
  /\ SectorSize % DirEntrySize = 0
  /\ SectorSize % FatEntrySize = 0
  /\ ReadSizes \subseteq Nat /\ MaxRepeats \in Nat
  /\ Paths \subseteq Seq(Seq(STRING)) \ {<<>>}

EndOfChain == 65528       \* 0xfff8
BadCluster == 65527       \* 0xfff7
NoCluster == 65536        \* None: no FAT entry has this value
Root == 65537             \* DirectoryKind::Root
EmptySegment == <<>>
Blank == ""               \* an extension of three spaces

VARIABLES
  disk,     \* the disk, which nothing changes
  pc,
  part,     \* the mounted Partition: its first disk sector and its size
  bpb,      \* the BiosParameterBlock read at boot
  op,       \* the open in progress, or the last one
  file,     \* the open file
  call,     \* the read in progress, or the last one: bytes wanted, bytes copied
  last,     \* which call returned last, and what
  panic,    \* why the kernel has panicked
  hist      \* history: how many bytes the reads of the open file before this one
            \* have copied, and how many of them failed because of the FAT

vars == <<disk, pc, part, bpb, op, file, call, last, panic, hist>>
mountVars == <<disk, part, bpb>>

NoFile == [kind |-> "None", first |-> NoCluster, cluster |-> NoCluster,
           sector |-> 0, offset |-> 0]
NoOp == [path |-> <<EmptySegment>>, rest |-> <<>>, dir |-> Root, sectors |-> <<>>,
         cluster |-> NoCluster]
NoHist == [bytes |-> 0, repeats |-> 0]

\* The kernel boots: the drive is open and nothing is mounted.
Init ==
  /\ disk \in Disks
  /\ pc = "mbr"
  /\ part = [lba |-> 0, sectors |-> 0]
  /\ bpb = [sectors_per_cluster |-> 0, reserved_sector_count |-> 0, fat_count |-> 0,
            root_directory_entry_count |-> 0, sectors_per_fat |-> 0]
  /\ op = NoOp
  /\ file = NoFile
  /\ call = [left |-> 0, got |-> <<>>]
  /\ last = [call |-> "none", ret |-> "none"]
  /\ panic = "none"
  /\ hist = NoHist

Panic(why) == pc' = "panic" /\ panic' = why

Return(name, ret) ==
  /\ pc' = "idle"
  /\ last' = [call |-> name, ret |-> ret]

-----------------------------------------------------------------------------
(* Partitions and the layout of a volume.                                  *)

\* Partition::read_sectors panics beyond the partition and else reads the
\* sector n of the partition.  A negative n is a usize that has wrapped around: it
\* is beyond every partition, but for the greatest, which wraps again at n + 1.
InPartition(n) == n + 1 \in 0 .. part.sectors
Sector(n) == disk.sectors[n + part.lba + 1]

\* Mbr::partitions, and main taking the first; every failure is an expect().
\* Only entries marked active become partitions.
ReadMbr ==
  /\ pc = "mbr"
  /\ \/ /\ disk.sectors[1].parts[1].active
        /\ part' = [lba |-> disk.sectors[1].parts[1].lba,
                    sectors |-> disk.sectors[1].parts[1].sectors]
        /\ pc' = "bpb"
        /\ UNCHANGED panic
     \/ Panic("boot") /\ UNCHANGED part
  /\ UNCHANGED <<disk, bpb, op, file, call, last, hist>>

\* BiosParameterBlock::read and Fat16::open.
ReadBpb ==
  /\ pc = "bpb"
  /\ \/ /\ InPartition(0)
        /\ bpb' = Sector(0).bpb
        /\ pc' = "idle"
        /\ UNCHANGED panic
     \/ Panic("boot") /\ UNCHANGED bpb
  /\ UNCHANGED <<disk, part, op, file, call, last, hist>>

first_fat_sector == bpb.reserved_sector_count
fat_sector_count == bpb.sectors_per_fat
all_fats_sector_count == bpb.fat_count * fat_sector_count
first_root_dir_sector == first_fat_sector + all_fats_sector_count
root_dir_sector_count ==
  (bpb.root_directory_entry_count * DirEntrySize) \div SectorSize
sectors_per_cluster == bpb.sectors_per_cluster

\* Cluster numbers are 2-indexed.
first_cluster_sector(c) ==
  first_root_dir_sector + root_dir_sector_count + (c - 2) * sectors_per_cluster

cluster_sectors(c) ==
  [i \in 1 .. sectors_per_cluster |-> first_cluster_sector(c) + i - 1]

-----------------------------------------------------------------------------
(* Filesystem::next_cluster.                                               *)

max_cluster == (fat_sector_count * SectorSize) \div FatEntrySize

FatSectorOf(c) == first_fat_sector + (c * FatEntrySize) \div SectorSize

\* The FAT entry of cluster c, in the sector that holds it.
FatEntry(c) ==
  Sector(FatSectorOf(c)).fat[((c * FatEntrySize) % SectorSize) \div FatEntrySize + 1]

\* The reasons next_cluster(c) has to panic ...
NextPanics(c) ==
  \/ c >= max_cluster
  \/ ~InPartition(FatSectorOf(c))
  \/ FatEntry(c) = BadCluster

\* Mutant: only the last possible mark ends a chain.
BugOneEndMark(c) == IF FatEntry(c) > 65534 THEN NoCluster ELSE FatEntry(c)

\* ... and what it returns: Some(next), or None at the end of the chain.
Next_cluster(c) == IF FatEntry(c) >= EndOfChain THEN NoCluster ELSE FatEntry(c)

-----------------------------------------------------------------------------
(* vfs::Filesystem::open and the directory scan behind it.                 *)

Open(rest, ret) ==
  /\ Return("open", ret)
  /\ op' = [op EXCEPT !.rest = rest]

\* A relative path is not found.  (An empty path is one empty segment.)
OpenPath ==
  /\ pc = "idle"
  /\ file = NoFile
  /\ \E p \in Paths :
       IF Head(p) = EmptySegment
       THEN /\ op' = [NoOp EXCEPT !.path = p, !.rest = Tail(p)]
            /\ pc' = "segment"
            /\ UNCHANGED last
       ELSE /\ op' = [NoOp EXCEPT !.path = p]
            /\ Return("open", "NotFound")
  /\ UNCHANGED <<mountVars, file, call, panic, hist>>

\* open_file cannot allocate an object for f, or has no room for its handle.  f is
\* dropped: with the allocator locked in the first case, which panics if the drop
\* frees a DirEntry (see KernelLocks).  The root directory has none.
NoObject(f) ==
  \/ /\ Open(<<>>, "MemoryExhausted")
     /\ UNCHANGED <<file, panic>>
  \/ /\ f.first # Root
     /\ Panic("memory")
     /\ UNCHANGED <<op, file, last>>

OpenFile(f) ==
  \/ /\ file' = f
     /\ Open(<<>>, "Ok")
     /\ UNCHANGED panic
  \/ NoObject(f)

\* The walk ends in a directory.
OpenedDir ==
  /\ pc = "segment"
  /\ op.rest = <<>>
  /\ OpenFile([NoFile EXCEPT !.kind = "Dir", !.first = op.dir])
  /\ UNCHANGED <<mountVars, call, hist>>

\* Mutant: the empty segment is looked at again.
BugStuckSegment ==
  /\ pc = "segment"
  /\ op.rest # <<>> /\ Head(op.rest) = EmptySegment
  /\ UNCHANGED vars

SkipEmptySegment ==
  /\ pc = "segment"
  /\ op.rest # <<>> /\ Head(op.rest) = EmptySegment
  /\ op' = [op EXCEPT !.rest = Tail(op.rest)]
  /\ UNCHANGED <<mountVars, pc, file, call, last, panic, hist>>

\* Directory::directory_sectors: a range of sectors for the root directory, the
\* sectors of a chain of clusters for any other.
StartScan ==
  /\ pc = "segment"
  /\ op.rest # <<>> /\ Head(op.rest) # EmptySegment
  /\ pc' = "scan"
  /\ op' = IF op.dir = Root
           THEN [op EXCEPT !.cluster = NoCluster,
                           !.sectors = [i \in 1 .. root_dir_sector_count |->
                                          first_root_dir_sector + i - 1]]
           ELSE [op EXCEPT !.cluster = op.dir, !.sectors = <<>>]
  /\ UNCHANGED <<mountVars, file, call, last, panic, hist>>

\* Mutant: the chain is followed one cluster ahead.
BugSkipCluster(c) == cluster_sectors(Next_cluster(c))

ChainItem(c) == cluster_sectors(c)

\* Filesystem::cluster_chain and sector_chain: the stream yields a cluster when
\* its FAT entry names a successor; a cluster without one ends the stream.
ScanCluster ==
  /\ pc = "scan"
  /\ op.sectors = <<>> /\ op.cluster # NoCluster
  /\ \/ IF NextPanics(op.cluster)
        THEN /\ Panic("cluster")
             /\ UNCHANGED <<op, last>>
        ELSE /\ IF Next_cluster(op.cluster) = NoCluster
                THEN Open(op.rest, "NotFound")
                ELSE /\ op' = [op EXCEPT !.sectors = ChainItem(op.cluster),
                                         !.cluster = Next_cluster(op.cluster)]
                     /\ UNCHANGED <<pc, last>>
             /\ UNCHANGED panic
     \/ /\ Open(op.rest, "IoError")
        /\ UNCHANGED panic
  /\ UNCHANGED <<mountVars, file, call, hist>>

\* The stream of sectors has ended without the name.
ScanEnds ==
  /\ pc = "scan"
  /\ op.sectors = <<>> /\ op.cluster = NoCluster
  /\ Open(op.rest, "NotFound")
  /\ UNCHANGED <<mountVars, file, call, panic, hist>>

\* RawDirEntry::filename: lower case, padding removed.
filename(e) ==
  IF e.ext = Blank THEN <<Lower[e.base]>> ELSE <<Lower[e.base], Lower[e.ext]>>

\* A first byte of 0xe5 is never valid UTF-8 before an ASCII letter.
EntryUtf8(e) == e.mark # "0xe5" /\ filename(e) \notin NonUtf8

\* The filters of read_entries on a sector of entries: not 0xef, and no further
\* than the end mark.
Kept(es) ==
  {i \in DOMAIN es : es[i].mark # "0xef" /\ \A j \in 1 .. i : es[j].mark # "0"}

\* The entries at which Directory::entry stops: it prints both names, which
\* panics if one is not UTF-8, and compares them.
Stops(es, name) ==
  {i \in Kept(es) : ~EntryUtf8(es[i]) \/ name \in NonUtf8 \/ filename(es[i]) = name}

\* DirEntry::open and the end of the path walk.
OpenEntry(e) ==
  IF e.dir
  THEN /\ op' = [op EXCEPT !.dir = e.cluster, !.rest = Tail(op.rest)]
       /\ pc' = "segment"
       /\ UNCHANGED <<file, last, panic>>
  ELSE IF Tail(op.rest) # <<>>
  THEN Open(op.rest, "NotFound") /\ UNCHANGED <<file, panic>>
  ELSE OpenFile([NoFile EXCEPT !.kind = "File", !.first = e.cluster, !.cluster = e.cluster])

\* read_entries, entries and entry on the next sector of the directory.
ScanSector ==
  /\ pc = "scan"
  /\ op.sectors # <<>>
  /\ LET n == Head(op.sectors)
         es == Sector(n).dir
         stops == Stops(es, Head(op.rest))
     IN  IF ~InPartition(n)
         THEN Panic("partition") /\ UNCHANGED <<op, file, last>>
         ELSE \/ /\ Open(op.rest, "IoError")
                 /\ UNCHANGED <<file, panic>>
              \/ /\ Kept(es) # {}           \* DirEntry::new
                 /\ Open(op.rest, "MemoryExhausted")
                 /\ UNCHANGED <<file, panic>>
              \/ /\ stops = {}
                 /\ IF \E i \in DOMAIN es : es[i].mark = "0"
                    THEN Open(op.rest, "NotFound")
                    ELSE /\ op' = [op EXCEPT !.sectors = Tail(op.sectors)]
                         /\ UNCHANGED <<pc, last>>
                 /\ UNCHANGED <<file, panic>>
              \/ \E i \in stops :
                   /\ \A j \in stops : i <= j
                   /\ IF EntryUtf8(es[i]) /\ Head(op.rest) \notin NonUtf8
                      THEN OpenEntry(es[i])
                      ELSE /\ Panic(IF EntryUtf8(es[i]) THEN "path not utf8"
                                    ELSE "entry not utf8")
                           /\ UNCHANGED <<op, file, last>>
  /\ UNCHANGED <<mountVars, call, hist>>

-----------------------------------------------------------------------------
(* vfs::File::read, vfs::File::write and fat16::File::read.                *)

ClusterBytes == sectors_per_cluster * SectorSize

\* File::read of a directory is InvalidOperation; that of a file locks its seek
\* position, which needs memory for a waker.
ReadCall ==
  /\ pc = "idle"
  /\ file.kind # "None"
  /\ \E n \in ReadSizes :
       /\ call' = [left |-> n, got |-> <<>>]
       /\ IF file.kind = "Dir"
          THEN Return("read", "InvalidOperation")
          ELSE \/ pc' = "read" /\ UNCHANGED last
               \/ Return("read", "MemoryExhausted")
  /\ UNCHANGED <<mountVars, op, file, panic, hist>>

\* Mutant: the sector number is not advanced at the end of a sector.
BugStaySector(s) == IF s.offset = SectorSize THEN [s EXCEPT !.offset = 0] ELSE s

\* At the end of a sector the position moves to the next one.
Moved(s) ==
  IF s.offset = SectorSize
  THEN [s EXCEPT !.offset = 0, !.sector = s.sector + 1]
  ELSE s

AtClusterEnd == Moved(file).sector = sectors_per_cluster

ReadReturns(ret) ==
  /\ Return("read", ret)
  /\ hist' = [hist EXCEPT !.bytes = hist.bytes + Len(call.got)]
  /\ UNCHANGED panic

ReadDone ==
  /\ pc = "read"
  /\ call.left = 0
  /\ ReadReturns("Ok")
  /\ UNCHANGED <<mountVars, op, file, call>>

\* The position after the last sector of a cluster.
Advanced(s) == [Moved(s) EXCEPT !.sector = 0, !.cluster = Next_cluster(s.cluster)]

\* At the end of a cluster the next one is looked up.  The sector is reset before
\* the FAT is read: when that fails, the position is back at the beginning of the
\* cluster that was just read.
ReadNextCluster ==
  /\ pc = "read"
  /\ call.left > 0
  /\ AtClusterEnd
  /\ \/ IF NextPanics(file.cluster)
        THEN /\ Panic("cluster")
             /\ UNCHANGED <<file, last, hist>>
        ELSE /\ file' = Advanced(file)
             /\ UNCHANGED <<pc, last, panic, hist>>
     \/ /\ hist.repeats < MaxRepeats
        /\ file' = [Moved(file) EXCEPT !.sector = 0]
        /\ Return("read", "IoError")
        /\ hist' = [bytes |-> hist.bytes + Len(call.got), repeats |-> hist.repeats + 1]
        /\ UNCHANGED panic
  /\ UNCHANGED <<mountVars, op, call>>

Lesser(a, b) == IF a < b THEN a ELSE b

\* The k bytes from the position s, in sector n of the partition.
Bytes(s, n, k) == [i \in 1 .. k |-> <<n + part.lba, s.offset + i - 1>>]

\* One sector is read and the bytes from the position on are copied.  In a debug
\* build the subtraction of 2 from a cluster number panics when it underflows, in a
\* release build it wraps around, so that the sector is before the first cluster.
ReadSector ==
  /\ pc = "read"
  /\ call.left > 0
  /\ ~AtClusterEnd
  /\ LET s == Moved(file)
         n == first_cluster_sector(s.cluster) + s.sector
         k == Lesser(SectorSize - s.offset, call.left)
     IN  IF s.cluster = NoCluster
         THEN /\ file' = s
              /\ ReadReturns("Ok")
              /\ UNCHANGED call
         ELSE \/ /\ s.cluster < 2
                 /\ Panic("underflow")
                 /\ UNCHANGED <<file, call, last, hist>>
              \/ /\ ~InPartition(n)
                 /\ Panic("partition")
                 /\ UNCHANGED <<file, call, last, hist>>
              \/ /\ InPartition(n)
                 /\ file' = s
                 /\ ReadReturns("IoError")
                 /\ UNCHANGED call
              \/ /\ InPartition(n)
                 /\ call' = [left |-> call.left - k, got |-> call.got \o Bytes(s, n, k)]
                 /\ file' = [s EXCEPT !.offset = s.offset + k]
                 /\ UNCHANGED <<pc, last, panic, hist>>
  /\ UNCHANGED <<mountVars, op>>

\* write of a file or a directory is a panic!().
WriteCall ==
  /\ pc = "idle"
  /\ file.kind # "None"
  /\ Panic("write")
  /\ UNCHANGED <<mountVars, op, file, call, last, hist>>

\* The last handle of the file is released.
Close ==
  /\ pc = "idle"
  /\ file.kind # "None"
  /\ file' = NoFile
  /\ call' = [left |-> 0, got |-> <<>>]
  /\ hist' = NoHist
  /\ last' = [call |-> "close", ret |-> "Ok"]
  /\ UNCHANGED <<mountVars, pc, op, panic>>

Halted ==
  /\ pc = "panic"
  /\ UNCHANGED vars

\* The code that runs until the call returns.
Running ==
  \/ ReadMbr \/ ReadBpb
  \/ OpenedDir \/ SkipEmptySegment \/ StartScan \/ ScanCluster \/ ScanEnds \/ ScanSector
  \/ ReadDone \/ ReadNextCluster \/ ReadSector

Next == Running \/ OpenPath \/ ReadCall \/ WriteCall \/ Close \/ Halted

Spec == Init /\ [][Next]_vars

\* The processor keeps executing kernel code.
FairSpec == Spec /\ WF_vars(Running)

-----------------------------------------------------------------------------
(* What a disk d was written as.                                           *)

\* The place of the sector with a tag, counted from 0.
PlaceOf(d, tag) == (CHOOSE l \in DOMAIN d.sectors : d.sectors[l].tag = tag) - 1

\* The chain of clusters of a file or directory, as it was allocated.
ChainOf(d, first) == d.chains[CHOOSE i \in DOMAIN d.chains : d.chains[i][1] = first]

\* The tag of sector i of a chain of clusters, counted from 0.
ChainTag(d, first, i) ==
  <<"cluster", ChainOf(d, first)[i \div d.clusterSectors + 1], (i % d.clusterSectors) + 1>>

\* The bytes of a file: those of its clusters, in order.
Contents(d, first) ==
  IF first = 0 THEN <<>> ELSE
  [j \in 1 .. Len(ChainOf(d, first)) * d.clusterSectors * SectorSize |->
     <<PlaceOf(d, ChainTag(d, first, (j - 1) \div SectorSize)), (j - 1) % SectorSize>>]

\* The tags of the sectors of the first n clusters of a directory.
ClusterTags(d, first, n) == [i \in 1 .. n * d.clusterSectors |-> ChainTag(d, first, i - 1)]

\* The sectors of a directory that a look-up may search: all of the root directory,
\* and those of all clusters but the last of any other.
Listed(d, dir) ==
  IF dir = Root THEN [i \in 1 .. d.rootSectors |-> <<"root", i>>]
  ELSE ClusterTags(d, dir, Len(ChainOf(d, dir)) - 1)

EntriesAt(d, tag) == d.sectors[PlaceOf(d, tag) + 1].dir

Matches(e, name) == e.mark = "live" /\ filename(e) = name

\* None of the entries js of a sector has the name or is the end mark.
Without(es, js, name) == \A j \in js : es[j].mark # "0" /\ ~Matches(es[j], name)

\* Entry i of the sector with the k-th tag is the first with the name, and no end
\* mark is before it.
IsFirst(d, tags, k, i, name) ==
  /\ Matches(EntriesAt(d, tags[k])[i], name)
  /\ Without(EntriesAt(d, tags[k]), 1 .. i - 1, name)
  /\ \A l \in 1 .. k - 1 : Without(EntriesAt(d, tags[l]), DOMAIN EntriesAt(d, tags[l]), name)

\* The entry with the name in the sectors with the tags, or none.
Named(d, tags, name) ==
  UNION {{EntriesAt(d, tags[k])[i] : i \in {i \in DOMAIN EntriesAt(d, tags[k]) :
                                             IsFirst(d, tags, k, i, name)}} : k \in DOMAIN tags}

Absent == [kind |-> "None", first |-> NoCluster]

\* Where a segment of a path leads from a place.  An empty segment leads nowhere
\* else, and nothing may follow a file, not even a '/'.
Follow(d, place, name) ==
  IF place.kind # "Dir" THEN Absent
  ELSE IF name = EmptySegment THEN place
  ELSE LET found == Named(d, Listed(d, place.first), name)
           e == CHOOSE e \in found : TRUE
       IN  IF found = {} THEN Absent
           ELSE [kind |-> IF e.dir THEN "Dir" ELSE "File", first |-> e.cluster]

\* Where a path leads: to a directory, a file or nothing.
Lookup(d, p) ==
  LET walk[i \in 1 .. Len(p)] == IF i = 1 THEN [kind |-> "Dir", first |-> Root]
                                 ELSE Follow(d, walk[i - 1], p[i])
  IN  IF Head(p) # EmptySegment THEN Absent ELSE walk[Len(p)]

-----------------------------------------------------------------------------
(* The disks the kernel boots from are well formed.                        *)

Part(d) == d.sectors[1].parts[1]
Bpb(d) == d.sectors[Part(d).lba + 1].bpb

RootStart(d) == Bpb(d).reserved_sector_count + Bpb(d).fat_count * Bpb(d).sectors_per_fat
RootCount(d) == (Bpb(d).root_directory_entry_count * DirEntrySize) \div SectorSize
ClusterStart(d, c) == RootStart(d) + RootCount(d) + (c - 2) * Bpb(d).sectors_per_cluster

\* Sector n of the partition, and it alone, is the one with the tag.
Placed(d, n, tag) ==
  /\ n + 1 <= Part(d).sectors
  /\ \A l \in DOMAIN d.sectors : d.sectors[l].tag = tag <=> l = n + Part(d).lba + 1

\* The parameters make sense and the partition is on the disk.
GeometryFits(d) ==
  /\ Part(d).lba \in Nat \ {0} /\ Part(d).sectors \in Nat
  /\ Bpb(d).reserved_sector_count \in Nat /\ Bpb(d).fat_count \in Nat
  /\ Bpb(d).sectors_per_fat \in Nat /\ Bpb(d).root_directory_entry_count \in Nat
  /\ Bpb(d).sectors_per_cluster \in Nat \ {0}
  /\ d.clusterSectors = Bpb(d).sectors_per_cluster /\ d.rootSectors = RootCount(d)
  /\ 1 .. Part(d).lba + Part(d).sectors \subseteq DOMAIN d.sectors
  /\ \A i \in 1 .. RootCount(d) : Placed(d, RootStart(d) + i - 1, <<"root", i>>)
  /\ \A l \in DOMAIN d.sectors :
       d.sectors[l].fat \in [1 .. SectorSize \div FatEntrySize -> 0 .. NoCluster - 1]

\* Cluster c is on the volume, the FAT has an entry for it, and the entry is one of
\* next.
ClusterFits(d, c, next) ==
  LET sector == Bpb(d).reserved_sector_count + (c * FatEntrySize) \div SectorSize
      slot == ((c * FatEntrySize) % SectorSize) \div FatEntrySize + 1
  IN  /\ c \in 2 .. BadCluster - 1
      /\ c < (Bpb(d).sectors_per_fat * SectorSize) \div FatEntrySize
      /\ sector + 1 <= Part(d).sectors
      /\ d.sectors[sector + Part(d).lba + 1].fat[slot] \in next
      /\ \A s \in 1 .. Bpb(d).sectors_per_cluster :
           Placed(d, ClusterStart(d, c) + s - 1, <<"cluster", c, s>>)

\* The FAT links the clusters of a chain and marks its end.
ChainFits(d, chain) ==
  /\ chain \in Seq(Nat) \ {<<>>}
  /\ \A k \in DOMAIN chain :
       ClusterFits(d, chain[k], IF k < Len(chain) THEN {chain[k + 1]}
                                ELSE EndOfChain .. NoCluster - 1)

Heads(d) == {d.chains[i][1] : i \in DOMAIN d.chains}

\* The entries of a sector of a directory.  Those of directories name one of heads,
\* those of files a chain, or 0 when the file is empty; those of deleted files, and
\* with names that are not UTF-8, hold anything.
EntriesFit(d, heads, es) ==
  /\ DOMAIN es = 1 .. SectorSize \div DirEntrySize
  /\ \A i \in Kept(es) :
       EntryUtf8(es[i]) =>
         /\ es[i].mark = "live"
         /\ es[i].cluster \in IF es[i].dir THEN heads ELSE Heads(d) \cup {0}

SectorEntriesFit(d, heads, n) == EntriesFit(d, heads, d.sectors[n + Part(d).lba + 1].dir)

\* heads are the first clusters of the directories.
DirectoriesFit(d, heads) ==
  /\ \A i \in 1 .. RootCount(d) : SectorEntriesFit(d, heads, RootStart(d) + i - 1)
  /\ \A h \in heads : \A k \in DOMAIN ChainOf(d, h) : \A s \in 1 .. Bpb(d).sectors_per_cluster :
       SectorEntriesFit(d, heads, ClusterStart(d, ChainOf(d, h)[k]) + s - 1)

WellFormed(d) ==
  /\ GeometryFits(d)
  /\ \A i \in DOMAIN d.chains : ChainFits(d, d.chains[i])
  /\ \E heads \in SUBSET Heads(d) : DirectoriesFit(d, heads)

ASSUME DisksAssumption == \A d \in Disks : WellFormed(d)

-----------------------------------------------------------------------------
(* Properties.                                                             *)

\* Every variable holds a value of its kind and the position of an open file is
\* inside its sector and cluster.
TypeOK ==
  /\ pc \in {"mbr", "bpb", "idle", "segment", "scan", "read", "panic"}
  /\ Len(op.rest) <= Len(op.path)
  /\ file.kind \in {"None", "Dir", "File"}
  /\ file.offset \in 0 .. SectorSize
  /\ pc # "mbr" => file.sector <= sectors_per_cluster
  /\ call.left \in Nat
  /\ hist.bytes \in Nat /\ hist.repeats \in 0 .. MaxRepeats

\* The byte of the file with which a read begins: the next after those that the reads
\* before have copied, but for each of them that failed because of the FAT one cluster
\* is read again.
pos == hist.bytes - hist.repeats * ClusterBytes

\* What a read has copied are the next bytes of the file, whatever the sizes of
\* the reads before it and wherever one of them failed (File::read keeps its
\* position in cluster, sector and offset across calls and errors), with one
\* exception: a read that fails because the FAT cannot be read sets the file back to
\* the beginning of the cluster that it had read to the end, and the next reads
\* deliver this one cluster again.  A read that returns less than the buffer has
\* reached the end: main stops loading init at the first short read.  An empty file,
\* whose cluster number is 0, has no contents, and a release build delivers others.
ReadsNextBytes ==
  (file.kind = "File" /\ file.first # 0) =>
    /\ pc = "read" =>
         call.got = SubSeq(Contents(disk, file.first), pos + 1, pos + Len(call.got))
    /\ (pc = "idle" /\ last = [call |-> "read", ret |-> "Ok"] /\ call.left > 0) =>
         pos = Len(Contents(disk, file.first))

\* open finds what the path names in the directories of the volume and nothing
\* else, whatever clusters they are on (but for the last cluster of a directory,
\* which cluster_chain drops: see FirstClusterIsSearched).
OpenIsLookup ==
  (pc = "idle" /\ last.call = "open") =>
    /\ last.ret = "Ok" =>
         [kind |-> file.kind, first |-> file.first] = Lookup(disk, op.path)
    /\ last.ret = "NotFound" => Lookup(disk, op.path).kind = "None"

\* A directory or another sector of the disk has an entry that cannot be decoded.
Undecodable(d) ==
  \E l \in DOMAIN d.sectors : \E i \in Kept(d.sectors[l].dir) : ~EntryUtf8(d.sectors[l].dir[i])

\* The state has its type, and on a well formed volume no look-up and no read
\* leaves the FAT or the partition.  The kernel panics on what a program can ask for
\* (a write, a path that is not UTF-8), when there is no memory for the object of a
\* file, on the name of an entry that is not UTF-8, which that of a deleted file is
\* not, and nowhere else but in a read of an empty file: its cluster number is 0, so
\* that the sector number underflows, or wraps around and leads anywhere.
StaysOnVolume ==
  /\ TypeOK
  /\ \/ panic \in {"none", "boot", "write", "path not utf8", "memory"}
     \/ panic = "entry not utf8" /\ Undecodable(disk)
     \/ panic \in {"underflow", "partition", "cluster"} /\ file.kind = "File" /\ file.first = 0

\* Every open and every read returns.
CallReturns ==
  (pc \in {"segment", "scan", "read"}) ~> (pc \in {"idle", "panic"})

\* The TODO on read_entries (fat16.rs:170): the entries of the first cluster of a
\* directory are read, so a name that is not found is not there.
FirstClusterIsSearched ==
  (pc = "idle" /\ last = [call |-> "open", ret |-> "NotFound"] /\ op.dir # Root
     /\ op.rest # <<>>) =>
    Named(disk, ClusterTags(disk, op.dir, 1), Head(op.rest)) = {}
=============================================================================
