------------------------------ MODULE MCFat16 ------------------------------
(***************************************************************************)
(* Fat16 on small volumes.  A disk is written the way a formatter lays it  *)
(* out: partition table, gap, boot sector, reserved sectors, copies of the *)
(* FAT, root directory and the clusters from number 2 on, one after the    *)
(* other.                                                                  *)
(***************************************************************************)
EXTENDS Fat16, SequencesExt

MCSectorSize == 4
Clusters == 2 .. 7
SectorsPerCluster == 2

MCLower == [A |-> "a", B |-> "b", C |-> "c", D |-> "d", E |-> "e", TXT |-> "txt",
            dot |-> "dot"]

Entry(mark, base, ext, dir, c) ==
  [mark |-> mark, base |-> base, ext |-> ext, dir |-> dir, cluster |-> c]
FileEntry(base, ext, c) == Entry("live", base, ext, FALSE, c)
DirEntry(base, c) == Entry("live", base, Blank, TRUE, c)
End == Entry("0", "A", Blank, FALSE, 0)
Erased(mark) == Entry(mark, "C", Blank, FALSE, 0)

PlainSector(tag) ==
  [tag |-> tag, fat |-> <<0, 0>>, dir |-> <<End, End>>,
   parts |-> <<[active |-> FALSE, lba |-> 0, sectors |-> 0]>>,
   bpb |-> [sectors_per_cluster |-> 0, reserved_sector_count |-> 0, fat_count |-> 0,
            root_directory_entry_count |-> 0, sectors_per_fat |-> 0]]

\* The FAT of chains that end with the marks of the same index.
FatOf(chains, marks) ==
  [c \in 0 .. 7 |->
     IF c < 2 THEN EndOfChain
     ELSE IF \E i \in DOMAIN chains : \E k \in DOMAIN chains[i] : chains[i][k] = c
     THEN LET i == CHOOSE i \in DOMAIN chains : \E k \in DOMAIN chains[i] : chains[i][k] = c
              k == CHOOSE k \in DOMAIN chains[i] : chains[i][k] = c
          IN  IF k = Len(chains[i]) THEN marks[i] ELSE chains[i][k + 1]
     ELSE IF c = 7 THEN BadCluster ELSE 0]

\* The disk with a root directory, the other directories by cluster, and chains.
MakeDisk(root, dirs, chains, marks) ==
  LET fat == FatOf(chains, marks)
      fatSector(copy, i) == [PlainSector(<<"fat", copy, i>>) EXCEPT
                               !.fat = <<fat[2 * i - 2], fat[2 * i - 1]>>]
      oneFat(copy) == [i \in 1 .. 4 |-> fatSector(copy, i)]
      rootSector(i) == [PlainSector(<<"root", i>>) EXCEPT
                          !.dir = <<root[2 * i - 1], root[2 * i]>>]
      dirOf(c, s) == IF c \in DOMAIN dirs THEN <<dirs[c][2 * s - 1], dirs[c][2 * s]>>
                     ELSE <<End, End>>
      cluster(c) == [s \in 1 .. SectorsPerCluster |->
                       [PlainSector(<<"cluster", c, s>>) EXCEPT !.dir = dirOf(c, s)]]
      boot == [PlainSector(<<"boot">>) EXCEPT
                 !.bpb = [sectors_per_cluster |-> SectorsPerCluster,
                          reserved_sector_count |-> 2, fat_count |-> 2,
                          root_directory_entry_count |-> 4, sectors_per_fat |-> 4]]
      volume == <<boot, PlainSector(<<"reserved">>)>> \o oneFat(1) \o oneFat(2)
                  \o [i \in 1 .. 2 |-> rootSector(i)]
                  \o FlattenSeq([i \in 1 .. 6 |-> cluster(i + 1)])
      mbr == [PlainSector(<<"mbr">>) EXCEPT
                !.parts = <<[active |-> TRUE, lba |-> 3, sectors |-> Len(volume)]>>]
  IN  [sectors |-> <<mbr, PlainSector(<<"gap">>), PlainSector(<<"gap">>)>> \o volume,
       chains |-> chains, clusterSectors |-> SectorsPerCluster, rootSectors |-> 2]

\* A file A.TXT in the root directory on any clusters, a directory D of two
\* clusters with an empty file C and a file B in the first and a file E in the last.
\* The root directory ends with an end mark, a hidden entry or a deleted file.
GoodDisk(l) ==
  LET a == l.a  d == l.d  b == l.b IN
  MakeDisk(<<Erased("0xef"), FileEntry("A", "TXT", a[1]), DirEntry("D", d[1]),
             Erased(l.last)>>,
           (d[1] :> <<DirEntry("dot", d[1]), FileEntry("C", Blank, 0), Erased("0xef"), FileEntry("B", Blank, b)>>)
             @@ (d[2] :> <<FileEntry("E", Blank, b), End, End, End>>),
           <<a, d, <<b>>>>, <<65535, EndOfChain, EndOfChain>>)

Distinct(s) == \A i, j \in DOMAIN s : i # j => s[i] # s[j]

\* b may be the last cluster of the volume.
Layouts ==
  {l \in [a : UNION {[1 .. n -> {2, 3, 5}] : n \in 1 .. 3}, d : {<<4, 6>>, <<6, 4>>}, b : {7},
        last : {"0", "0xef", "0xe5"}] :
     Distinct(l.a) /\ (l.d[1] = 4 <=> l.last = "0")}

GoodDisks == {GoodDisk(l) : l \in Layouts}

\* A directory of one cluster.
SmallDirDisks ==
  {MakeDisk(<<DirEntry("D", 4), End, End, End>>,
             4 :> <<DirEntry("dot", 4), FileEntry("B", Blank, 3), End, End>>,
             << <<4>>, <<3>> >>, <<65535, 65535>>)}

SL == EmptySegment
ATxt == <<"a", "txt">>
MCPaths == {<<SL, ATxt>>, <<SL, SL, ATxt>>, <<SL, ATxt, SL>>, <<ATxt>>, <<SL, <<"a">>>>,
            <<SL, <<"d">>, SL>>, <<SL>>, <<SL, <<"d">>, <<"c">>>>, <<SL, <<"d">>, <<"b">>>>, <<SL, <<"d">>, <<"e">>>>,
            <<SL, <<"d">>, ATxt>>, <<SL, ATxt, <<"b">>>>, <<SL, SL>>,
            <<SL, <<"not utf8">>>>}
MCNonUtf8 == {<<"not utf8">>}
=============================================================================
