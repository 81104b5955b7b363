-------------------------- MODULE MCUserBuffers --------------------------
(* UserBuffers with tables of eight entries, two bytes in a page. *)
EXTENDS UserBuffers

MCImage == <<"ro", "temp", "rw", "guard", "rw">>

Ram(begin, size) == [begin |-> begin, size |-> size, usable |-> TRUE]
Rom(begin, size) == [begin |-> begin, size |-> size, usable |-> FALSE]

\* One region, counters that reach into the next kernel slot, two regions with a hole,
\* more regions than there is room for.
MCMemoryMaps == {
  << Ram(0, 5), Rom(5, 1), Ram(6, 10) >>,
  << Ram(0, 2), Ram(8, 10) >>,
  << Ram(0, 13), Rom(13, 3), Ram(16, 5) >>,
  << Ram(9, 1), Ram(11, 1), Ram(13, 1) >> }

\* Around 0, the ends of a page, of a table, of the user half and of the word.
MCAddrs == {0, 1, 2, 15, 16, 62, 63, 64, 66, 255}
MCLens == {0, 1, 2, 3, 24, 32, 95, 96, 120, 127, 128, 192, 193, 240, 254, 255}
=============================================================================
