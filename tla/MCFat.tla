-------------------------------- MODULE MCFat ---------------------------------
(***************************************************************************)
(* Sectors of two bytes or of three entries, and two small cards: FAT16 in *)
(* a partition, with two sectors in a cluster, a link more in its table    *)
(* than it has clusters, and free sectors after it; FAT32 without a        *)
(* partition table, with one sector in a cluster and a file ab of three    *)
(* bytes. Both have a folder d. The names ab and abd have                  *)
(* the same short name; the second takes two entries of a long name, the   *)
(* first fills its only one. The bytes 5, 6, 7 are written as a block and  *)
(* as a string, the byte 4 as a character, and 7 is the end of a line.     *)
(***************************************************************************)
EXTENDS FatLibrary

AB  == <<"a", "b">>
ABD == <<"a", "b", "d">>
D   == <<"d">>

LongD == FilenameToLfn(D, 0)
ShortOf(n, start, size, dir) == ShortEntry(CreateSfn(n), start, size, dir)

EntrySector(s) == [kind |-> "entries", at |-> [i \in Places |-> IF i < Len(s) THEN s[i + 1] ELSE Blank]]
ByteSector(a, b) == [kind |-> "bytes", at |-> [i \in 0 .. 1 |-> IF i = 0 THEN a ELSE b]]
LinkSectorOf(s) == [kind |-> "links", at |-> [i \in 0 .. Len(s) - 1 |-> s[i + 1]]]

Card(sectors) == [a \in 0 .. Len(sectors) - 1 |-> sectors[a + 1]]

\* One sector before the table, two copies of a table of two sectors, three sectors of
\* root, and three clusters; the last link of the table would be that of a fourth.
MCFat16 ==
    Card(<< [kind |-> "mbr", type |-> 6, lba_begin |-> 1],
            [kind |-> "boot", sector_size |-> 2, spc |-> 2, reserved |-> 1, num_fats |-> 2,
             fat_sectors |-> 2, root_entries |-> 9, root_cluster |-> 0, fs_info |-> 0,
             total_sectors |-> 14],
            LinkSectorOf(<<LastCluster, LastCluster, LastCluster>>), LinkSectorOf(<<0, 0, 0>>),
            LinkSectorOf(<<LastCluster, LastCluster, LastCluster>>), LinkSectorOf(<<0, 0, 0>>),
            EntrySector(<<LongD, ShortOf(D, 2, 0, TRUE)>>) >> \o [i \in 1 .. 33 |-> Zeroed])

\* Two sectors before the table, one copy of a table of four sectors, ten clusters.
MCFat32 ==
    Card(<< [kind |-> "boot", sector_size |-> 2, spc |-> 1, reserved |-> 2, num_fats |-> 1,
             fat_sectors |-> 4, root_entries |-> 0, root_cluster |-> 2, fs_info |-> 1,
             total_sectors |-> 16],
            [kind |-> "info", next |-> 7],
            LinkSectorOf(<<LastCluster, LastCluster, 5>>),
            LinkSectorOf(<<4, LastCluster, LastCluster>>),
            LinkSectorOf(<<LastCluster, 0, 0>>), LinkSectorOf(<<0, 0, 0>>),
            EntrySector(<<LongD, ShortOf(D, 6, 0, TRUE), FilenameToLfn(AB, 0)>>),
            ByteSector(1, 2), ByteSector(3, 0),
            EntrySector(<<ShortOf(AB, 3, 3, FALSE)>>),
            Zeroed, Zeroed, Zeroed, Zeroed, Zeroed, Zeroed >>)

MCVolumes == {MCFat16, MCFat32}

MCFiles == { [folders |-> <<>>, name |-> AB], [folders |-> <<>>, name |-> ABD],
             [folders |-> <<D>>, name |-> AB] }
MCFolders == { <<D>> }
MCData == { <<5, 6, 7>> }
MCStrings == MCData

\* 24 sectors give a FAT16 volume of five clusters, 40 a FAT32 volume of ten.
MCClusterSizes16 == << [sectors |-> 8, spc |-> 1], [sectors |-> 24, spc |-> 2] >>
MCClusterSizes32 == << [sectors |-> 40, spc |-> 1], [sectors |-> 80, spc |-> 4] >>

===============================================================================
