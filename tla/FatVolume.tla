------------------------------- MODULE FatVolume -------------------------------
(***************************************************************************)
(* The volume under the file library: the medium behind disk_io, what      *)
(* fatfs_init reads from it, and the file allocation table through its one *)
(* buffer (fat_access.c, fat_table.c and the allocation of fat_write.c).   *)
(*                                                                         *)
(* A C function is an operator that takes the machine m, a record of all   *)
(* that the library keeps, and returns it changed; m.ok and m.val are what *)
(* the function returns. A local operator with a parameter is the rest of  *)
(* the function after a call, whose outcome is the parameter. The parts of *)
(* the machine are                                                         *)
(*   media   sector address -> sector                                      *)
(*   fs      struct fatfs as fatfs_init leaves it                          *)
(*   fbuf    the buffer of one FAT sector (FAT_BUFFERS, FAT_BUFFER_SECTORS *)
(*           are 1)                                                        *)
(*   cur     currentsector, the buffer of one directory sector             *)
(*   hinted  next_free_cluster is not yet FAT32_LAST_CLUSTER               *)
(*   fault   what befalls the medium during this call, and after how many  *)
(*           operations                                                    *)
(*   stray   a sector outside of the volume (fs.extent, which the code     *)
(*           does not keep) was written                                    *)
(*   full    no free cluster was found                                     *)
(*   endless a search for an entry never ends                              *)
(* A sector has a kind and, at each of its places, a link, an entry or a   *)
(* byte. The second copy of the FAT is never written, by the code either.  *)
(***************************************************************************)
EXTENDS Integers, Sequences, FiniteSets, SequencesExt

CONSTANTS SECTOR_SIZE,            \* bytes in a sector (FAT_SECTOR_SIZE)
          ENTRIES_PER_SECTOR,     \* FAT_DIR_ENTRIES_PER_SECTOR
          FAT16_LINKS,            \* links in a sector of a FAT16 table
          FAT32_LINKS,            \* and of a FAT32 table
          FAT12_LIMIT,            \* a volume of fewer clusters is FAT12
          FAT16_LIMIT,            \* and of fewer than this, FAT16
          FAT16_SECTORS,          \* a volume of up to these is formatted as FAT16
          CLUSTER_SIZES16,        \* _cluster_size_table16, and the one for FAT32: rows of
          CLUSTER_SIZES32,        \* sectors and spc, the sectors of a cluster
          RESERVED16, RESERVED32, \* sectors before a table that is formatted
          ROOT_ENTRIES            \* entries of a FAT16 root that is formatted

\* FAT32_LAST_CLUSTER and FAT32_INVALID_CLUSTER are the same number, which
\* also stands for a buffer that holds no sector.
LastCluster    == -1
Invalid == LastCluster
Free    == 0

Nothing == [kind |-> "nothing"]
Zeroed  == [kind |-> "zero"]
Blank   == [kind |-> "blank"]
Junk    == [kind |-> "junk"]

NoFault == [kind |-> "none", left |-> 0]

Return(m, ok, val) == [m EXCEPT !.ok = ok, !.val = val]
Fail(m)            == Return(m, FALSE, Nothing)

\* What a sector reads as when it is taken for one of the given kind.
View(sector, kind, size, zero, other) ==
    IF sector.kind = kind THEN sector.at
    ELSE [i \in 0 .. size - 1 |-> IF sector.kind = "zero" THEN zero ELSE other]

Bytes(sector)   == View(sector, "bytes", SECTOR_SIZE, 0, -1)
Entries(sector) == View(sector, "entries", ENTRIES_PER_SECTOR, Blank, Junk)

-------------------------------------------------------------------------------
(* The medium. A "cut" lets some more sectors be written and none after    *)
(* them; "read" and "write" make one operation fail.                       *)

\* disk_io.read_media: n sectors from address a.
ReadMedia(m, a, n) ==
    LET counting == m.fault.kind = "read"
        fails    == counting /\ m.fault.left = 0
        present  == \A i \in 0 .. n - 1 : a + i \in DOMAIN m.media
        t == [m EXCEPT !.fault = IF fails THEN NoFault
                                 ELSE IF counting THEN [@ EXCEPT !.left = @ - 1] ELSE @]
    IN  IF fails \/ ~present THEN Fail(t)
        ELSE Return(t, TRUE, [i \in 1 .. n |-> m.media[a + i - 1]])

\* disk_io.write_media: the sectors, from address a.
WriteMedia(m, a, sectors) ==
    LET n     == Len(sectors)
        kind  == m.fault.kind
        fails == kind = "write" /\ m.fault.left = 0
        kept  == IF fails THEN 0 ELSE IF kind = "cut" /\ m.fault.left < n THEN m.fault.left ELSE n
        fault == CASE fails          -> NoFault
                   [] kind = "cut"   -> [kind |-> "cut", left |-> m.fault.left - kept]
                   [] kind = "write" -> [kind |-> "write", left |-> m.fault.left - 1]
                   [] OTHER          -> m.fault
    IN  [m EXCEPT !.media = [x \in DOMAIN @ |-> IF x \in a .. a + kept - 1
                                                THEN sectors[x - a + 1] ELSE @[x]],
                  !.stray = @ \/ \E i \in 0 .. n - 1 : a + i \notin DOMAIN m.media \cap m.fs.extent,
                  !.fault = fault, !.ok = ~fails, !.val = Nothing]

-------------------------------------------------------------------------------
(* Mounting.                                                               *)

\* fatfs_fat_init, and the other buffers as fatfs_init leaves them.
Forget(m) ==
    [m EXCEPT !.fbuf = [address |-> Invalid, dirty |-> FALSE, data |-> Zeroed],
              !.cur = [address |-> Invalid, data |-> Zeroed], !.hinted = TRUE]

\* The partition types of the table in sector 0 that fatfs_init accepts.
PartitionTypes == (1 .. 6) \cup {11, 12, 14, 15}

\* What is worked out from the boot sector b of a volume that begins at lba.
Geometry(b, lba) ==
    LET fats == b.num_fats * b.fat_sectors
        root == (b.root_entries + ENTRIES_PER_SECTOR - 1) \div ENTRIES_PER_SECTOR
        data == b.total_sectors - (b.reserved + fats + root)
        clusters == data \div b.spc
    IN  [type |-> IF clusters < FAT12_LIMIT THEN 12 ELSE IF clusters < FAT16_LIMIT THEN 16 ELSE 32,
         spc |-> b.spc, fat_sectors |-> b.fat_sectors, root_entries |-> b.root_entries,
         rootdir_first_cluster |-> IF clusters < FAT16_LIMIT THEN 0 ELSE b.root_cluster,
         rootdir_sectors |-> root, rootdir_lba |-> lba + b.reserved + fats,
         fs_info_lba |-> lba + b.fs_info,
         fat_begin_lba |-> lba + b.reserved, cluster_begin_lba |-> lba + b.reserved + fats,
         extent |-> lba .. lba + b.total_sectors - 1]

\* fatfs_init: an invalid volume leaves the library without one (fs Nothing).
FatfsInit(m0) ==
    LET sized(m, g) == IF g.type = 12 THEN Fail(m) ELSE Return([m EXCEPT !.fs = g], TRUE, Nothing)
        checked(m, lba) ==
            IF \/ ~m.ok
               \/ m.val[1].kind # "boot"
               \/ m.val[1].sector_size # SECTOR_SIZE
               \/ m.val[1].spc = 0
            THEN Fail(m) ELSE sized(m, Geometry(m.val[1], lba))
        booted(m, lba) == checked(ReadMedia(m, lba, 1), lba)
        partition(m) ==
            IF ~m.ok \/ m.val[1].kind \notin {"mbr", "boot"} THEN Fail(m)
            ELSE booted(m, IF m.val[1].kind = "mbr" /\ m.val[1].type \in PartitionTypes
                           THEN m.val[1].lba_begin ELSE 0)
    IN  partition(ReadMedia([Forget(m0) EXCEPT !.fs = Nothing], 0, 1))

Fat16(m) == m.fs.type = 16

\* fatfs_lba_of_cluster: there is no check of c, and 0 gives a sector before the first cluster.
LbaOfCluster(m, c) ==
    m.fs.cluster_begin_lba + (c - 2) * m.fs.spc
        + IF Fat16(m) THEN m.fs.root_entries \div ENTRIES_PER_SECTOR ELSE 0

-------------------------------------------------------------------------------
(* The table through its buffer.                                           *)

Links(m)      == IF Fat16(m) THEN FAT16_LINKS ELSE FAT32_LINKS
LinkPlace(m, c) == c % Links(m)

\* The number of the end of chain, taken for a cluster, is far off the card.
LinkSector(m, c) ==
    IF c = LastCluster THEN Cardinality(DOMAIN m.media) ELSE m.fs.fat_begin_lba + c \div Links(m)

LinkIn(m, sector, c) == View(sector, "links", Links(m), Free, LastCluster)[LinkPlace(m, c)]

\* fatfs_fat_writeback.
FatWriteback(m) ==
    LET written(w) == IF w.ok THEN [w EXCEPT !.fbuf.dirty = FALSE] ELSE w
    IN  written(WriteMedia(m, m.fbuf.address, <<m.fbuf.data>>))

\* fatfs_fat_purge, of the only buffer.
FatPurge(m) == IF m.fbuf.dirty THEN FatWriteback(m) ELSE Return(m, TRUE, Nothing)

\* fatfs_fat_read_sector: the sector that is replaced goes back to the medium first.
FatReadSector(m, a) ==
    LET loaded(r) == IF r.ok
                     THEN [r EXCEPT !.fbuf = [address |-> a, dirty |-> FALSE, data |-> r.val[1]]]
                     ELSE [r EXCEPT !.fbuf.address = Invalid]
        purged(w) == IF w.ok THEN loaded(ReadMedia(w, a, 1)) ELSE w
    IN  IF m.fbuf.address = a THEN Return(m, TRUE, Nothing) ELSE purged(FatPurge(m))

\* fatfs_find_next_cluster: a link that cannot be read is an end of chain.
FindNextCluster(m, cluster) ==
    LET c == IF cluster = 0 THEN 2 ELSE cluster
        read(r) == Return(r, TRUE, IF r.ok THEN LinkIn(r, r.fbuf.data, c) ELSE LastCluster)
    IN  read(FatReadSector(m, LinkSector(m, c)))

\* fatfs_set_fs_info_next_free_cluster(FAT32_LAST_CLUSTER), once after mounting.
ForgetHint(m) ==
    LET noHint  == [kind |-> "info", next |-> LastCluster]
        read(r) == IF ~r.ok THEN r
                   ELSE [WriteMedia(r, r.fbuf.address, <<noHint>>) EXCEPT
                            !.hinted = FALSE,
                            !.fbuf = [address |-> Invalid, dirty |-> FALSE, data |-> Zeroed]]
    IN  IF ~m.hinted \/ Fat16(m) THEN m ELSE read(FatReadSector(m, m.fs.fs_info_lba))

\* fatfs_find_blank_cluster: the first free link from c on, to the end of the
\* table, whether or not the volume has a cluster for it.
RECURSIVE FindBlankCluster(_, _)
FindBlankCluster(m, c) ==
    LET read(r) == IF ~r.ok THEN r
                   ELSE IF LinkIn(r, r.fbuf.data, c) = Free THEN Return(r, TRUE, c)
                   ELSE FindBlankCluster(r, c + 1)
    IN  IF c \div Links(m) >= m.fs.fat_sectors THEN Fail([m EXCEPT !.full = TRUE])
        ELSE read(FatReadSector(m, LinkSector(m, c)))

\* fatfs_fat_set_cluster: into the buffer only.
SetCluster(m, c, link) ==
    LET linked(old) ==
            [kind |-> "links", at |-> [k \in 0 .. Links(m) - 1 |-> IF k = LinkPlace(m, c) THEN link ELSE old[k]]]
        read(r) == IF ~r.ok THEN r
                   ELSE [r EXCEPT !.fbuf.dirty = TRUE,
                                  !.fbuf.data = linked(View(@, "links", Links(m), Free, LastCluster))]
    IN  read(FatReadSector(m, LinkSector(m, c)))

\* Mutant: the link is freed before it is read.
FreeClusterChainLate(m, c) == IF c \in {LastCluster, Free} THEN m ELSE SetCluster(m, c, Free)

\* fatfs_free_cluster_chain: the link is read, then freed; that either fails goes unseen.
RECURSIVE FreeClusterChain(_, _)
FreeClusterChain(m, c) ==
    LET read(n) == FreeClusterChain(SetCluster(n, c, Free), n.val)
    IN  IF c \in {LastCluster, Free} THEN Return(m, TRUE, Nothing) ELSE read(FindNextCluster(m, c))

\* fatfs_fat_add_cluster_to_chain: cluster 0, the FAT16 root, counts as cluster 2.
RECURSIVE AddClusterToChain(_, _, _)
AddClusterToChain(m, c, new) ==
    LET read(n) == IF c = LastCluster \/ n.val = Free THEN Fail(n)
                   ELSE IF n.val # LastCluster THEN AddClusterToChain(n, n.val, new)
                   ELSE Return(SetCluster(SetCluster(n, c, new), new, LastCluster), TRUE, Nothing)
    IN  read(FindNextCluster(m, c))

\* The clusters of fatfs_add_free_space, after cluster c: val is the first of them.
RECURSIVE AddClusters(_, _, _)
AddClusters(m, c, count) ==
    LET more(b, new) ==
            [AddClusters(SetCluster(SetCluster(b, c, new), new, LastCluster), new, count - 1)
                EXCEPT !.val = new]
        found(b) == IF b.ok THEN more(b, b.val) ELSE b
    IN  IF count = 0 THEN Return(m, TRUE, Nothing)
        ELSE found(FindBlankCluster(m, m.fs.rootdir_first_cluster))

\* fatfs_add_free_space.
AddFreeSpace(m, c, count) == AddClusters(ForgetHint(m), c, count)

\* Mutant: the search starts at the last sector of the table.
AllocateFreeSpaceLate(m) ==
    LET found(b) == IF b.ok THEN Return(SetCluster(b, b.val, LastCluster), TRUE, b.val) ELSE b
    IN  found(FindBlankCluster(ForgetHint(m), (m.fs.fat_sectors - 1) * Links(m)))

\* fatfs_allocate_free_space for a new file of one byte, as both its callers ask.
AllocateFreeSpace(m) ==
    LET found(b) == IF b.ok THEN Return(SetCluster(b, b.val, LastCluster), TRUE, b.val) ELSE b
    IN  found(FindBlankCluster(ForgetHint(m), m.fs.rootdir_first_cluster))

\* fatfs_count_free_clusters: the free links of every sector of the table that can be
\* read, up to one that cannot.
RECURSIVE CountFree(_, _, _)
CountFree(m, i, count) ==
    LET free(links) == Cardinality({ k \in DOMAIN links : links[k] = Free })
        read(r) == IF ~r.ok THEN Return(r, TRUE, count)
                   ELSE CountFree(r, i + 1,
                           count + free(View(r.fbuf.data, "links", Links(r), Free, LastCluster)))
    IN  IF i = m.fs.fat_sectors THEN Return(m, TRUE, count)
        ELSE read(FatReadSector(m, m.fs.fat_begin_lba + i))

CountFreeClusters(m) == CountFree(m, 0, 0)

-------------------------------------------------------------------------------
(* Formatting (fat_format.c), of a build with FATFS_INC_FORMAT_SUPPORT. It *)
(* leaves the library with the geometry it has worked out, not with what a *)
(* mount would find.                                                       *)

\* fatfs_calc_cluster_size: 0 for a size that no row of the table has.
CalcClusterSize(sectors, table) ==
    LET rows == { i \in DOMAIN table : sectors <= table[i].sectors }
    IN  IF rows = {} THEN 0 ELSE table[Min(rows)].spc

\* What fatfs_create_boot_sector writes for either type of volume: the tables are counted
\* over one cluster more than the volume has, without those of the reserved links.
BootDetails16(sectors, spc) ==
    [reserved |-> RESERVED16, root_entries |-> ROOT_ENTRIES, root_cluster |-> 0, fs_info |-> 0,
     fat_sectors |-> (sectors \div spc + 1) \div FAT16_LINKS + 1]

BootDetails32(sectors, spc) ==
    [reserved |-> RESERVED32, root_entries |-> 0, root_cluster |-> 2, fs_info |-> 1,
     fat_sectors |-> (sectors \div spc + 1) \div FAT32_LINKS + 1]

\* The sector that fatfs_create_boot_sector fills.
BootSector(sectors, spc, fat32) ==
    [kind |-> "boot", sector_size |-> SECTOR_SIZE, spc |-> spc, num_fats |-> 2,
     total_sectors |-> sectors]
        @@ (IF fat32 THEN BootDetails32(sectors, spc) ELSE BootDetails16(sectors, spc))

\* The sector that fatfs_create_fsinfo_sector fills: where to look for a free cluster is
\* not known.
FsInfoSector == [kind |-> "info", next |-> LastCluster]

\* What fatfs_format_fat16 and fatfs_format_fat32 leave in struct fatfs: the latter does
\* not set what only a FAT16 root needs.
FormattedFs(fs, b, fat32) ==
    LET data == b.reserved + 2 * b.fat_sectors
    IN  [type |-> IF fat32 THEN 32 ELSE 16, spc |-> b.spc, fat_sectors |-> b.fat_sectors,
         root_entries |-> b.root_entries, rootdir_first_cluster |-> b.root_cluster,
         rootdir_sectors |-> IF fat32 THEN fs.rootdir_sectors
                             ELSE (b.root_entries + ENTRIES_PER_SECTOR - 1) \div ENTRIES_PER_SECTOR,
         rootdir_lba |-> IF fat32 THEN fs.rootdir_lba ELSE data,
         fs_info_lba |-> b.fs_info, fat_begin_lba |-> b.reserved, cluster_begin_lba |-> data,
         extent |-> 0 .. b.total_sectors - 1]

\* fatfs_erase_sectors, up to the one that cannot be written.
RECURSIVE EraseSectors(_, _, _)
EraseSectors(m, lba, count) ==
    LET written(w) == IF w.ok THEN EraseSectors(w, lba + 1, count - 1) ELSE w
    IN  IF count = 0 THEN Return(m, TRUE, Nothing) ELSE written(WriteMedia(m, lba, <<Zeroed>>))

\* fatfs_erase_fat: the first links of the first copy are taken, those of the second are not.
EraseFat(m) ==
    LET taken == [k \in 0 .. Links(m) - 1 |-> IF k < 2 \/ (k = 2 /\ ~Fat16(m)) THEN LastCluster ELSE Free]
        first(w) == IF w.ok THEN EraseSectors(w, m.fs.fat_begin_lba + 1, 2 * m.fs.fat_sectors - 1) ELSE w
    IN  first(WriteMedia(m, m.fs.fat_begin_lba, << [kind |-> "links", at |-> taken] >>))

\* The root that both of them erase last.
EraseRoot(m) ==
    IF Fat16(m) THEN EraseSectors(m, m.fs.rootdir_lba, m.fs.rootdir_sectors)
    ELSE EraseSectors(m, LbaOfCluster(m, m.fs.rootdir_first_cluster), m.fs.spc)

\* fatfs_format, fatfs_format_fat16 and fatfs_format_fat32, after which FAT16_SECTORS decides.
Format(m, sectors) ==
    LET fat32   == sectors > FAT16_SECTORS
        spc     == CalcClusterSize(sectors, IF fat32 THEN CLUSTER_SIZES32 ELSE CLUSTER_SIZES16)
        emptied(e) == IF e.ok THEN EraseRoot(e) ELSE e
        informed(i) == IF i.ok THEN emptied(EraseFat(i)) ELSE i
        booted(w) == IF w.ok /\ fat32
                     THEN informed(WriteMedia(w, w.fs.fs_info_lba, <<FsInfoSector>>))
                     ELSE informed(w)
        boot(b) == booted(WriteMedia([Forget(m) EXCEPT !.fs = FormattedFs(@, b, fat32)], 0, <<b>>))
    IN  IF spc = 0 THEN Fail([Forget(m) EXCEPT !.fs.spc = 0]) ELSE boot(BootSector(sectors, spc, fat32))

-------------------------------------------------------------------------------
(* What the table says, with the sector that only the buffer has.          *)

LinkOf(m, c) ==
    LET a == LinkSector(m, c)
    IN  IF a = m.fbuf.address THEN LinkIn(m, m.fbuf.data, c) ELSE LinkIn(m, m.media[a], c)

Clusters(m) == 2 .. m.fs.fat_sectors * Links(m) - 1

\* The clusters of the chain from c, up to its end or to one it has already met.
RECURSIVE ChainAfter(_, _, _)
ChainAfter(m, c, seen) ==
    IF c \notin Clusters(m) \/ c \in ToSet(seen) THEN seen
    ELSE ChainAfter(m, LinkOf(m, c), Append(seen, c))

Chain(m, c) == ChainAfter(m, c, <<>>)

\* The chain from c comes to an end, and no link of it is that of a free cluster.
WellLinked(m, c) == Chain(m, c) # <<>> /\ LinkOf(m, Chain(m, c)[Len(Chain(m, c))]) = LastCluster

===============================================================================
