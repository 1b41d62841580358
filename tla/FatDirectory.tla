------------------------------ MODULE FatDirectory ------------------------------
(***************************************************************************)
(* Names and paths as the file library takes them apart and compares them  *)
(* (fat_string.c), the two forms in which a directory keeps a name         *)
(* (fat_misc.c), the parts of the long name and the short name, and the    *)
(* entries of a directory, a chain of sectors that are read one at a time  *)
(* through currentsector (fat_access.c, fat_misc.c, fat_write.c).          *)
(*                                                                         *)
(* A file has a short entry, and before it the parts of its long name, the *)
(* last part first.                                                        *)
(***************************************************************************)
EXTENDS FatVolume

CONSTANTS LFN_CHARS,              \* MAX_LFN_ENTRY_LENGTH (13)
          SFN_BASE,               \* FAT_SFN_SIZE_PARTIAL (8)
          SFN_EXT,                \* the extension of a short name (3)
          TAILS                   \* a new short name has a tail below this (9999)

ASSUME TailsAssumption == TAILS \in Nat

-------------------------------------------------------------------------------
(* Names (fat_string.c, fat_misc.c). A text is the sequence of its         *)
(* characters without the zero at its end. Room for text is taken to       *)
(* suffice everywhere.                                                     *)

\* The letters in use, and what ends a text in an entry or fills the rest of it.
CAPITAL == [a |-> "A", b |-> "B", d |-> "D"]
SMALL   == [A |-> "a", B |-> "b", D |-> "d"]
NUL     == "nul"
PAD     == "pad"

Capital(c) == IF c \in DOMAIN CAPITAL THEN CAPITAL[c] ELSE c
Small(c)   == IF c \in DOMAIN SMALL THEN SMALL[c] ELSE c

\* The last of some positions, 0 if there is none.
LastOf(positions) == CHOOSE i \in positions \cup {0} : \A j \in positions : j <= i

-------------------------------------------------------------------------------
(* Paths: /folder/file or c:\folder\file.                                  *)

\* The character that separates, and the text after the prefix; of any other
\* path nothing.
Rest(path) ==
    IF path # <<>> /\ path[1] = "/" THEN [separator |-> "/", text |-> Tail(path)]
    ELSE IF Len(path) > 2 /\ (path[2] = ":" \/ path[3] = "\\")
         THEN [separator |-> "\\", text |-> SubSeq(path, 4, Len(path))]
    ELSE [separator |-> NUL, text |-> <<>>]

\* Separators of the text up to position i.
SeparatorsUpTo(rest, i) == Cardinality({ j \in 1 .. i : rest.text[j] = rest.separator })

\* fatfs_total_path_levels: a separator at the end does not count.
TotalPathLevels(path) ==
    LET levels(rest, n) == SeparatorsUpTo(rest, n) - IF rest.text[n] = rest.separator THEN 1 ELSE 0
        total(rest) == IF rest.text = <<>> THEN -1 ELSE levels(rest, Len(rest.text))
    IN  total(Rest(path))

\* fatfs_get_substring: the text between two separators, empty for an error.
GetSubstring(path, level) ==
    LET run(text, last, n) == SubSeq(text, last - n + 1, last)
        taken(text, at) == run(text, LastOf(at), Cardinality(at))
        within(rest) == taken(rest.text, { i \in DOMAIN rest.text :
                            rest.text[i] # rest.separator /\ SeparatorsUpTo(rest, i) = level })
    IN  within(Rest(path))

\* fatfs_split_path: the name, and the text of the path before its separator, which is
\* empty for a file in the root. Without a name the path is refused.
SplitPath(full) ==
    LET split(levels, name) ==
            [name |-> name,
             path |-> IF levels = 0 THEN <<>> ELSE SubSeq(full, 1, Len(full) - Len(name) - 1)]
        leveled(levels) == split(levels, IF levels = -1 THEN <<>> ELSE GetSubstring(full, levels))
    IN  leveled(TotalPathLevels(full))

\* fatfs_create_path_string: a name after a path that may end in a separator, the one
\* that the path uses.
CreatePathString(path, name) ==
    LET separator == IF \E i \in DOMAIN path : path[i] = "\\" THEN "\\" ELSE "/"
        ended == path # <<>> /\ path[Len(path)] \in {"\\", "/"}
    IN  (IF ended THEN path ELSE Append(path, separator)) \o name

-------------------------------------------------------------------------------
(* Comparing.                                                              *)

\* FileString_GetExtension: where the last dot is.
GetExtension(text) == LastOf({ i \in DOMAIN text : text[i] = "." })

\* FileString_TrimLength: the first n characters without the spaces at their end.
TrimLength(text, n) == LastOf({ i \in 1 .. n : text[i] # " " })

\* FileString_StrCmpNoCase, of two texts of the same length.
SameNoCase(s, t) == \A i \in DOMAIN s : Small(s[i]) = Small(t[i])

\* fatfs_compare_names: spaces before the extension do not count.
CompareNames(s, t) ==
    LET dotS == GetExtension(s)
        dotT == GetExtension(t)
        extS == SubSeq(s, dotS + 1, Len(s))
        extT == SubSeq(t, dotT + 1, Len(t))
        baseS == SubSeq(s, 1, TrimLength(s, IF dotS = 0 THEN Len(s) ELSE dotS - 1))
        baseT == SubSeq(t, 1, TrimLength(t, IF dotT = 0 THEN Len(t) ELSE dotT - 1))
    IN  /\ dotS = 0 <=> dotT = 0
        /\ dotS # 0 => Len(extS) = Len(extT) /\ SameNoCase(extS, extT)
        /\ Len(baseS) = Len(baseT) /\ SameNoCase(baseS, baseT)

-------------------------------------------------------------------------------
(* The long name.                                                          *)

\* fatfs_lfn_entries_required.
LfnEntriesRequired(name) == (Len(name) + LFN_CHARS - 1) \div LFN_CHARS

\* fatfs_filename_to_lfn: a part that the name fills has no zero. The mark of the last
\* part is for other systems: nothing here reads it.
FilenameToLfn(name, entry) ==
    LET char(i) == IF i <= Len(name) THEN name[i] ELSE IF i = Len(name) + 1 THEN NUL ELSE PAD
    IN  [kind |-> "lfn", part |-> entry + 1, last |-> LfnEntriesRequired(name) - 1 = entry,
         text |-> [i \in 1 .. LFN_CHARS |-> char(entry * LFN_CHARS + i)]]

\* fatfs_lfn_cache_init: no_of_strings is set back, the strings only at the start of a search.
NoLongName     == [count |-> 0, strings |-> <<>>]
Uncounted(lfn) == [lfn EXCEPT !.count = 0]

\* Mutant: each part counts anew.
LfnCacheEntryAnew(lfn, e) ==
    [count |-> e.part,
     strings |-> [p \in DOMAIN lfn.strings \cup {e.part} |-> IF p = e.part THEN e.text ELSE lfn.strings[p]]]

\* fatfs_lfn_cache_entry: the first part that is met says how many there are.
LfnCacheEntry(lfn, e) ==
    LET text == [i \in DOMAIN e.text |-> IF e.text[i] = PAD THEN " " ELSE e.text[i]]
    IN  [count |-> IF lfn.count = 0 THEN e.part ELSE lfn.count,
         strings |-> [p \in DOMAIN lfn.strings \cup {e.part} |->
                         IF p = e.part THEN text ELSE lfn.strings[p]]]

\* fatfs_lfn_cache_get: the text up to its zero, or the one set after the parts counted.
LfnCacheGet(lfn) ==
    LET all == FlattenSeq([p \in 1 .. lfn.count |->
                   IF p \in DOMAIN lfn.strings THEN lfn.strings[p] ELSE <<NUL>>]) \o <<NUL>>
        end == CHOOSE i \in DOMAIN all : all[i] = NUL /\ \A j \in 1 .. i - 1 : all[j] # NUL
    IN  SubSeq(all, 1, end - 1)

-------------------------------------------------------------------------------
(* The short name.                                                         *)

Padded(text, n) == [i \in 1 .. n |-> IF i <= Len(text) THEN text[i] ELSE " "]

\* fatfs_lfn_create_sfn, of a name that does not start with a dot.
CreateSfn(name) ==
    LET dot   == GetExtension(name)
        ext   == IF dot = 0 THEN <<>> ELSE SubSeq(name, dot + 1, Len(name))
        chars == SelectSeq(IF dot = 0 THEN name ELSE SubSeq(name, 1, dot - 1),
                           LAMBDA c : c \notin {" ", "."})
        short == Padded(chars, SFN_BASE) \o Padded(ext, SFN_EXT)
    IN  [i \in DOMAIN short |-> Capital(short[i])]

\* fatfs_itoa.
RECURSIVE Itoa(_)
Itoa(n) ==
    LET digit == << << "0", "1", "2", "3", "4", "5", "6", "7", "8", "9" >>[(n % 10) + 1] >>
    IN  IF n < 10 THEN digit ELSE Itoa(n \div 10) \o digit

\* fatfs_lfn_generate_tail: the tail takes the last places before the extension.
GenerateTail(short, number) ==
    LET tail == <<"~">> \o Itoa(number)
    IN  [i \in DOMAIN short |-> IF i \in SFN_BASE - Len(tail) + 1 .. SFN_BASE
                                THEN tail[i - SFN_BASE + Len(tail)] ELSE short[i]]

\* The text of a short name, with a dot only where there is an extension, as
\* fatfs_get_file_entry and fatfs_list_directory_next make it.
ShortText(short) ==
    LET ext == SubSeq(short, SFN_BASE + 1, SFN_BASE + SFN_EXT)
        dot == IF short[1] # "." /\ \E i \in DOMAIN ext : ext[i] # " " THEN <<".">> ELSE <<" ">>
    IN  SubSeq(short, 1, SFN_BASE) \o dot \o ext

\* fatfs_get_sfn_display_name.
SfnDisplayName(short) ==
    LET shown == SelectSeq(ShortText(short), LAMBDA c : c # " ")
    IN  [i \in DOMAIN shown |-> Small(shown[i])]

-------------------------------------------------------------------------------
(* Directories. *)

Places == 0 .. ENTRIES_PER_SECTOR - 1

Deleted == [kind |-> "deleted"]

\* fatfs_sfn_create_entry: what is left of the record after the time stamps.
ShortEntry(short, start, size, dir) ==
    [kind |-> IF dir THEN "dir" ELSE "file", short |-> short, start |-> start, size |-> size]

\* fatfs_entry_lfn_text, fatfs_entry_sfn_only, fatfs_entry_is_dir and fatfs_entry_is_file;
\* what is neither of the first two is a blank or a deleted entry (fatfs_entry_lfn_invalid).
IsLong(e)      == e.kind = "lfn"
IsShort(e)     == e.kind \in {"file", "dir"}
IsDirectory(e) == e.kind = "dir"
IsFile(e)      == e.kind = "file"

\* fatfs_entry_lfn_exists.
HasLongName(lfn, e) == IsShort(e) /\ lfn.count > 0

-------------------------------------------------------------------------------
(* Sectors of a directory.                                                 *)

RECURSIVE FollowChain(_, _, _)
FollowChain(m, c, count) ==
    IF count = 0 THEN Return(m, TRUE, c)
    ELSE LET next(n) == FollowChain(n, n.val, count - 1) IN next(FindNextCluster(m, c))

\* The address of a sector of a directory, as fatfs_sector_reader works it out.
LocateSector(m, cluster, offset) ==
    IF Fat16(m) /\ cluster = 0
    THEN Return(m, offset < m.fs.rootdir_sectors, m.fs.rootdir_lba + offset)
    ELSE LET at(f) == Return(f, f.val # LastCluster, LbaOfCluster(f, f.val) + (offset % m.fs.spc))
         IN  at(FollowChain(m, cluster, offset \div m.fs.spc))

\* fatfs_sector_reader into currentsector: the address is set before the sector is read.
SectorReader(m, cluster, offset) ==
    LET read(r) == IF r.ok THEN [r EXCEPT !.cur.data = r.val[1]] ELSE r
        located(l) == IF ~l.ok \/ l.val = m.cur.address THEN l
                      ELSE read(ReadMedia([l EXCEPT !.cur.address = l.val], l.val, 1))
    IN  located(LocateSector(m, cluster, offset))

\* The write-back of currentsector, with one of its places changed.
WriteEntry(m, i, e) ==
    LET s == [kind |-> "entries", at |-> [Entries(m.cur.data) EXCEPT ![i] = e]]
    IN  WriteMedia([m EXCEPT !.cur.data = s], m.cur.address, <<s>>)

\* A search that goes through more sectors than the volume has does not end.
Endless(m, x) == x > Cardinality(DOMAIN m.media)

\* The scan of one sector by fatfs_get_file_entry, from place i with the long name so far.
RECURSIVE ScanNames(_, _, _, _)
ScanNames(entries, i, lfn, n) ==
    IF i = ENTRIES_PER_SECTOR THEN [found |-> FALSE, lfn |-> lfn, entry |-> Nothing]
    ELSE LET e == entries[i]
         IN  CASE IsLong(e) -> ScanNames(entries, i + 1, LfnCacheEntry(lfn, e), n)
               [] IsShort(e) ->
                    IF CompareNames(IF HasLongName(lfn, e) THEN LfnCacheGet(lfn) ELSE ShortText(e.short), n)
                    THEN [found |-> TRUE, lfn |-> lfn, entry |-> e]
                    ELSE ScanNames(entries, i + 1, Uncounted(lfn), n)
               [] OTHER -> ScanNames(entries, i + 1, Uncounted(lfn), n)

RECURSIVE FindName(_, _, _, _, _)
FindName(m, cluster, x, lfn, n) ==
    LET scanned(r, s) == IF s.found THEN Return(r, TRUE, s.entry)
                         ELSE FindName(r, cluster, x + 1, s.lfn, n)
        read(r) == IF r.ok THEN scanned(r, ScanNames(Entries(r.cur.data), 0, lfn, n)) ELSE Fail(r)
    IN  IF Endless(m, x) THEN Fail([m EXCEPT !.endless = TRUE]) ELSE read(SectorReader(m, cluster, x))

\* fatfs_get_file_entry: val is the short entry of the name.
GetFileEntry(m, cluster, n) == FindName(m, cluster, 0, NoLongName, n)

\* The search by short name that fatfs_sfn_exists, fatfs_update_file_length and
\* fatfs_mark_file_deleted make: val is the place in the sector that is then current.
RECURSIVE FindShort(_, _, _, _)
FindShort(m, cluster, x, short) ==
    LET hits(entries) == { i \in Places : IsShort(entries[i]) /\ entries[i].short = short }
        scanned(r, found) == IF found = {} THEN FindShort(r, cluster, x + 1, short)
                             ELSE Return(r, TRUE, Min(found))
        read(r) == IF r.ok THEN scanned(r, hits(Entries(r.cur.data))) ELSE Fail(r)
    IN  IF Endless(m, x) THEN Fail([m EXCEPT !.endless = TRUE]) ELSE read(SectorReader(m, cluster, x))

SfnExists(m, cluster, short) == FindShort(m, cluster, 0, short)

\* fatfs_update_file_length.
UpdateFileLength(m, cluster, short, length) ==
    LET found(f) == IF ~f.ok THEN f
                    ELSE WriteEntry(f, f.val, [Entries(f.cur.data)[f.val] EXCEPT !.size = length])
    IN  found(FindShort(m, cluster, 0, short))

\* fatfs_mark_file_deleted: the parts of the long name stay.
MarkFileDeleted(m, cluster, short) ==
    LET found(f) == IF f.ok THEN WriteEntry(f, f.val, Deleted) ELSE f
    IN  found(FindShort(m, cluster, 0, short))

-------------------------------------------------------------------------------
(* Adding an entry.                                                        *)

\* The scan of one sector by fatfs_find_free_dir_offset: a part of a long name counts as
\* possible space, and only a deleted or blank place ends the search.
RECURSIVE ScanSpace(_, _, _, _, _)
ScanSpace(entries, x, i, space, count) ==
    IF i = ENTRIES_PER_SECTOR \/ space.enough THEN space
    ELSE LET e == entries[i]
             grown == [space EXCEPT !.size = @ + 1,
                                    !.start = IF space.size = 0 THEN <<x, i>> ELSE @,
                                    !.enough = ~IsLong(e) /\ space.size + 1 >= count]
         IN  ScanSpace(entries, x, i + 1,
                       IF e.kind \in {"lfn", "deleted", "blank"} THEN grown
                       ELSE [size |-> 0, start |-> Nothing, enough |-> FALSE], count)

\* fatfs_write_sector: a FAT16 root has no sectors but its own.
WriteSector(m, cluster, i, sector) ==
    LET root == Fat16(m) /\ cluster = 0
    IN  IF root /\ i >= m.fs.rootdir_sectors THEN Fail(m)
        ELSE WriteMedia(m, IF root THEN m.fs.rootdir_lba + i ELSE LbaOfCluster(m, cluster) + i, <<sector>>)

\* One sector of the new cluster after another is cleared, by way of currentsector.
RECURSIVE ClearCluster(_, _, _)
ClearCluster(m, c, i) ==
    LET cleared(w) == IF w.ok THEN ClearCluster(w, c, i + 1) ELSE w
        cur == [address |-> LbaOfCluster(m, c) + i, data |-> Zeroed]
    IN  IF i = m.fs.spc THEN Return(m, TRUE, Nothing)
        ELSE cleared(WriteSector([m EXCEPT !.cur = cur], c, i, Zeroed))

\* The directory grows by a cluster, which is part of it before it is cleared.
ExtendDirectory(m, cluster) ==
    LET added(a, c) == IF a.ok THEN ClearCluster(a, c, 0) ELSE a
        found(b)    == IF b.ok THEN added(AddClusterToChain(b, cluster, b.val), b.val) ELSE b
    IN  found(FindBlankCluster(m, m.fs.rootdir_first_cluster))

\* fatfs_find_free_dir_offset: val is the sector and place of the first of count places.
RECURSIVE FindSpace(_, _, _, _, _)
FindSpace(m, cluster, x, space, count) ==
    LET scanned(r, s) == IF s.enough THEN Return(r, TRUE, s.start)
                         ELSE FindSpace(r, cluster, x + 1, s, count)
        grown(g) == Return(g, g.ok, IF space.start # Nothing THEN space.start ELSE <<x, 0>>)
        read(r)  == IF r.ok THEN scanned(r, ScanSpace(Entries(r.cur.data), x, 0, space, count))
                    ELSE grown(ExtendDirectory(r, cluster))
    IN  IF Endless(m, x) THEN Fail([m EXCEPT !.endless = TRUE]) ELSE read(SectorReader(m, cluster, x))

\* The entries are put into currentsector and each sector is written when it is left.
RECURSIVE PutEntries(_, _, _, _, _)
PutEntries(m, cluster, x, from, entries) ==
    LET n == Min({Len(entries), ENTRIES_PER_SECTOR - from})
        merged(old) ==
            [kind |-> "entries",
             at |-> [i \in Places |-> IF i \in from .. from + n - 1 THEN entries[i - from + 1] ELSE old[i]]]
        written(w) == IF ~w.ok \/ n = Len(entries) THEN w
                      ELSE PutEntries(w, cluster, x + 1, 0, SubSeq(entries, n + 1, Len(entries)))
        put(r, s) == written(WriteMedia([r EXCEPT !.cur.data = s], r.cur.address, <<s>>))
        read(r)   == IF r.ok THEN put(r, merged(Entries(r.cur.data))) ELSE r
    IN  read(SectorReader(m, cluster, x))

\* fatfs_add_file_entry: a long name even where the short one would do.
AddFileEntry(m, cluster, n, short, start, dir) ==
    LET count == LfnEntriesRequired(n)
        parts == [i \in 1 .. count |-> FilenameToLfn(n, count - i)]
        found(f) == IF ~f.ok THEN f
                    ELSE PutEntries(f, cluster, f.val[1], f.val[2],
                                    Append(parts, ShortEntry(short, start, 0, dir)))
    IN  found(FindSpace(m, cluster, 0, [size |-> 0, start |-> Nothing, enough |-> FALSE], count + 1))

\* The first short name with no entry of its own: without a tail, then ~1, ~2...
RECURSIVE FreeShortName(_, _, _, _)
FreeShortName(m, cluster, n, tail) ==
    LET short == IF tail = 0 THEN CreateSfn(n) ELSE GenerateTail(CreateSfn(n), tail)
        searched(e) == IF e.ok THEN FreeShortName(e, cluster, n, tail + 1) ELSE Return(e, TRUE, short)
    IN  IF tail = TAILS THEN Fail(m) ELSE searched(SfnExists(m, cluster, short))

-------------------------------------------------------------------------------
(* Listing.                                                                *)

\* One entry of a listing as fatfs_list_directory_next finds it in a sector: its name,
\* or the short name shown of an entry that has no other, and the place after it.
RECURSIVE ScanListing(_, _, _)
ScanListing(entries, i, lfn) ==
    IF i = ENTRIES_PER_SECTOR THEN [found |-> FALSE, lfn |-> lfn]
    ELSE LET e == entries[i]
         IN  CASE IsLong(e) -> ScanListing(entries, i + 1, LfnCacheEntry(lfn, e))
               [] IsShort(e) ->
                    [found |-> TRUE, next |-> i + 1,
                     shown |-> [name |-> IF HasLongName(lfn, e) THEN LfnCacheGet(lfn)
                                         ELSE SfnDisplayName(e.short),
                                is_dir |-> IsDirectory(e), size |-> e.size]]
               [] OTHER -> ScanListing(entries, i + 1, Uncounted(lfn))

\* fatfs_list_directory_next from sector x, place i: val is what is shown and where to
\* go on; the long name starts empty at every call.
RECURSIVE ListNext(_, _, _, _, _)
ListNext(m, cluster, x, i, lfn) ==
    LET scanned(r, s) == IF s.found THEN Return(r, TRUE, [shown |-> s.shown, sector |-> x, offset |-> s.next])
                         ELSE ListNext(r, cluster, x + 1, 0, s.lfn)
        read(r) == IF r.ok THEN scanned(r, ScanListing(Entries(r.cur.data), i, lfn)) ELSE Fail(r)
    IN  IF Endless(m, x) THEN Fail([m EXCEPT !.endless = TRUE]) ELSE read(SectorReader(m, cluster, x))

\* The whole listing, as a caller of fl_readdir takes it (call_ls of the commander).
RECURSIVE ListAll(_, _, _, _, _)
ListAll(m, cluster, x, i, shown) ==
    LET listed(n) == IF ~n.ok THEN Return(n, TRUE, shown)
                     ELSE ListAll(n, cluster, n.val.sector, n.val.offset, Append(shown, n.val.shown))
    IN  listed(ListNext(m, cluster, x, i, NoLongName))

===============================================================================
