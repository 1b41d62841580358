-------------------------------- MODULE FatCalls --------------------------------
(***************************************************************************)
(* The calls of the file library (fat_filelib.c) as operators on the       *)
(* machine of FatVolume, with three more parts:                            *)
(*   files   the records of _files, one per handle                         *)
(*   free    _free_file_list, from head to tail                            *)
(*   open    _open_file_list                                               *)
(***************************************************************************)
EXTENDS FatDirectory

CONSTANTS MAX_OPEN_FILES,         \* FATFS_MAX_OPEN_FILES
          NEWLINE                 \* the byte that ends a line

Handles == 1 .. MAX_OPEN_FILES

\* What a record of the free list holds is never read before it is set again.
ClosedFile == [open |-> FALSE]

NoBuffer == [address |-> Invalid, data |-> Zeroed]
NoLookup == [idx |-> Invalid, cluster |-> Invalid]

SetFile(m, h, f) == [m EXCEPT !.files[h] = f]

\* The flags fl_fopen gets from a mode; + after w adds the flags of w once more.
ModeFlags ==
    [r  |-> {"read"},
     w  |-> {"write", "erase", "create"},
     a  |-> {"write", "append", "create"},
     rp |-> {"read", "write"},
     wp |-> {"read", "write", "erase", "create"},
     ap |-> {"read", "write", "erase", "append", "create"}]

-------------------------------------------------------------------------------
(* Handles.                                                                *)

\* The two lists of records (fat_list.h).
InsertLast(list, h) == Append(list, h)
PopHead(list)       == Tail(list)
RemoveNode(list, h) == SelectSeq(list, LAMBDA x : x # h)

\* _allocate_file: val is the handle.
AllocateFile(m) ==
    IF m.free = <<>> THEN Fail(m)
    ELSE Return([m EXCEPT !.free = PopHead(@), !.open = InsertLast(@, m.free[1])], TRUE, m.free[1])

\* _free_file.
FreeFile(m, h) ==
    [SetFile(m, h, ClosedFile) EXCEPT !.open = RemoveNode(@, h), !.free = InsertLast(@, h)]

\* _check_file_open: the texts of path and name are compared, so that one file may be
\* open twice under two spellings of its path.
CheckFileOpen(m, h) ==
    \E g \in ToSet(m.open) \ {h} :
        /\ CompareNames(m.files[g].path, m.files[h].path)
        /\ CompareNames(m.files[g].filename, m.files[h].filename)

\* The folders of a path from a level on.
RECURSIVE OpenFolders(_, _, _, _)
OpenFolders(m, cluster, path, level) ==
    LET found(e) == IF ~e.ok \/ ~IsDirectory(e.val) THEN Fail(e)
                    ELSE OpenFolders(e, e.val.start, path, level + 1)
        folder == GetSubstring(path, level)
    IN  IF level > TotalPathLevels(path) THEN Return(m, TRUE, cluster)
        ELSE IF folder = <<>> THEN Fail(m)
        ELSE found(GetFileEntry(m, cluster, folder))

\* _open_directory: val is the cluster of the last folder.
OpenDirectory(m, path) == OpenFolders(m, m.fs.rootdir_first_cluster, path, 0)

\* How _open_file, _create_file and _create_directory begin: a handle with the name and
\* the cluster of its directory, given back when one of the checks fails.
Prepare(m, path) ==
    LET opened(d, h, s) ==
            IF ~d.ok THEN Fail(FreeFile(d, h))
            ELSE Return(d, TRUE, [handle |-> h, name |-> s.name, path |-> s.path, parent |-> d.val])
        named(n, h, s) == IF s.name = <<>> \/ CheckFileOpen(n, h) THEN Fail(FreeFile(n, h))
                          ELSE opened(OpenDirectory(n, s.path), h, s)
        allocated(a, s) ==
            IF ~a.ok THEN a
            ELSE named(SetFile(a, a.val, [open |-> TRUE, path |-> s.path, filename |-> s.name]), a.val, s)
    IN  allocated(AllocateFile(m), SplitPath(path))

\* The record of a file that has just been opened or created.
OpenedFile(p, short, start, length) ==
    [open |-> TRUE, path |-> p.path, filename |-> p.name, parent |-> p.parent, short |-> short, start |-> start,
     length |-> length, pos |-> 0, buffer |-> NoBuffer, dirty |-> FALSE, changed |-> FALSE,
     lookup |-> NoLookup, flags |-> {}]

\* _open_file: val is the handle.
OpenFile(m, path) ==
    LET found(e, p) ==
            IF ~e.ok \/ ~IsFile(e.val) THEN Fail(FreeFile(e, p.handle))
            ELSE Return(FatPurge(SetFile(e, p.handle, OpenedFile(p, e.val.short, e.val.start, e.val.size))),
                        TRUE, p.handle)
        prepared(p) == IF p.ok THEN found(GetFileEntry(p, p.val.parent, p.val.name), p.val) ELSE p
    IN  prepared(Prepare(m, path))

\* What _create_file and _create_directory do once the cluster is there: a short name,
\* the entry, and the table written; val is the handle. The cluster is freed on failure.
AddEntry(m, p, start, dir) ==
    LET undo(x) == Fail(FreeFile(FreeClusterChain(x, start), p.handle))
        added(a, short) ==
            IF a.ok THEN Return(FatPurge(SetFile(a, p.handle, OpenedFile(p, short, start, 0))), TRUE, p.handle)
            ELSE undo(a)
        named(s) == IF s.ok THEN added(AddFileEntry(s, p.parent, p.name, s.val, start, dir), s.val)
                    ELSE undo(s)
    IN  named(FreeShortName(m, p.parent, p.name, 0))

\* How both of them go on: an entry of that name must not be there, and a cluster must.
NewEntry(m, path) ==
    LET allocated(c, p) == IF c.ok THEN Return(c, TRUE, [place |-> p, start |-> c.val])
                           ELSE Fail(FreeFile(c, p.handle))
        searched(e, p) == IF e.ok THEN Fail(FreeFile(e, p.handle)) ELSE allocated(AllocateFreeSpace(e), p)
        prepared(p) == IF p.ok THEN searched(GetFileEntry(p, p.val.parent, p.val.name), p.val) ELSE p
    IN  prepared(Prepare(m, path))

\* _create_file.
CreateFile(m, path) ==
    LET begun(n) == IF n.ok THEN AddEntry(n, n.val.place, n.val.start, FALSE) ELSE n
    IN  begun(NewEntry(m, path))

\* The cluster of a new directory is cleared from the buffer of the handle, so that
\* currentsector stays as it is; it is not freed when that fails.
RECURSIVE EraseCluster(_, _, _)
EraseCluster(m, c, i) ==
    LET written(w) == IF w.ok THEN EraseCluster(w, c, i + 1) ELSE w
    IN  IF i = m.fs.spc THEN Return(m, TRUE, Nothing)
        ELSE written(WriteSector(m, c, i, Zeroed))

\* _create_directory, as fl_createdirectory calls it: the handle is only borrowed.
CreateDirectory(m, path) ==
    LET added(a) == IF a.ok THEN Return(FreeFile(a, a.val), TRUE, Nothing) ELSE a
        erased(e, new) == IF e.ok THEN added(AddEntry(e, new.place, new.start, TRUE))
                          ELSE Fail(FreeFile(e, new.place.handle))
        begun(n) == IF n.ok THEN erased(EraseCluster(n, n.val.start, 0), n.val) ELSE n
    IN  begun(NewEntry(m, path))

\* fl_fopen: a mode that may read opens the file, one that may create it creates it if
\* that failed, and one that only writes opens it if it could not be created.
Fopen(m, path, mode) ==
    LET flags == ModeFlags[mode]
        flagged(w) == IF w.ok THEN [w EXCEPT !.files[w.val].flags = flags] ELSE w
        created(c) == flagged(IF "read" \notin flags /\ ~c.ok /\ "create" \in flags
                              THEN OpenFile(c, path) ELSE c)
        opened(r)  == created(IF ~r.ok /\ "create" \in flags THEN CreateFile(r, path) ELSE r)
    IN  opened(IF "read" \in flags THEN OpenFile(m, path) ELSE Fail(m))

-------------------------------------------------------------------------------
(* Sectors of a file. Offsets count sectors from its start.                *)

\* Mutant: the lookup is used for the first cluster before there has been one.
WalkFromUnchecked(f, idx) ==
    IF idx = f.lookup.idx \/ idx = f.lookup.idx + 1 THEN f.lookup ELSE [idx |-> 0, cluster |-> f.start]

\* Where the walk to cluster index idx starts: val is that cluster and its index.
WalkFrom(f, idx) ==
    IF idx = f.lookup.idx \/ (idx # 0 /\ idx = f.lookup.idx + 1) THEN f.lookup
    ELSE [idx |-> 0, cluster |-> f.start]

Upto(m, offset, count) ==
    LET within == offset % m.fs.spc
    IN  IF within + count > m.fs.spc THEN m.fs.spc - within ELSE count

SetLookup(m, h, idx, c) == [m EXCEPT !.files[h].lookup = [idx |-> idx, cluster |-> c]]

\* _read_sectors: val is the sectors, no more than are left in their cluster.
ReadSectors(m, h, offset, count) ==
    LET idx == offset \div m.fs.spc
        walked(w) ==
            IF w.val = LastCluster THEN Fail(w)
            ELSE ReadMedia(SetLookup(w, h, idx, w.val), LbaOfCluster(w, w.val) + (offset % m.fs.spc),
                           Upto(m, offset, count))
        walk(from) == walked(FollowChain(m, from.cluster, idx - from.idx))
    IN  walk(WalkFrom(m.files[h], idx))

\* The walk of _write_sectors stops at the end of the chain; val is the cluster reached
\* and the one before it.
RECURSIVE WalkToEnd(_, _, _, _)
WalkToEnd(m, before, c, count) ==
    LET next(n) == WalkToEnd(n, c, n.val, count - 1)
    IN  IF count = 0 \/ c = LastCluster THEN Return(m, TRUE, [cluster |-> c, before |-> before])
        ELSE next(FindNextCluster(m, c))

\* _write_sectors: val is how many sectors were written. What it adds to a chain that
\* is too short is one run of clusters, and the first of them is taken for idx.
WriteSectors(m, h, offset, sectors) ==
    LET spc == m.fs.spc
        idx == offset \div spc
        n   == Upto(m, offset, Len(sectors))
        written(t) == Return(t, t.ok, IF t.ok THEN n ELSE 0)
        reached(r, c) == written(WriteMedia(SetLookup(r, h, idx, c), LbaOfCluster(m, c) + (offset % spc),
                                            SubSeq(sectors, 1, n)))
        grown(a)  == IF a.ok THEN reached(a, a.val) ELSE Return(a, FALSE, 0)
        walked(w) == IF w.val.cluster # LastCluster THEN reached(w, w.val.cluster)
                     ELSE grown(AddFreeSpace(w, w.val.before, (Len(sectors) + spc - 1) \div spc))
        walk(from) == walked(WalkToEnd(m, LastCluster, from.cluster, idx - from.idx))
    IN  walk(WalkFrom(m.files[h], idx))

\* fl_fflush: what cannot be written stays in the buffer, and nobody is told.
Fflush(m, h) ==
    LET written(w) == IF w.ok THEN [w EXCEPT !.files[h].dirty = FALSE] ELSE w
        buffer == m.files[h].buffer
    IN  IF m.files[h].dirty THEN written(WriteSectors(m, h, buffer.address, <<buffer.data>>)) ELSE m

\* The length goes into the entry when it has changed.
SaveLength(m, h) ==
    LET f == m.files[h] IN IF f.changed THEN UpdateFileLength(m, f.parent, f.short, f.length) ELSE m

\* Mutants: the buffer or the table is not written back.
FcloseUnflushed(m, h) == FatPurge(FreeFile(SaveLength(m, h), h))
FcloseUnpurged(m, h)  == FreeFile(SaveLength(Fflush(m, h), h), h)

\* fl_fclose.
Fclose(m, h) == FatPurge(FreeFile(SaveLength(Fflush(m, h), h), h))

-------------------------------------------------------------------------------
(* Reading and writing.                                                    *)

Smaller(a, b) == IF a < b THEN a ELSE b

\* One sector into the buffer of fl_fread, after what it held is written back.
LoadBuffer(m, h, sector) ==
    LET read(r) == IF r.ok THEN [r EXCEPT !.files[h].buffer = [address |-> sector, data |-> r.val[1]],
                                          !.files[h].dirty = FALSE] ELSE r
    IN  IF m.files[h].buffer.address = sector THEN Return(m, TRUE, Nothing)
        ELSE read(ReadSectors(Fflush(m, h), h, sector, 1))

\* The loop of fl_fread: val is the bytes read. Whole sectors go past the buffer.
RECURSIVE ReadLoop(_, _, _, _, _)
ReadLoop(m, h, sector, left, got) ==
    LET offset == m.files[h].pos % SECTOR_SIZE
        took(r, bytes, on) == ReadLoop([r EXCEPT !.files[h].pos = @ + Len(bytes)], h, on,
                                       left - Len(bytes), got \o bytes)
        flat(r) == FlattenSeq([i \in 1 .. Len(r.val) |->
                       [b \in 1 .. SECTOR_SIZE |-> Bytes(r.val[i])[b - 1]]])
        part(r) == [b \in 1 .. Smaller(SECTOR_SIZE - offset, left) |->
                       Bytes(r.files[h].buffer.data)[offset + b - 1]]
        whole(r)  == <<r, IF r.ok THEN flat(r) ELSE <<>>, sector + IF r.ok THEN Len(r.val) ELSE 0>>
        loaded(r) == <<r, IF r.ok THEN part(r) ELSE <<>>, sector + 1>>
        next(t)   == IF t[1].ok THEN took(t[1], t[2], t[3]) ELSE Return(t[1], TRUE, got)
    IN  IF left = 0 THEN Return(m, TRUE, got)
        ELSE next(IF offset = 0 /\ left >= SECTOR_SIZE
                  THEN whole(ReadSectors(m, h, sector, left \div SECTOR_SIZE))
                  ELSE loaded(LoadBuffer(m, h, sector)))

\* fl_fread of count bytes: val is what was read, or not ok for -1.
Fread(m, h, count) ==
    LET f == m.files[h]
    IN  IF "read" \notin f.flags THEN Fail(m)
        ELSE IF count = 0 THEN Return(m, TRUE, <<>>)
        ELSE IF f.pos >= f.length THEN Fail(m)
        ELSE ReadLoop(m, h, f.pos \div SECTOR_SIZE, Smaller(count, f.length - f.pos), <<>>)

\* fl_fgetc: val is the byte, or not ok for -1.
Fgetc(m, h) ==
    LET read(r) == IF r.ok /\ r.val # <<>> THEN Return(r, TRUE, r.val[1]) ELSE Fail(r)
    IN  read(Fread(m, h, 1))

\* fl_fgets of n - 1 bytes at most: val is the line with its end, or not ok for none.
RECURSIVE Fgets(_, _, _, _)
Fgets(m, h, n, line) ==
    LET got(c) == IF ~c.ok THEN Return(c, line # <<>>, line)
                  ELSE IF c.val = NEWLINE THEN Return(c, TRUE, Append(line, c.val))
                  ELSE Fgets(c, h, n, Append(line, c.val))
    IN  IF Len(line) >= n - 1 THEN Return(m, line # <<>>, line) ELSE got(Fgetc(m, h))

\* fl_ftell and fl_feof.
Ftell(m, h) == m.files[h].pos
Feof(m, h)  == m.files[h].pos = m.files[h].length

\* Sectors that a sequence of bytes fills.
WholeSectors(data) ==
    [s \in 1 .. Len(data) \div SECTOR_SIZE |->
        [kind |-> "bytes", at |-> [b \in 0 .. SECTOR_SIZE - 1 |-> data[(s - 1) * SECTOR_SIZE + b + 1]]]]

\* What fl_fwrite does with the buffer before it changes count bytes of it: a flush or a
\* read that fails goes unseen, and the buffer then counts as the new sector.
PrepareBuffer(m, h, sector, count) ==
    LET read(r) == [r EXCEPT !.files[h].buffer.data = IF r.ok THEN r.val[1] ELSE Zeroed]
    IN  IF m.files[h].buffer.address = sector THEN m
        ELSE IF count = SECTOR_SIZE THEN Fflush(m, h)
        ELSE read(ReadSectors(Fflush(m, h), h, sector, 1))

\* The count bytes of data from offset on, over what the sector held.
Merged(old, offset, count, data) ==
    [kind |-> "bytes",
     at |-> [b \in 0 .. SECTOR_SIZE - 1 |->
                IF b \in offset .. offset + count - 1 THEN data[b - offset + 1] ELSE Bytes(old)[b]]]

\* The loop of fl_fwrite. A flush that fails loses what the buffer held.
RECURSIVE WriteLoop(_, _, _, _)
WriteLoop(m, h, sector, data) ==
    LET offset == m.files[h].pos % SECTOR_SIZE
        count  == Smaller(SECTOR_SIZE - offset, Len(data))
        emptied(r) == [r EXCEPT !.files[h].buffer = NoBuffer, !.files[h].dirty = FALSE]
        direct(r) == <<r, r.val * SECTOR_SIZE, sector + r.val>>
        put(r) ==
            <<Return([r EXCEPT !.files[h].buffer =
                                   [address |-> sector, data |-> Merged(@.data, offset, count, data)],
                               !.files[h].dirty = TRUE], TRUE, Nothing),
              count, sector + 1>>
        next(t) == IF ~t[1].ok THEN t[1]
                   ELSE WriteLoop([t[1] EXCEPT !.files[h].pos = @ + t[2]], h, t[3],
                                  SubSeq(data, t[2] + 1, Len(data)))
    IN  IF data = <<>> THEN m
        ELSE next(IF offset = 0 /\ Len(data) >= SECTOR_SIZE
                  THEN direct(WriteSectors(emptied(Fflush(m, h)), h, sector, WholeSectors(data)))
                  ELSE put(PrepareBuffer(m, h, sector, count)))

\* fl_fwrite: it answers with the full count, whatever was written.
Fwrite(m, h, data) ==
    LET pos == IF "append" \in m.files[h].flags THEN m.files[h].length ELSE m.files[h].pos
        longer(f) == IF f.pos <= f.length THEN f ELSE [f EXCEPT !.length = f.pos, !.changed = TRUE]
        wrote(w) == Return([w EXCEPT !.files[h] = longer(@)], TRUE, Len(data))
    IN  IF "write" \notin m.files[h].flags THEN Fail(m)
        ELSE wrote(WriteLoop([m EXCEPT !.files[h].pos = pos], h, pos \div SECTOR_SIZE, data))

\* The bytes that fl_fputc and fl_fputs give to fl_fwrite, whose result they return.
Fputc(c)   == <<c>>
Fputs(str) == str

\* fl_fseek to position pos, which each origin and offset comes to (SEEK_CUR and SEEK_SET
\* stop at the ends of the file). The buffer is dropped, unsaved bytes with it.
Fseek(m, h, pos) ==
    Return([m EXCEPT !.files[h].buffer = NoBuffer, !.files[h].dirty = FALSE,
                     !.files[h].pos = Smaller(pos, m.files[h].length)], TRUE, Nothing)

\* fl_remove: the chain is freed, then the entry is marked; the handle is not given back
\* when the entry cannot be marked.
RemoveFile(m, path) ==
    LET marked(d, h) == IF d.ok THEN Return(Fclose(d, h), TRUE, Nothing) ELSE d
        freed(c, h) == marked(MarkFileDeleted(c, c.files[h].parent, c.files[h].short), h)
        opened(o) == IF o.ok THEN freed(FreeClusterChain(o, o.files[o.val].start), o.val) ELSE o
    IN  opened(Fopen(m, path, "r"))

\* fl_listdirectory, or fl_opendir and fl_readdir until it answers -1: val is the entries.
ListDirectory(m, path) ==
    LET opened(d) == IF d.ok THEN ListAll(d, d.val, 0, 0, <<>>) ELSE d
    IN  opened(OpenDirectory(m, path))

\* fl_is_dir: whether fl_opendir finds it.
IsDir(m, path) == OpenDirectory(m, path).ok

\* fl_init and fl_attach_media: no file is open, and the volume is mounted anew.
Attach(m) ==
    FatfsInit([m EXCEPT !.files = [h \in Handles |-> ClosedFile],
                        !.free = [h \in Handles |-> h], !.open = <<>>])

===============================================================================
