------------------------------- MODULE FatLibrary -------------------------------
(***************************************************************************)
(* A program that uses the file library: any call of fat_filelib.c after   *)
(* any other, on the handles it has been given. Files are in folders that  *)
(* may be there or be made, and the card may be formatted.                 *)
(*                                                                         *)
(* Or the program is one whose calls may meet a fault, and makes fewer of  *)
(* them: the power goes off after some of the sectors a call writes, and   *)
(* the card is mounted again; or one sector cannot be read, or cannot be   *)
(* written, and the program goes on. Then a file is in doubt, and is       *)
(* Spoilt in content, if the call was about it, if the power went off      *)
(* while it had bytes or a length that only the memory knew, or if the     *)
(* call left its folder longer than before.                                *)
(***************************************************************************)
EXTENDS FatCalls

CONSTANTS Volumes,                \* the cards it may be given
          Files,                  \* [folders, name] of each file
          Folders,                \* the folders that may be made
          Spellings,              \* ways to spell the path of a file, of those below
          Byte, Chars, Data, Strings,     \* what is written by each call
          ReadSizes, Positions, Modes,
          FormatSizes,            \* sectors the card may be formatted for
          MAX_LENGTH,             \* no file grows longer than this
          Careful,                \* the program minds what a call would lose
          MAX_CALLS,              \* bound on the number of calls
          MAX_FAULTY_CALLS,       \* the same where calls may meet faults
          Faults,                 \* the kinds of fault
          LATEST,                 \* most operations before a fault
          Absent, Spoilt, Closed

VARIABLES m,                      \* the library and the card
          content,                \* what another system would find of each file
          calls,                  \* calls made so far
          faulty                  \* calls may meet faults

vars == <<m, content, calls, faulty>>

-------------------------------------------------------------------------------
(* The card as another system would read it, without the code above.       *)

\* The sectors of the directory that starts at a cluster, from first to last.
DirectorySectors(x, cluster) ==
    LET sectors(chain) ==
            FlattenSeq([k \in DOMAIN chain |->
                [i \in 1 .. x.fs.spc |-> x.media[LbaOfCluster(x, chain[k]) + i - 1]]])
    IN  IF Fat16(x) /\ cluster = 0
        THEN [i \in 1 .. x.fs.rootdir_sectors |-> x.media[x.fs.rootdir_lba + i - 1]]
        ELSE sectors(Chain(x, cluster))

EntriesOf(x, cluster) ==
    LET entries(sectors) ==
            FlattenSeq([k \in DOMAIN sectors |->
                [i \in 1 .. ENTRIES_PER_SECTOR |-> Entries(sectors[k])[i - 1]]])
    IN  entries(DirectorySectors(x, cluster))

\* The places of the entries of a name: a short entry, and before it the parts of the
\* name from last to first, or none if the short name is the name itself.
PlacesOf(entries, n) ==
    { i \in DOMAIN entries :
        /\ IsShort(entries[i])
        /\ IF i > 1 /\ entries[i - 1].kind = "lfn"
           THEN LET count == LfnEntriesRequired(n)
                IN  i > count /\ \A p \in 1 .. count : entries[i - p] = FilenameToLfn(n, p - 1)
           ELSE SfnDisplayName(entries[i].short) = n }

RECURSIVE FolderCluster(_, _, _)
FolderCluster(x, cluster, folders) ==
    LET within(starts) == IF starts = {} THEN Invalid
                          ELSE FolderCluster(x, CHOOSE c \in starts : TRUE, Tail(folders))
        starts(entries) == { entries[i].start : i \in { j \in PlacesOf(entries, folders[1]) :
                                                           entries[j].kind = "dir" } }
    IN  IF folders = <<>> THEN cluster ELSE within(starts(EntriesOf(x, cluster)))

\* The short entries that name f.
StoredEntries(x, f) ==
    LET named(entries) == { entries[i] : i \in PlacesOf(entries, f.name) }
        within(c) == IF c = Invalid THEN {} ELSE named(EntriesOf(x, c))
    IN  within(FolderCluster(x, x.fs.rootdir_first_cluster, f.folders))

\* The first length bytes of a file that starts at a cluster, Spoilt where the chain has no
\* sector for one. A handle's buffer stands over the card.
BytesAt(x, start, buffer, length) ==
    LET byte(chain, sector, i) ==
            IF buffer.address = sector THEN Bytes(buffer.data)[i]
            ELSE IF sector \div x.fs.spc >= Len(chain) THEN Spoilt
            ELSE Bytes(x.media[LbaOfCluster(x, chain[sector \div x.fs.spc + 1]) + (sector % x.fs.spc)])[i]
        bytes(chain) ==
            [i \in 1 .. length |-> byte(chain, (i - 1) \div SECTOR_SIZE, (i - 1) % SECTOR_SIZE)]
    IN  bytes(Chain(x, start))

KnownNames == { f.name : f \in Files } \cup UNION { ToSet(d) : d \in Folders }

\* The path of a file in one style or the other, with the separator before its name
\* doubled, with one at its end, or in capital letters.
Joined(names, separator) == FlattenSeq([i \in DOMAIN names |-> <<separator>> \o names[i]])

Spelled(f, s) ==
    CASE s = "slash"     -> CreatePathString(Joined(f.folders, "/"), f.name)
      [] s = "backslash" -> CreatePathString(IF f.folders = <<>> THEN <<"c", ":", "\\">>
                                             ELSE <<"c", ":">> \o Joined(f.folders, "\\"), f.name)
      [] s = "doubled"   -> Joined(f.folders, "/") \o <<"/", "/">> \o f.name
      [] s = "ended"     -> Joined(Append(f.folders, f.name), "/") \o <<"/">>
      [] s = "capital"   -> LET path == Joined(Append(f.folders, f.name), "/")
                            IN  [i \in DOMAIN path |-> Capital(path[i])]

AllSpellings == {"slash", "backslash", "doubled", "ended", "capital"}

OpenHandles(x) == { h \in Handles : x.files[h].open }

\* The file that a handle's path and name lead to.
FileAt == [p \in { SplitPath(Spelled(f, s)) : f \in Files, s \in Spellings } |->
              CHOOSE f \in Files : \E s \in Spellings : SplitPath(Spelled(f, s)) = p]

FileOf(x, h) == FileAt[[name |-> x.files[h].filename, path |-> x.files[h].path]]
HoldersOf(x, f) == { h \in OpenHandles(x) : FileOf(x, h) = f }

\* What there is of a file: through the handle it is open with, or else on the card.
ContentOf(x, f) ==
    LET read(r)    == BytesAt(x, r.start, r.buffer, r.length)
        unread(es) == { [start |-> e.start, buffer |-> NoBuffer, length |-> e.size] :
                          e \in { s \in es : s.kind = "file" } }
        held(hs)   == { x.files[h] : h \in hs }
        any(found) == IF found = {} THEN Absent ELSE read(CHOOSE r \in found : TRUE)
        of(holding) == any(IF holding # {} THEN holding ELSE unread(StoredEntries(x, f)))
    IN  of(held(HoldersOf(x, f)))

-------------------------------------------------------------------------------
(* The calls.                                                              *)

Path(f)     == Spelled(f, "slash")
FolderPath(d) == Append(Joined(d, "/"), "/")
FileNamed(d) == [folders |-> SubSeq(d, 1, Len(d) - 1), name |-> d[Len(d)]]

\* A card put into a machine that has just been switched on.
Fresh(media) ==
    Attach([media |-> media, fs |-> Nothing, fbuf |-> Nothing, cur |-> Nothing, hinted |-> TRUE,
            files |-> <<>>, free |-> <<>>, open |-> <<>>, fault |-> NoFault,
            stray |-> FALSE, full |-> FALSE, endless |-> FALSE, ok |-> TRUE, val |-> Nothing])

\* What stays of a call once it has returned.
Settled(r) == [r EXCEPT !.ok = TRUE, !.val = Nothing, !.fault = NoFault, !.full = FALSE]

Init ==
    /\ \E media \in Volumes : m = Settled(Fresh(media)) /\ m.fs # Nothing
    /\ content = [f \in Files |-> ContentOf(m, f)]
    /\ calls = 0
    /\ faulty \in BOOLEAN

\* What may befall a call: nothing, or a fault after some operations.
Fates == {NoFault} \cup [kind : Faults, left : 0 .. LATEST]

Contents == { content[f] : f \in Files }

\* The program makes one more call, and it may come to this: no fault while a file is still
\* in doubt from the one before.
MayCall(fate) ==
    /\ calls < IF faulty THEN MAX_FAULTY_CALLS ELSE MAX_CALLS
    /\ fate # NoFault => faulty /\ Spoilt \notin Contents
    /\ UNCHANGED faulty

Facing(fate) == [m EXCEPT !.fault = fate]

\* A call on the file f comes to x, and the files of lost with it. They stay Spoilt until they
\* are removed. Where calls may meet faults, content is what the card must have of the others.
Comes(f, x, lost) ==
    /\ calls' = calls + 1
    /\ m' = Settled(x)
    /\ content' = [g \in Files |->
                      IF \/ g \in lost
                         \/ content[g] = Spoilt /\ (faulty \/ StoredEntries(m', g) # {})
                      THEN Spoilt
                      ELSE IF faulty /\ g # f THEN content[g] ELSE ContentOf(m', g)]

\* The files of the folder of f, if the folder is longer in x than it was.
InGrownFolder(f, x) ==
    LET grown(d) == d # Invalid /\ Len(DirectorySectors(x, d)) # Len(DirectorySectors(m, d))
    IN  IF grown(FolderCluster(m, m.fs.rootdir_first_cluster, f.folders))
        THEN { g \in Files : g.folders = f.folders } ELSE {}

\* The files some of which is not on the card.
Unsaved == { FileOf(m, h) : h \in { g \in OpenHandles(m) : m.files[g].dirty \/ m.files[g].changed } }

\* Nothing befalls a call that comes to r.
PlainCall(fate, f, r, lost) ==
    /\ fate = NoFault
    /\ Comes(f, r, lost)

\* fl_attach_media of what the cut has left of the card.
PowerCut(fate, f, r) ==
    /\ fate.kind = "cut"
    /\ r.fault.left = 0
    /\ \E x \in {Fresh(r.media)} : Comes(f, x, {f} \cup Unsaved \cup InGrownFolder(f, x))

\* The operation has failed before the call returned.
FailedOperation(fate, f, r) ==
    /\ fate.kind \in {"read", "write"}
    /\ r.fault = NoFault
    /\ Comes(f, r, {f} \cup InGrownFolder(f, r))

Call(fate, f, r, lost) ==
    PlainCall(fate, f, r, lost) \/ PowerCut(fate, f, r) \/ FailedOperation(fate, f, r)

\* Where calls may meet faults, the program leaves a file in doubt alone, but for closing it.
InDoubt(f) == faulty /\ content[f] = Spoilt

\* The modes that the comment in fl_fopen has erase a file. A careful program uses them
\* for new files only, as the code opens one that is there as it is. Where calls may meet faults
\* a file is opened to append to it.
Erasing == { mode \in Modes : "erase" \in ModeFlags[mode] /\ "append" \notin ModeFlags[mode] }

MayOpen(f, mode) ==
    /\ Careful /\ mode \in Erasing => content[f] = Absent
    /\ faulty => ~InDoubt(f) /\ mode \notin Erasing /\ "write" \in ModeFlags[mode]

fl_fopen(fate, f, s, mode) ==
    /\ MayCall(fate) /\ MayOpen(f, mode)
    /\ \E r \in {Fopen(Facing(fate), Spelled(f, s), mode)} : Call(fate, f, r, {})

fl_remove(fate, f) ==
    /\ MayCall(fate) /\ ~InDoubt(f)
    /\ \E r \in {RemoveFile(Facing(fate), Path(f))} : Call(fate, f, r, {})

fl_createdirectory(fate, d) ==
    /\ MayCall(fate)
    /\ \E r \in {CreateDirectory(Facing(fate), Path(FileNamed(d)))} : Call(fate, FileNamed(d), r, {})

\* A call on an open file, which is spoilt when the volume is full.
IsHeld(fate, h) == MayCall(fate) /\ h \in OpenHandles(m)
OnFile(fate, h, r) == Call(fate, FileOf(m, h), r, IF r.full THEN {FileOf(m, h)} ELSE {})

fl_fclose(fate, h) ==
    IsHeld(fate, h) /\ \E r \in {Fclose(Facing(fate), h)} : OnFile(fate, h, r)

fl_fflush(fate, h) ==
    /\ IsHeld(fate, h) /\ ~InDoubt(FileOf(m, h))
    /\ \E r \in {Fflush(Facing(fate), h)} : OnFile(fate, h, r)

\* No file grows past the bound.
fl_fwrite(fate, h, data) ==
    /\ IsHeld(fate, h) /\ ~InDoubt(FileOf(m, h))
    /\ \E r \in {Fwrite(Facing(fate), h, data)} :
          r.files[h].length <= MAX_LENGTH /\ OnFile(fate, h, r)

\* What the program writes: by fl_fwrite itself, and by the calls that pass it on.
Writings == Data \cup { Fputc(c) : c \in Chars } \cup { Fputs(str) : str \in Strings }

\* The power goes off between two calls.
PowerOff ==
    /\ MayCall(NoFault) /\ faulty
    /\ "cut" \in Faults
    /\ calls' = calls + 1
    /\ m' = Settled(Fresh(m.media))
    /\ content' = [f \in Files |-> IF f \in Unsaved THEN Spoilt ELSE content[f]]

\* The calls below are made by the other program only.
Reliably == ~faulty /\ MayCall(NoFault)
Fetched(h, r) == Comes(FileOf(m, h), r, IF r.full THEN {FileOf(m, h)} ELSE {})
ReadHeld(h) == Reliably /\ h \in OpenHandles(m)

fl_fread(h, n) == ReadHeld(h) /\ \E r \in {Fread(m, h, n)} : Fetched(h, r)
fl_fgetc(h)    == ReadHeld(h) /\ \E r \in {Fgetc(m, h)} : Fetched(h, r)
fl_fgets(h, n) == ReadHeld(h) /\ \E r \in {Fgets(m, h, n, <<>>)} : Fetched(h, r)

\* The bytes that only the buffer has are lost: a careful program flushes them first.
fl_fseek(h, p) ==
    /\ ReadHeld(h)
    /\ Careful => ~m.files[h].dirty
    /\ Comes(FileOf(m, h), Fseek(m, h, p), {})

fl_listdirectory(d) ==
    Reliably /\ \E r \in {ListDirectory(m, FolderPath(d))} : Comes(FileNamed(d), r, {})

\* fl_shutdown: the table is written back; files stay open.
fl_shutdown == Reliably /\ Comes(Nothing, FatPurge(m), {})

\* fl_format, while no file is open, for no more sectors than the card has.
fl_format(n) ==
    /\ Reliably
    /\ OpenHandles(m) = {}
    /\ n <= Cardinality(DOMAIN m.media)
    /\ \E r \in {Format(m, n)} : Comes(Nothing, r, {})

Next ==
    \/ \E fate \in Fates :
          \/ \E f \in Files, s \in Spellings, mode \in Modes : fl_fopen(fate, f, s, mode)
          \/ \E f \in Files : fl_remove(fate, f)
          \/ \E d \in Folders : fl_createdirectory(fate, d)
          \/ \E h \in Handles : fl_fclose(fate, h) \/ fl_fflush(fate, h)
          \/ \E h \in Handles, data \in Writings : fl_fwrite(fate, h, data)
    \/ PowerOff
    \/ \E h \in Handles, n \in ReadSizes : fl_fread(h, n) \/ fl_fgets(h, n)
    \/ \E h \in Handles : fl_fgetc(h)
    \/ \E h \in Handles, p \in Positions : fl_fseek(h, p)
    \/ \E d \in Folders : fl_listdirectory(d)
    \/ \E n \in FormatSizes : fl_format(n)
    \/ fl_shutdown

Spec == Init /\ [][Next]_vars

-------------------------------------------------------------------------------
FlagSets == { ModeFlags[o] : o \in Modes }

\* The store that the card and the open handles stand for; none where calls meet faults.
Store ==
    INSTANCE FileStore WITH
        content  <- [f \in Files |-> IF faulty THEN Absent ELSE content[f]],
        handle   <- [h \in Handles |->
                        IF m.files[h].open /\ ~faulty
                        THEN [file |-> FileOf(m, h), mode |-> m.files[h].flags, pos |-> Ftell(m, h),
                              unsaved |-> m.files[h].dirty]
                        ELSE Closed],
        Position <- 0 .. MAX_LENGTH,
        Data     <- Writings,
        Modes    <- FlagSets,
        Reads    <- { flags \in FlagSets : "read" \in flags },
        Writes   <- { flags \in FlagSets : "write" \in flags },
        Appends  <- { flags \in FlagSets : "append" \in flags },
        Creates  <- { flags \in FlagSets : "create" \in flags },
        Erases   <- { ModeFlags[mode] : mode \in Erasing }

-------------------------------------------------------------------------------
(* Properties.                                                             *)

\* The file library implements the store: what was written is what the card and the
\* handles hold, for every file but those that were spoilt, and no call on one file
\* changes another (fl_fopen to fl_remove).
KeepsFiles == Store!Spec

\* Every entry of the root and of the folders, with where it stands.
Owners(x) ==
    LET root == x.fs.rootdir_first_cluster
        within(c, entries) == { [dir |-> c, place |-> i, start |-> entries[i].start] :
                                  i \in { j \in DOMAIN entries : IsShort(entries[j]) } }
        dirs == { FolderCluster(x, root, d) : d \in Folders \cup {<<>>} } \ {Invalid}
    IN  UNION { within(c, EntriesOf(x, c)) : c \in dirs }
        \cup IF root = 0 THEN {} ELSE {[dir |-> 0, place |-> 0, start |-> root]}

\* Every cluster that is not free belongs to exactly one file or directory, each chain
\* ends, and no chain goes through a free cluster: the table that the calls build link
\* by link (add_free_space, free_cluster_chain) neither leaks nor shares clusters, and
\* the free clusters are counted right through its buffer (fatfs_count_free_clusters).
EachClusterHasOneOwner ==
    LET owned(own, chain) ==
            /\ \A o \in own : WellLinked(m, o.start)
            /\ \A o, q \in own : o # q => chain[o] \cap chain[q] = {}
            /\ \A c \in Clusters(m) : LinkOf(m, c) = Free <=> \A o \in own : c \notin chain[o]
    IN  ~faulty =>
        /\ \E own \in {Owners(m)} : owned(own, [o \in own |-> ToSet(Chain(m, o.start))])
        /\ \E count \in {CountFreeClusters(m)} :
              count.val = Cardinality({ c \in Clusters(m) : LinkOf(m, c) = Free })

\* A read would give the bytes of the file from the position on, through the buffer,
\* past it, or across clusters with the last lookup, up to a line's end in fl_fgets; and
\* nothing exactly when fl_feof says so (fl_fread, _read_sectors).
ReadsAreRight ==
    ~faulty => \A h \in { g \in OpenHandles(m) : "read" \in m.files[g].flags } :
        LET all == content[FileOf(m, h)]
            want(n) == SubSeq(all, Ftell(m, h) + 1, Smaller(Ftell(m, h) + n, Len(all)))
            line(s) == LET ends == { i \in DOMAIN s : s[i] = NEWLINE }
                       IN  IF ends = {} THEN s ELSE SubSeq(s, 1, Min(ends))
            right(got, s) == IF Feof(m, h) THEN ~got.ok ELSE got.ok /\ got.val = s
        IN  all # Spoilt => \A n \in ReadSizes :
                              /\ right(Fread(m, h, n), want(n))
                              /\ right(Fgets(m, h, n + 1, <<>>), line(want(n)))

\* A file is opened if, and only if, it is on the card, however its path is spelled, and
\* not a second time while it is open, in capital letters either; and a listing
\* shows each entry once, under its long name and with its size, of each directory that
\* fl_is_dir says there is (fatfs_get_file_entry, fatfs_list_directory_next).
FindsWhatIsThere ==
    ~faulty =>
    /\ m.free # <<>> =>
       LET spellings == IF OpenHandles(m) = {} THEN AllSpellings ELSE {"slash", "capital"} IN
          \A f \in Files :
             IF HoldersOf(m, f) = {}
             THEN \A s \in spellings : OpenFile(m, Spelled(f, s)).ok <=> content[f] # Absent
             ELSE \A s \in {"slash", "capital"} : ~OpenFile(m, Spelled(f, s)).ok
    /\ \A d \in Folders \cup {<<>>} :
          LET short(entries) == { i \in DOMAIN entries : IsShort(entries[i]) }
              there(entries) ==
                  { [name |-> q[1], is_dir |-> IsDirectory(entries[q[2]]), size |-> entries[q[2]].size] :
                      q \in { p \in KnownNames \X DOMAIN entries : p[2] \in PlacesOf(entries, p[1]) } }
          IN  \E listing \in {ListDirectory(m, FolderPath(d))} :
              \E c \in {FolderCluster(m, m.fs.rootdir_first_cluster, d)} :
                 IF c = Invalid THEN ~listing.ok /\ ~IsDir(m, FolderPath(d))
                 ELSE \E entries \in {EntriesOf(m, c)} :
                        /\ ToSet(listing.val) = there(entries)
                        /\ Len(listing.val) = Cardinality(short(entries))

\* The clusters of a volume, and those that only its table has room for.
OnVolume(x) == { c \in Clusters(x) : LbaOfCluster(x, c) + x.fs.spc - 1 \in x.fs.extent }
Spare(x)    == Clusters(x) \ OnVolume(x)
Taken(x, c) == LinkOf(x, c) # Free

\* A mount would find the volume that the library works on, but for what the type of the
\* table leaves unused.
UsedFs(fs)  == IF fs.type = 16 THEN [fs EXCEPT !.fs_info_lba = 0]
               ELSE [fs EXCEPT !.rootdir_sectors = 0, !.rootdir_lba = 0]
IsMounted(x) == \E mounted \in {FatfsInit(x)} : mounted.ok /\ UsedFs(mounted.fs) = UsedFs(x.fs)

\* A cluster past the end of the volume is given away by a call only once every cluster of
\* the volume is, and no sector outside of the volume is written but in such a cluster:
\* the search that goes by the sectors of the table (fatfs_find_blank_cluster) finds all
\* that was freed before it leaves the volume. Every search of a directory ends, and a
\* mount would find the volume that the library works on, after fl_format too, but for
\* what the type of the table leaves unused (fatfs_init, fatfs_format).
StaysOnTheVolume ==
    [][ ~faulty =>
          /\ \A s \in Spare(m) : Taken(m', s) /\ ~Taken(m, s) => \A c \in OnVolume(m) : Taken(m', c)
          /\ m'.stray /\ ~m.stray => \E s \in Spare(m') : Taken(m', s)
          /\ ~m'.endless /\ IsMounted(m') ]_vars

\* A file that is not in doubt reads as it did before, whatever was cut or has failed
\* in a call on another file, and whatever the program did since: what is closed is on
\* the card, link by link and entry by entry (fl_fclose, fatfs_fat_purge).
SettledFilesSurvive ==
    faulty => \A f \in Files : content[f] # Spoilt => ContentOf(m, f) = content[f]

===============================================================================
