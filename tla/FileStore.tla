-------------------------------- MODULE FileStore --------------------------------
(***************************************************************************)
(* What the file library promises its callers, with no sector or cluster   *)
(* in sight: files that are sequences of bytes, and handles on them, one   *)
(* per file. A byte written is a byte of the file from then on, for the    *)
(* handle that wrote it and for whoever opens the file later.              *)
(*                                                                         *)
(* A call that needs room when the volume is full may spoil its file, and  *)
(* nothing but that file. What a spoilt file holds is not said, until it   *)
(* is removed.                                                             *)
(***************************************************************************)
EXTENDS Integers, Sequences

CONSTANTS Files, Handles, Modes,
          Byte, Data,             \* bytes, and what is written in one call
          Position,               \* where a handle may be
          Reads, Writes, Appends, Creates, Erases,    \* the modes that do so
          Absent, Spoilt, Closed

VARIABLES content,                \* Files -> the bytes, Absent or Spoilt
          handle                  \* Handles -> the file, mode and position, or Closed

storeVars == <<content, handle>>

Opened == [file : Files, mode : Modes, pos : Nat, unsaved : BOOLEAN]

Init ==
    /\ content \in [Files -> Seq(Byte) \cup {Absent}]
    /\ handle = [h \in Handles |-> Closed]

IsOpen(f) == \E h \in Handles : handle[h] # Closed /\ handle[h].file = f

\* bytes with data over it from position p, which is at most its length.
Overwritten(bytes, p, data) ==
    [i \in 1 .. (IF p + Len(data) > Len(bytes) THEN p + Len(data) ELSE Len(bytes)) |->
        IF i \in p + 1 .. p + Len(data) THEN data[i - p] ELSE bytes[i]]

\* A file that is not there is created empty. One that is there is opened as it is, or
\* emptied, as the comment on the modes of fl_fopen has it.
Open(h, f, mode) ==
    /\ handle[h] = Closed
    /\ ~IsOpen(f)
    /\ content[f] # Absent \/ mode \in Creates
    /\ handle' = [handle EXCEPT ![h] = [file |-> f, mode |-> mode, pos |-> 0, unsaved |-> FALSE]]
    /\ content' = [content EXCEPT ![f] = IF @ = Absent \/ mode \in Erases THEN <<>> ELSE @]

\* One file may be spoilt by a call on it.
SpoilMaybe(f) == content' \in { content, [content EXCEPT ![f] = Spoilt] }

\* Reading moves the position; it may save bytes, to load others.
Read(h) ==
    /\ handle[h] # Closed /\ handle[h].mode \in Reads
    /\ \E p \in Position, u \in BOOLEAN :
          /\ u => handle[h].unsaved
          /\ content[handle[h].file] # Spoilt =>
                p \in handle[h].pos .. Len(content[handle[h].file])
          /\ handle' = [handle EXCEPT ![h].pos = p, ![h].unsaved = u]
    /\ SpoilMaybe(handle[h].file)

\* Writing, at the end of the file in a mode that appends.
Write(h, data) ==
    /\ handle[h] # Closed /\ handle[h].mode \in Writes
    /\ LET f == handle[h].file
           p == IF handle[h].mode \in Appends THEN Len(content[f]) ELSE handle[h].pos
       IN  \/ /\ content[f] # Spoilt
              /\ content' = [content EXCEPT ![f] = Overwritten(@, p, data)]
              /\ \E u \in BOOLEAN :
                    handle' = [handle EXCEPT ![h].pos = p + Len(data), ![h].unsaved = u]
           \/ /\ content' = [content EXCEPT ![f] = Spoilt]
              /\ \E q \in Position, u \in BOOLEAN :
                    handle' = [handle EXCEPT ![h].pos = q, ![h].unsaved = u]

\* No byte of the file is at stake when the position changes.
Seek(h) ==
    /\ handle[h] # Closed
    /\ \E p \in Position :
          /\ content[handle[h].file] # Spoilt => p <= Len(content[handle[h].file])
          /\ handle' = [handle EXCEPT ![h].pos = p, ![h].unsaved = FALSE]
    /\ UNCHANGED content

Flush(h) ==
    /\ handle[h] # Closed
    /\ \E u \in BOOLEAN : (u => handle[h].unsaved) /\ handle' = [handle EXCEPT ![h].unsaved = u]
    /\ SpoilMaybe(handle[h].file)

Close(h) ==
    /\ handle[h] # Closed
    /\ handle' = [handle EXCEPT ![h] = Closed]
    /\ IF handle[h].unsaved THEN SpoilMaybe(handle[h].file) ELSE UNCHANGED content

\* A file that is open is not removed.
Delete(f) ==
    /\ content[f] # Absent
    /\ ~IsOpen(f)
    /\ content' = [content EXCEPT ![f] = Absent]
    /\ UNCHANGED handle

\* Formatting takes every file away; no file is open.
Format ==
    /\ \A f \in Files : ~IsOpen(f)
    /\ content' = [f \in Files |-> Absent]
    /\ UNCHANGED handle

Next ==
    \/ \E h \in Handles, f \in Files, mode \in Modes : Open(h, f, mode)
    \/ \E h \in Handles : Read(h) \/ Seek(h) \/ Flush(h) \/ Close(h)
    \/ \E h \in Handles, data \in Data : Write(h, data)
    \/ \E f \in Files : Delete(f)
    \/ Format

Spec == Init /\ [][Next]_storeVars

-------------------------------------------------------------------------------
\* The types of the variables.
StoreTypeOK ==
    /\ content \in [Files -> Seq(Byte) \cup {Absent, Spoilt}]
    /\ handle \in [Handles -> Opened \cup {Closed}]

\* A file has one handle at most, it is there while it has one, and the position of the
\* handle is within it.
HandlesAreSound ==
    /\ \A g, h \in Handles :
          handle[g] # Closed /\ handle[h] # Closed /\ handle[g].file = handle[h].file => g = h
    /\ \A h \in Handles : handle[h] # Closed =>
          /\ content[handle[h].file] # Absent
          /\ content[handle[h].file] # Spoilt => handle[h].pos <= Len(content[handle[h].file])

\* A file has got a handle of a mode that may make it empty, or create it.
EmptiedBy(f) ==
    \E h \in Handles : /\ handle'[h] # Closed /\ handle'[h].file = f
                       /\ handle'[h].mode \in IF content[f] = Absent THEN Creates ELSE Erases

\* A handle of the file that may write has left the bytes before its position as they
\* were, all of them in a mode that appends, and the file no shorter.
WrittenThrough(h, f) ==
    LET kept == IF handle[h].mode \in Appends THEN Len(content[f]) ELSE handle[h].pos
    IN /\ handle[h] # Closed /\ handle[h].file = f /\ handle[h].mode \in Writes
       /\ content[f] # Spoilt /\ content'[f] \in Seq(Byte)
       /\ Len(content'[f]) >= Len(content[f])
       /\ \A i \in 1 .. kept : content'[f][i] = content[f][i]

\* A call changes a file in one of four ways: it removes a file that has no handle, it
\* creates one or empties one as it is opened, it spoils a file by a call on a handle of
\* it, or it writes one through a handle of it.
ChangesAreSound ==
    [][\A f \in Files : content'[f] # content[f] =>
          \/ content'[f] = Absent /\ ~IsOpen(f)
          \/ content'[f] = <<>> /\ ~IsOpen(f) /\ EmptiedBy(f)
          \/ content'[f] = Spoilt /\ IsOpen(f)
          \/ \E h \in Handles : WrittenThrough(h, f)]_storeVars

===============================================================================
