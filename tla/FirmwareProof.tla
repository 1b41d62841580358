----------------------------- MODULE FirmwareProof -----------------------------
(***************************************************************************)
(* The library under the shell and the shell itself.  The handles of the   *)
(* file store are sound and a call changes its own file only, whatever the *)
(* files, the modes and the data: with FatLibrary!KeepsFiles, so do those  *)
(* of the file library.  And the shell starts what it marks, whole, for    *)
(* every set of cards, every size of the screen and of the table of open   *)
(* files, all buttons and all that can be typed.                           *)
(*                                                                         *)
(* The list of programs is read from the card again whenever it is asked   *)
(* for: SameCard says that it changes with the card only,                  *)
(* ConstrainedInList and RevealsSelected are the arithmetic of the menu,   *)
(* ExecRuns is what a load that succeeds leaves in memory.                 *)
(***************************************************************************)
EXTENDS FileStore, Shell, WellFoundedInduction, TLAPS

-------------------------------------------------------------------------------
(* The files. *)

\* What the constants are: bytes, data and positions are what their names say, and the
\* three marks are no file contents and no handles.
StoreConstants ==
    /\ Data \subseteq Seq(Byte)
    /\ Position \subseteq Nat
    /\ Absent \notin Seq(Byte) /\ Spoilt \notin Seq(Byte) /\ Absent # Spoilt
    /\ Closed \notin Opened

\* The inductive invariant: a file that is not there or is spoilt is no sequence, so the
\* length of a sound file needs the types.
StoreInv == StoreTypeOK /\ HandlesAreSound

-------------------------------------------------------------------------------
\* A file that is written over stays a sequence of bytes, as long as it was or as far as
\* the data goes.
LEMMA OverwrittenIsLonger ==
    ASSUME NEW bytes \in Seq(Byte), NEW data \in Seq(Byte), NEW p \in 0 .. Len(bytes)
    PROVE  /\ Overwritten(bytes, p, data) \in Seq(Byte)
           /\ Len(Overwritten(bytes, p, data)) >= p + Len(data)
<1> DEFINE n == IF p + Len(data) > Len(bytes) THEN p + Len(data) ELSE Len(bytes)
<1>1. n \in Nat /\ n >= p + Len(data) /\ n >= Len(bytes)
  OBVIOUS
<1>2. \A i \in 1 .. n : (IF i \in p + 1 .. p + Len(data) THEN data[i - p] ELSE bytes[i]) \in Byte
  <2> SUFFICES ASSUME NEW i \in 1 .. n
               PROVE  (IF i \in p + 1 .. p + Len(data) THEN data[i - p] ELSE bytes[i]) \in Byte
    OBVIOUS
  <2>1. CASE i \in p + 1 .. p + Len(data)
    <3>1. i - p \in 1 .. Len(data)
      BY <2>1
    <3> QED BY <2>1, <3>1
  <2>2. CASE i \notin p + 1 .. p + Len(data)
    <3>1. i \in 1 .. Len(bytes)
      BY <2>2
    <3> QED BY <2>2, <3>1
  <2> QED BY <2>1, <2>2
<1>3. Overwritten(bytes, p, data) = [i \in 1 .. n |->
         IF i \in p + 1 .. p + Len(data) THEN data[i - p] ELSE bytes[i]]
  BY DEF Overwritten
<1>4. Overwritten(bytes, p, data) \in [1 .. n -> Byte]
  <2> HIDE DEF n
  <2> QED BY <1>2, <1>3
<1>5. Overwritten(bytes, p, data) \in Seq(Byte) /\ Len(Overwritten(bytes, p, data)) = n
  <2> HIDE DEF n
  <2> QED BY <1>1, <1>3, <1>4
<1> QED BY <1>1, <1>5

\* At first no handle is open.
LEMMA StoreInvInit == Init => StoreInv
  BY DEF Init, StoreInv, StoreTypeOK, HandlesAreSound

\* A step that leaves every handle but h alone, keeps the file of h there, and no longer
\* than it keeps h's position within it, keeps the invariant.
LEMMA OneHandleMoves ==
    ASSUME StoreConstants, StoreInv,
           NEW h \in Handles, handle[h] # Closed,
           NEW p \in Nat, NEW u \in BOOLEAN,
           handle' = [handle EXCEPT ![h].pos = p, ![h].unsaved = u],
           NEW c \in Seq(Byte) \cup {Spoilt},
           content' = [content EXCEPT ![handle[h].file] = c],
           c # Spoilt => p <= Len(c)
    PROVE  StoreInv'
<1> DEFINE r == handle[h]
<1>1. r \in Opened
  BY DEF StoreInv, StoreTypeOK
<1>2. handle'[h] = [file |-> r.file, mode |-> r.mode, pos |-> p, unsaved |-> u]
  BY <1>1 DEF StoreInv, StoreTypeOK, Opened
<1>3. handle'[h] \in Opened /\ handle'[h].file = r.file /\ handle'[h].pos = p
  BY <1>1, <1>2 DEF Opened
<1>4. \A g \in Handles \ {h} : handle'[g] = handle[g]
  BY DEF StoreInv, StoreTypeOK
<1>5. r.file \in Files /\ content'[r.file] = c
  BY <1>1 DEF Opened, StoreInv, StoreTypeOK
<1>6. \A f \in Files \ {r.file} : content'[f] = content[f]
  BY DEF StoreInv, StoreTypeOK
<1>7. StoreTypeOK'
  <2>1. content' \in [Files -> Seq(Byte) \cup {Absent, Spoilt}]
    BY DEF StoreInv, StoreTypeOK
  <2>2. handle' \in [Handles -> Opened \cup {Closed}]
    BY <1>2, <1>3, <1>4 DEF StoreInv, StoreTypeOK
  <2> QED BY <2>1, <2>2 DEF StoreTypeOK
<1>8. \A g \in Handles : handle'[g] # Closed =>
         handle[g] # Closed /\ handle'[g].file = handle[g].file
  BY <1>3, <1>4
<1>9. \A g, k \in Handles :
         handle'[g] # Closed /\ handle'[k] # Closed /\ handle'[g].file = handle'[k].file => g = k
  BY <1>8 DEF StoreInv, HandlesAreSound
<1>10. ASSUME NEW g \in Handles, handle'[g] # Closed
       PROVE  /\ content'[handle'[g].file] # Absent
              /\ content'[handle'[g].file] # Spoilt =>
                    handle'[g].pos <= Len(content'[handle'[g].file])
  <2>1. CASE g = h
    BY <1>3, <1>5, <2>1 DEF StoreConstants
  <2>2. CASE g # h
    <3>1. handle'[g] = handle[g] /\ handle[g] # Closed
      BY <1>4, <1>10, <2>2
    <3>2. handle[g].file # r.file
      BY <2>2, <3>1 DEF StoreInv, HandlesAreSound
    <3>3. handle[g].file \in Files
      BY <3>1 DEF StoreInv, StoreTypeOK, Opened
    <3>4. content'[handle[g].file] = content[handle[g].file]
      BY <1>6, <3>2, <3>3
    <3> QED BY <3>1, <3>4 DEF StoreInv, HandlesAreSound
  <2> QED BY <2>1, <2>2
<1>11. HandlesAreSound'
  BY <1>9, <1>10 DEF HandlesAreSound
<1> QED BY <1>7, <1>11 DEF StoreInv

\* A call on the handle h that may spoil its file, and moves h within it if it does not.
LEMMA HandleMovesInItsFile ==
    ASSUME StoreConstants, StoreInv,
           NEW h \in Handles, handle[h] # Closed,
           NEW p \in Nat, NEW u \in BOOLEAN,
           handle' = [handle EXCEPT ![h].pos = p, ![h].unsaved = u],
           SpoilMaybe(handle[h].file),
           content[handle[h].file] # Spoilt => p <= Len(content[handle[h].file])
    PROVE  StoreInv'
<1> DEFINE f == handle[h].file
<1>1. f \in Files
  BY DEF StoreInv, StoreTypeOK, Opened
<1>2. content[f] \in Seq(Byte) \cup {Spoilt}
  BY <1>1 DEF StoreInv, StoreTypeOK, HandlesAreSound
<1>3. CASE content' = content
  <2>1. content' = [content EXCEPT ![f] = content[f]]
    BY <1>1, <1>3 DEF StoreInv, StoreTypeOK
  <2> QED BY <1>2, <2>1, OneHandleMoves
<1>4. CASE content' = [content EXCEPT ![f] = Spoilt]
  <2>1. Spoilt \in Seq(Byte) \cup {Spoilt} /\ (Spoilt # Spoilt => p <= Len(Spoilt))
    OBVIOUS
  <2> QED BY <1>4, <2>1, OneHandleMoves
<1> QED BY <1>3, <1>4 DEF SpoilMaybe

\* A file that has a handle is one, and holds bytes unless it is spoilt; the handle is
\* within it.
LEMMA OpenFileHasBytes ==
    ASSUME StoreInv, NEW h \in Handles, handle[h] # Closed
    PROVE  /\ handle[h] \in Opened
           /\ handle[h].file \in Files /\ handle[h].pos \in Nat /\ handle[h].unsaved \in BOOLEAN
           /\ content[handle[h].file] \in Seq(Byte) \cup {Spoilt}
           /\ content[handle[h].file] # Spoilt =>
                handle[h].pos <= Len(content[handle[h].file])
  BY DEF StoreInv, StoreTypeOK, HandlesAreSound, Opened

-------------------------------------------------------------------------------
\* To open a file: it has no handle yet, and is there afterwards.
LEMMA OpenKeeps ==
    ASSUME StoreConstants, StoreInv,
           NEW h \in Handles, NEW f \in Files, NEW mode \in Modes, Open(h, f, mode)
    PROVE  StoreInv'
<1> DEFINE r == [file |-> f, mode |-> mode, pos |-> 0, unsaved |-> FALSE]
           c == IF content[f] = Absent \/ mode \in Erases THEN <<>> ELSE content[f]
<1>1. r \in Opened /\ r # Closed
  <2>1. r \in Opened
    BY DEF Opened
  <2> HIDE DEF r
  <2> QED BY <2>1 DEF StoreConstants
<1>2. handle'[h] = r /\ \A g \in Handles \ {h} : handle'[g] = handle[g]
  BY DEF Open, StoreInv, StoreTypeOK
<1>3. content' = [content EXCEPT ![f] = c]
  BY DEF Open
<1>4. c \in Seq(Byte) \cup {Spoilt} /\ (c # Spoilt => 0 <= Len(c))
  BY DEF StoreInv, StoreTypeOK
<1>5. content'[f] = c /\ \A k \in Files \ {f} : content'[k] = content[k]
  <2> HIDE DEF c
  <2> QED BY <1>3 DEF StoreInv, StoreTypeOK
<1>6. \A g \in Handles \ {h} : handle[g] # Closed => handle[g].file # f
  BY DEF Open, IsOpen
<1>7. StoreTypeOK'
  <2>1. content' \in [Files -> Seq(Byte) \cup {Absent, Spoilt}]
    <3> HIDE DEF c
    <3> QED BY <1>3, <1>4 DEF StoreInv, StoreTypeOK
  <2>2. handle' \in [Handles -> Opened \cup {Closed}]
    BY <1>1 DEF Open, StoreInv, StoreTypeOK
  <2> QED BY <2>1, <2>2 DEF StoreTypeOK
<1>8. ASSUME NEW g \in Handles, NEW k \in Handles,
             handle'[g] # Closed, handle'[k] # Closed, handle'[g].file = handle'[k].file
      PROVE  g = k
  <2>1. CASE g # h /\ k # h
    BY <1>2, <1>8, <2>1 DEF StoreInv, HandlesAreSound
  <2>2. CASE g = h /\ k # h
    BY <1>2, <1>6, <1>8, <2>2
  <2>3. CASE g # h /\ k = h
    BY <1>2, <1>6, <1>8, <2>3
  <2> QED BY <2>1, <2>2, <2>3
<1>9. ASSUME NEW g \in Handles, handle'[g] # Closed
      PROVE  /\ content'[handle'[g].file] # Absent
             /\ content'[handle'[g].file] # Spoilt =>
                   handle'[g].pos <= Len(content'[handle'[g].file])
  <2>1. CASE g = h
    <3>1. handle'[g].file = f /\ handle'[g].pos = 0
      BY <1>2, <2>1
    <3> HIDE DEF c, r
    <3> QED BY <1>4, <1>5, <3>1 DEF StoreConstants
  <2>2. CASE g # h
    <3>1. handle'[g] = handle[g] /\ handle[g] # Closed
      BY <1>2, <1>9, <2>2
    <3>2. handle[g].file \in Files /\ handle[g].file # f
      BY <1>6, <2>2, <3>1, OpenFileHasBytes
    <3>3. content'[handle[g].file] = content[handle[g].file]
      BY <1>5, <3>2
    <3> QED BY <3>1, <3>3 DEF StoreInv, HandlesAreSound
  <2> QED BY <2>1, <2>2
<1>10. HandlesAreSound'
  BY <1>8, <1>9 DEF HandlesAreSound
<1> QED BY <1>7, <1>10 DEF StoreInv

LEMMA ReadKeeps ==
    ASSUME StoreConstants, StoreInv, NEW h \in Handles, Read(h)
    PROVE  StoreInv'
<1>1. PICK p \in Position, u \in BOOLEAN :
         /\ content[handle[h].file] # Spoilt =>
               p \in handle[h].pos .. Len(content[handle[h].file])
         /\ handle' = [handle EXCEPT ![h].pos = p, ![h].unsaved = u]
  BY DEF Read
<1>2. handle[h] # Closed /\ SpoilMaybe(handle[h].file)
  BY DEF Read
<1>3. p \in Nat
  BY DEF StoreConstants
<1>4. content[handle[h].file] # Spoilt => p <= Len(content[handle[h].file])
  BY <1>1, <1>2, <1>3, OpenFileHasBytes
<1> QED BY <1>1, <1>2, <1>3, <1>4, HandleMovesInItsFile

LEMMA WriteKeeps ==
    ASSUME StoreConstants, StoreInv, NEW h \in Handles, NEW data \in Data, Write(h, data)
    PROVE  StoreInv'
<1> DEFINE f == handle[h].file
           p == IF handle[h].mode \in Appends THEN Len(content[f]) ELSE handle[h].pos
<1>1. handle[h] # Closed
  BY DEF Write
<1>2. /\ f \in Files /\ handle[h].pos \in Nat
      /\ content[f] \in Seq(Byte) \cup {Spoilt}
      /\ content[f] # Spoilt => handle[h].pos <= Len(content[f])
  BY <1>1, OpenFileHasBytes
<1>3. data \in Seq(Byte)
  BY DEF StoreConstants
<1>4. CASE /\ content[f] # Spoilt
           /\ content' = [content EXCEPT ![f] = Overwritten(@, p, data)]
           /\ \E u \in BOOLEAN :
                handle' = [handle EXCEPT ![h].pos = p + Len(data), ![h].unsaved = u]
  <2>1. content[f] \in Seq(Byte)
    BY <1>2, <1>4
  <2>2. p \in 0 .. Len(content[f])
    BY <1>2, <1>4, <2>1
  <2>3. PICK u \in BOOLEAN :
           handle' = [handle EXCEPT ![h].pos = p + Len(data), ![h].unsaved = u]
    BY <1>4
  <2> DEFINE c == Overwritten(content[f], p, data)
  <2>4. content' = [content EXCEPT ![f] = c]
    BY <1>4
  <2>5. c \in Seq(Byte) /\ Len(c) >= p + Len(data)
    BY <1>3, <2>1, <2>2, OverwrittenIsLonger
  <2>6. p + Len(data) \in Nat /\ p + Len(data) <= Len(c)
    <3>1. Len(c) \in Nat /\ Len(data) \in Nat
      BY <1>3, <2>5
    <3> HIDE DEF c, p
    <3> QED BY <2>2, <2>5, <3>1
  <2> HIDE DEF c, p
  <2> DEFINE q == p + Len(data)
  <2>7. handle' = [handle EXCEPT ![h].pos = q, ![h].unsaved = u] /\ q \in Nat /\ q <= Len(c)
    BY <2>3, <2>6
  <2> HIDE DEF q
  <2> QED BY <1>1, <2>4, <2>5, <2>7, OneHandleMoves
<1>5. CASE /\ content' = [content EXCEPT ![f] = Spoilt]
           /\ \E q \in Position, u \in BOOLEAN :
                handle' = [handle EXCEPT ![h].pos = q, ![h].unsaved = u]
  <2>1. PICK q \in Position, u \in BOOLEAN :
           handle' = [handle EXCEPT ![h].pos = q, ![h].unsaved = u]
    BY <1>5
  <2>2. q \in Nat
    BY DEF StoreConstants
  <2>3. Spoilt \in Seq(Byte) \cup {Spoilt} /\ (Spoilt # Spoilt => q <= Len(Spoilt))
    OBVIOUS
  <2> QED BY <1>1, <1>5, <2>1, <2>2, <2>3, OneHandleMoves
<1> QED BY <1>4, <1>5 DEF Write

\* A seek stays within the file.
LEMMA SeekKeeps ==
    ASSUME StoreConstants, StoreInv, NEW h \in Handles, Seek(h)
    PROVE  StoreInv'
<1>1. PICK p \in Position :
         /\ content[handle[h].file] # Spoilt => p <= Len(content[handle[h].file])
         /\ handle' = [handle EXCEPT ![h].pos = p, ![h].unsaved = FALSE]
  BY DEF Seek
<1>2. handle[h] # Closed /\ SpoilMaybe(handle[h].file)
  BY DEF Seek, SpoilMaybe
<1>3. p \in Nat
  BY DEF StoreConstants
<1> QED BY <1>1, <1>2, <1>3, HandleMovesInItsFile

LEMMA FlushKeeps ==
    ASSUME StoreConstants, StoreInv, NEW h \in Handles, Flush(h)
    PROVE  StoreInv'
<1> DEFINE r == handle[h]
<1>1. PICK u \in BOOLEAN : handle' = [handle EXCEPT ![h].unsaved = u]
  BY DEF Flush
<1>2. r # Closed /\ SpoilMaybe(r.file)
  BY DEF Flush
<1>3. r \in Opened /\ r.pos \in Nat
      /\ (content[r.file] # Spoilt => r.pos <= Len(content[r.file]))
  BY <1>2, OpenFileHasBytes
<1>4. [r EXCEPT !.unsaved = u] = [r EXCEPT !.pos = r.pos, !.unsaved = u]
  BY <1>3 DEF Opened
<1>5. handle' = [handle EXCEPT ![h].pos = r.pos, ![h].unsaved = u]
  BY <1>1, <1>4 DEF StoreInv, StoreTypeOK
<1> QED BY <1>2, <1>3, <1>5, HandleMovesInItsFile

\* Closing a handle leaves the others alone, and their files: no other has its file.
LEMMA CloseKeeps ==
    ASSUME StoreConstants, StoreInv, NEW h \in Handles, Close(h)
    PROVE  StoreInv'
<1> DEFINE f == handle[h].file
<1>1. handle'[h] = Closed /\ \A g \in Handles \ {h} : handle'[g] = handle[g]
  BY DEF Close, StoreInv, StoreTypeOK
<1>2. f \in Files /\ content' \in {content, [content EXCEPT ![f] = Spoilt]}
  BY OpenFileHasBytes DEF Close, SpoilMaybe
<1>3. \A k \in Files \ {f} : content'[k] = content[k]
  BY <1>2 DEF StoreInv, StoreTypeOK
<1>4. StoreTypeOK'
  <2>1. content' \in [Files -> Seq(Byte) \cup {Absent, Spoilt}]
    BY <1>2 DEF StoreInv, StoreTypeOK
  <2>2. handle' \in [Handles -> Opened \cup {Closed}]
    BY DEF Close, StoreInv, StoreTypeOK
  <2> QED BY <2>1, <2>2 DEF StoreTypeOK
<1>5. \A g \in Handles : handle'[g] # Closed =>
         /\ g # h /\ handle'[g] = handle[g] /\ handle[g] # Closed
         /\ handle[g].file \in Files \ {f}
  BY <1>1, OpenFileHasBytes DEF StoreInv, HandlesAreSound, Close
<1>6. \A g \in Handles : handle'[g] # Closed => content'[handle'[g].file] = content[handle[g].file]
  BY <1>3, <1>5
<1>7. HandlesAreSound'
  BY <1>5, <1>6 DEF StoreInv, HandlesAreSound
<1> QED BY <1>4, <1>7 DEF StoreInv

\* A file is removed only while it has no handle.
LEMMA DeleteKeeps ==
    ASSUME StoreConstants, StoreInv, NEW f \in Files, Delete(f)
    PROVE  StoreInv'
<1>1. handle' = handle /\ content' = [content EXCEPT ![f] = Absent]
  BY DEF Delete
<1>2. StoreTypeOK'
  BY <1>1 DEF StoreInv, StoreTypeOK
<1>3. \A g \in Handles : handle[g] # Closed => handle[g].file \in Files \ {f}
  BY OpenFileHasBytes DEF Delete, IsOpen
<1>4. \A g \in Handles : handle[g] # Closed => content'[handle[g].file] = content[handle[g].file]
  BY <1>1, <1>3 DEF StoreInv, StoreTypeOK
<1>5. HandlesAreSound'
  BY <1>1, <1>4 DEF StoreInv, HandlesAreSound
<1> QED BY <1>2, <1>5 DEF StoreInv

\* A format finds no file open, and leaves none.
LEMMA FormatKeeps == ASSUME StoreConstants, StoreInv, Format PROVE StoreInv'
<1>1. handle' = handle /\ content' = [f \in Files |-> Absent]
  BY DEF Format
<1>2. \A h \in Handles : handle[h] = Closed
  BY OpenFileHasBytes DEF Format, IsOpen
<1>3. StoreTypeOK'
  BY <1>1 DEF StoreInv, StoreTypeOK
<1>4. HandlesAreSound'
  BY <1>1, <1>2 DEF HandlesAreSound
<1> QED BY <1>3, <1>4 DEF StoreInv

LEMMA StoreInvStep == StoreConstants /\ StoreInv /\ [Next]_storeVars => StoreInv'
<1> SUFFICES ASSUME StoreConstants, StoreInv, [Next]_storeVars PROVE StoreInv'
  OBVIOUS
<1>1. ASSUME NEW h \in Handles, NEW f \in Files, NEW mode \in Modes, Open(h, f, mode)
      PROVE  StoreInv'
  BY <1>1, OpenKeeps
<1>2. ASSUME NEW h \in Handles, Read(h) PROVE StoreInv'
  BY <1>2, ReadKeeps
<1>3. ASSUME NEW h \in Handles, Seek(h) PROVE StoreInv'
  BY <1>3, SeekKeeps
<1>4. ASSUME NEW h \in Handles, Flush(h) PROVE StoreInv'
  BY <1>4, FlushKeeps
<1>5. ASSUME NEW h \in Handles, Close(h) PROVE StoreInv'
  BY <1>5, CloseKeeps
<1>6. ASSUME NEW h \in Handles, NEW data \in Data, Write(h, data) PROVE StoreInv'
  BY <1>6, WriteKeeps
<1>7. ASSUME NEW f \in Files, Delete(f) PROVE StoreInv'
  BY <1>7, DeleteKeeps
<1>8. CASE Format
  BY <1>8, FormatKeeps
<1>9. CASE UNCHANGED storeVars
  BY <1>9 DEF storeVars, StoreInv, StoreTypeOK, HandlesAreSound
<1> QED BY <1>1, <1>2, <1>3, <1>4, <1>5, <1>6, <1>7, <1>8, <1>9 DEF Next

-------------------------------------------------------------------------------
\* In every behaviour of the store a file has one handle at most, it stays there while
\* it has one, and the handle stays within it: what fl_fopen's search of the open files
\* and fl_fwrite's moving of the length are for.
THEOREM HandlesSound == ASSUME StoreConstants PROVE Spec => []HandlesAreSound
<1>1. Init => StoreInv
  BY StoreInvInit
<1>2. StoreInv /\ [Next]_storeVars => StoreInv'
  BY StoreInvStep
<1>3. StoreInv => HandlesAreSound
  BY DEF StoreInv
<1> QED BY <1>1, <1>2, <1>3, PTL DEF Spec

\* What Overwritten keeps: the length and every byte before the data.
LEMMA OverwrittenKeeps ==
    ASSUME NEW bytes \in Seq(Byte), NEW data \in Seq(Byte), NEW p \in 0 .. Len(bytes)
    PROVE  /\ Len(Overwritten(bytes, p, data)) >= Len(bytes)
           /\ \A i \in 1 .. p : Overwritten(bytes, p, data)[i] = bytes[i]
<1> DEFINE n == IF p + Len(data) > Len(bytes) THEN p + Len(data) ELSE Len(bytes)
           w == Overwritten(bytes, p, data)
<1>1. n \in Nat /\ n >= p /\ n >= Len(bytes) /\ Len(data) \in Nat /\ p \in Nat
  OBVIOUS
<1>2. w = [i \in 1 .. n |-> IF i \in p + 1 .. p + Len(data) THEN data[i - p] ELSE bytes[i]]
  BY DEF Overwritten
<1>3. w \in Seq(Byte)
  BY OverwrittenIsLonger
<1>4. Len(w) = n
  <2> HIDE DEF n
  <2>1. DOMAIN w = 1 .. n
    BY <1>2
  <2> HIDE DEF w
  <2>2. Len(w) \in Nat /\ DOMAIN w = 1 .. Len(w)
    BY <1>3
  <2> QED BY <1>1, <2>1, <2>2
<1>5. \A i \in 1 .. p : i \in 1 .. n /\ i \notin p + 1 .. p + Len(data)
  <2> HIDE DEF n
  <2> QED BY <1>1
<1>6. \A i \in 1 .. p : w[i] = bytes[i]
  <2> HIDE DEF n
  <2> QED BY <1>2, <1>5
<1> QED BY <1>1, <1>4, <1>6

\* The four ways in which a call may change the file f.
Sound(f) ==
    \/ content'[f] = Absent /\ ~IsOpen(f)
    \/ content'[f] = <<>> /\ ~IsOpen(f) /\ EmptiedBy(f)
    \/ content'[f] = Spoilt /\ IsOpen(f)
    \/ \E h \in Handles : WrittenThrough(h, f)

\* A call that may spoil its own file is sound for every file.
LEMMA SpoilingIsSound ==
    ASSUME StoreInv, NEW h \in Handles, handle[h] # Closed, SpoilMaybe(handle[h].file),
           NEW f \in Files, content'[f] # content[f]
    PROVE  Sound(f)
<1>1. content' = [content EXCEPT ![handle[h].file] = Spoilt]
  BY DEF SpoilMaybe
<1>2. handle[h].file = f /\ content'[f] = Spoilt
  BY <1>1 DEF StoreInv, StoreTypeOK
<1> QED BY <1>2 DEF Sound, IsOpen

LEMMA WritingIsSound ==
    ASSUME StoreConstants, StoreInv, NEW h \in Handles, NEW data \in Data, Write(h, data),
           NEW f \in Files, content'[f] # content[f]
    PROVE  Sound(f)
<1> DEFINE p == IF handle[h].mode \in Appends THEN Len(content[f]) ELSE handle[h].pos
<1>1. handle[h] # Closed /\ handle[h].mode \in Writes
  BY DEF Write
<1>2. handle[h].file = f
  BY DEF Write, StoreInv, StoreTypeOK
<1>3. CASE content' = [content EXCEPT ![f] = Spoilt]
  BY <1>1, <1>2, <1>3 DEF Sound, IsOpen, StoreInv, StoreTypeOK
<1>4. CASE content[f] # Spoilt /\ content' = [content EXCEPT ![f] = Overwritten(@, p, data)]
  <2>1. content[f] \in Seq(Byte) /\ p \in 0 .. Len(content[f])
    BY <1>1, <1>2, <1>4, OpenFileHasBytes
  <2>2. data \in Seq(Byte)
    BY DEF StoreConstants
  <2>3. content'[f] = Overwritten(content[f], p, data)
    <3> HIDE DEF p
    <3> QED BY <1>4 DEF StoreInv, StoreTypeOK
  <2>4. /\ content'[f] \in Seq(Byte)
        /\ Len(content'[f]) >= Len(content[f])
        /\ \A i \in 1 .. p : content'[f][i] = content[f][i]
    <3> HIDE DEF p
    <3>1. Overwritten(content[f], p, data) \in Seq(Byte)
      BY <2>1, <2>2, OverwrittenIsLonger
    <3>2. /\ Len(Overwritten(content[f], p, data)) >= Len(content[f])
          /\ \A i \in 1 .. p : Overwritten(content[f], p, data)[i] = content[f][i]
      BY <2>1, <2>2, OverwrittenKeeps
    <3> QED BY <2>3, <3>1, <3>2
  <2>5. WrittenThrough(h, f)
    BY <1>1, <1>2, <1>4, <2>4 DEF WrittenThrough
  <2> QED BY <2>5 DEF Sound
<1> QED BY <1>2, <1>3, <1>4 DEF Write

LEMMA CallsAreSound ==
    ASSUME StoreConstants, StoreInv, [Next]_storeVars, NEW f \in Files, content'[f] # content[f]
    PROVE  Sound(f)
<1>1. ASSUME NEW h \in Handles, NEW k \in Files, NEW mode \in Modes, Open(h, k, mode)
      PROVE  Sound(f)
  <2>1. /\ k = f /\ content'[f] = <<>> /\ ~IsOpen(f)
        /\ mode \in IF content[f] = Absent THEN Creates ELSE Erases
    BY <1>1 DEF Open, StoreInv, StoreTypeOK
  <2> DEFINE r == [file |-> f, mode |-> mode, pos |-> 0, unsaved |-> FALSE]
  <2>2. handle'[h] = r
    BY <1>1, <2>1 DEF Open, StoreInv, StoreTypeOK
  <2>3. r \in Opened /\ r.file = f /\ r.mode = mode
    BY DEF Opened
  <2> HIDE DEF r
  <2>4. handle'[h] # Closed
    BY <2>2, <2>3 DEF StoreConstants
  <2>5. EmptiedBy(f)
    BY <2>1, <2>2, <2>3, <2>4 DEF EmptiedBy
  <2> QED BY <2>1, <2>5 DEF Sound
<1>2. ASSUME NEW h \in Handles, Read(h) PROVE Sound(f)
  BY <1>2, SpoilingIsSound DEF Read
<1>3. ASSUME NEW h \in Handles, Seek(h) PROVE Sound(f)
  BY <1>3 DEF Seek
<1>4. ASSUME NEW h \in Handles, Flush(h) PROVE Sound(f)
  BY <1>4, SpoilingIsSound DEF Flush
<1>5. ASSUME NEW h \in Handles, Close(h) PROVE Sound(f)
  BY <1>5, SpoilingIsSound DEF Close
<1>6. ASSUME NEW h \in Handles, NEW data \in Data, Write(h, data) PROVE Sound(f)
  BY <1>6, WritingIsSound
<1>7. ASSUME NEW k \in Files, Delete(k) PROVE Sound(f)
  BY <1>7 DEF Delete, Sound, StoreInv, StoreTypeOK
<1>8. CASE Format
  BY <1>8 DEF Format, Sound
<1>9. CASE UNCHANGED storeVars
  BY <1>9 DEF storeVars
<1> QED BY <1>1, <1>2, <1>3, <1>4, <1>5, <1>6, <1>7, <1>8, <1>9 DEF Next

\* In every behaviour of the store a file changes only by a call made for it: none that is
\* closed is touched but to be removed, created or emptied as it is opened, none that is
\* open vanishes, and a write through one handle leaves the bytes before its position as
\* they were.
THEOREM ChangesSound == ASSUME StoreConstants PROVE Spec => ChangesAreSound
<1>1. Init => StoreInv
  BY StoreInvInit
<1>2. StoreInv /\ [Next]_storeVars => StoreInv'
  BY StoreInvStep
<1> DEFINE Step == \A f \in Files : content'[f] # content[f] => Sound(f)
<1>3. StoreInv /\ [Next]_storeVars => [Step]_storeVars
  BY CallsAreSound
<1>4. Step <=> (\A f \in Files : content'[f] # content[f] =>
          \/ content'[f] = Absent /\ ~IsOpen(f)
          \/ content'[f] = <<>> /\ ~IsOpen(f) /\ EmptiedBy(f)
          \/ content'[f] = Spoilt /\ IsOpen(f)
          \/ \E h \in Handles : WrittenThrough(h, f))
  BY DEF Sound
<1> HIDE DEF Step
<1> QED BY <1>1, <1>2, <1>3, <1>4, PTL DEF Spec, ChangesAreSound

-------------------------------------------------------------------------------
(* Induction, with sets as in VehicleProof: it proves what a               *)
(* recursive function computes.                                            *)

LessThan == { p \in Nat \X Nat : p[1] < p[2] }

\* A set that holds 0 and the successor of each of its numbers holds them all.
LEMMA SetInduction ==
  ASSUME NEW T, 0 \in T, \A n \in Nat : n \in T => n + 1 \in T
  PROVE  Nat \subseteq T
<1> DEFINE Missing == Nat \ T
<1> SUFFICES ASSUME Missing # {} PROVE FALSE
  OBVIOUS
<1>0. LessThan = OpToRel(<, Nat)
  BY DEF LessThan, OpToRel
<1>1. PICK x \in Missing : \A y \in Missing : <<y, x>> \notin LessThan
  BY <1>0, NatLessThanWellFounded, WFMin
<1>2. x \in Nat /\ x # 0 /\ x \notin T
  OBVIOUS
<1>3. x - 1 \in Nat /\ x - 1 + 1 = x
  BY <1>2
<1>4. <<x - 1, x>> \in LessThan
  BY <1>2, <1>3 DEF LessThan
<1> QED
  BY <1>1, <1>2, <1>3, <1>4

-------------------------------------------------------------------------------
(* The list of programs.                                                   *)

FileLists == Seq(Entries)

\* There is a function that a recursive definition on 0 .. N describes.
LEMMA RecursiveLists ==
  ASSUME NEW N \in Nat, NEW first \in FileLists, NEW step \in [Nat -> [FileLists -> FileLists]]
  PROVE  \E g \in [0 .. N -> FileLists] : /\ g[0] = first
                                          /\ \A k \in 1 .. N : g[k] = step[k][g[k - 1]]
<1> DEFINE Builds(g, n) == /\ g[0] = first
                          /\ \A k \in 1 .. n : g[k] = step[k][g[k - 1]]
           T == { n \in Nat : \E g \in [0 .. n -> FileLists] : Builds(g, n) }
<1>0. \A k \in Nat, x \in FileLists : step[k][x] \in FileLists
  OBVIOUS
<1>1. 0 \in T
  <2>1. Builds([k \in 0 .. 0 |-> first], 0)
    OBVIOUS
  <2> QED
    BY <2>1
<1>2. ASSUME NEW n \in Nat, n \in T
      PROVE  n + 1 \in T
  <2>1. PICK g \in [0 .. n -> FileLists] : Builds(g, n)
    BY <1>2
  <2> DEFINE h == [k \in 0 .. n + 1 |-> IF k \in 0 .. n THEN g[k] ELSE step[k][g[n]]]
  <2>2. h \in [0 .. n + 1 -> FileLists]
    <3> SUFFICES ASSUME NEW k \in 0 .. n + 1
                 PROVE  (IF k \in 0 .. n THEN g[k] ELSE step[k][g[n]]) \in FileLists
      OBVIOUS
    <3>1. g[n] \in FileLists
      OBVIOUS
    <3>2. k \in Nat
      OBVIOUS
    <3>3. step[k][g[n]] \in FileLists
      BY <1>0, <3>1, <3>2
    <3> QED
      BY <3>3
  <2>3. ASSUME NEW k \in 1 .. n + 1
        PROVE  h[k] = step[k][h[k - 1]]
    <3>1. CASE k \in 1 .. n
      <4>1. h[k] = g[k] /\ h[k - 1] = g[k - 1]
        BY <3>1
      <4> QED
        BY <4>1, <3>1, <2>1
    <3>2. CASE k = n + 1
      <4>1. h[k] = step[k][g[n]] /\ h[k - 1] = g[n]
        BY <3>2
      <4> QED
        BY <4>1
    <3> QED
      BY <3>1, <3>2
  <2>4. h[0] = first
    BY <2>1
  <2>5. Builds(h, n + 1)
    <3> HIDE DEF h
    <3> QED
      BY <2>3, <2>4
  <2>6. n + 1 \in Nat
    OBVIOUS
  <2> HIDE DEF h, Builds
  <2> QED
    BY <2>2, <2>5, <2>6
<1>3. N \in T
  <2> HIDE DEF T
  <2> QED
    BY <1>1, <1>2, SetInduction
<1> QED
  BY <1>3

\* The programs are a sequence of files of the card.
LEMMA ExecutablesListed ==
  ASSUME card \in Cards
  PROVE  Executables \in Seq(Entries)
<1> DEFINE N == Len(card)
           listed(k, l) == IF is_executable(card[k]) THEN Append(l, card[k]) ELSE l
           step == [k \in Nat |-> [l \in Seq(Entries) |-> IF k \in 1 .. N THEN listed(k, l) ELSE l]]
           body(g) == [i \in 0 .. N |-> IF i = 0 THEN <<>> ELSE listed(i, g[i - 1])]
           f == CHOOSE g : g = body(g)
<1>1. card \in Seq(Entries) /\ N \in Nat
  BY ShellAssumption
<1>2. ASSUME NEW k \in 1 .. N, NEW l \in Seq(Entries)
      PROVE  listed(k, l) \in Seq(Entries)
  <2>1. card[k] \in Entries
    BY <1>1
  <2>2. \A e \in Entries : Append(l, e) \in Seq(Entries)
    OBVIOUS
  <2> QED
    BY <2>1, <2>2
<1>3. Executables = f[N]
  <2>1. \A g : body(g) = [i \in 0 .. Len(card) |->
                           IF i = 0 THEN <<>>
                           ELSE IF is_executable(card[i]) THEN Append(g[i - 1], card[i])
                           ELSE g[i - 1]]
    OBVIOUS
  <2> QED
    BY DEF Executables
<1> HIDE DEF listed, N
<1>4. step \in [Nat -> [Seq(Entries) -> Seq(Entries)]]
  BY <1>2
<1>5. PICK g \in [0 .. N -> Seq(Entries)] :
         g[0] = <<>> /\ \A k \in 1 .. N : g[k] = step[k][g[k - 1]]
  <2> DEFINE empty == <<>>
  <2>1. N \in Nat /\ empty \in FileLists /\ step \in [Nat -> [FileLists -> FileLists]]
    BY <1>1, <1>4 DEF FileLists
  <2> HIDE DEF step, empty
  <2>2. \E g \in [0 .. N -> FileLists] :
           g[0] = empty /\ \A k \in 1 .. N : g[k] = step[k][g[k - 1]]
    BY <2>1, RecursiveLists
  <2> QED
    BY <2>2 DEF FileLists, empty
<1>6. \A k \in 1 .. N : g[k] = listed(k, g[k - 1])
  <2> SUFFICES ASSUME NEW k \in 1 .. N
               PROVE  g[k] = listed(k, g[k - 1])
    OBVIOUS
  <2>1. k \in Nat /\ g[k - 1] \in Seq(Entries)
    BY <1>1
  <2>2. step[k][g[k - 1]] = listed(k, g[k - 1])
    BY <2>1
  <2> QED
    BY <1>5, <2>2
<1>7. g = body(g)
  BY <1>1, <1>5, <1>6
<1>8. f = body(f)
  <2> HIDE DEF body
  <2> QED
    BY <1>7
<1> HIDE DEF f
<1>9. f[0] = <<>> /\ \A k \in 1 .. N : f[k] = listed(k, f[k - 1])
  BY <1>1, <1>8
<1> DEFINE T == { n \in Nat : n <= N => f[n] = g[n] }
<1>10. 0 \in T
  BY <1>5, <1>9
<1>11. ASSUME NEW n \in Nat, n \in T
       PROVE  n + 1 \in T
  <2> SUFFICES ASSUME n + 1 <= N PROVE f[n + 1] = g[n + 1]
    OBVIOUS
  <2>1. f[n] = g[n] /\ n + 1 \in 1 .. N /\ (n + 1) - 1 = n
    BY <1>1, <1>11
  <2> QED
    BY <1>6, <1>9, <2>1
<1>12. N \in T
  <2> HIDE DEF T
  <2> QED
    BY <1>1, <1>10, <1>11, SetInduction
<1>13. f[N] = g[N]
  BY <1>1, <1>12
<1> QED
  BY <1>1, <1>3, <1>5, <1>13
\* A set of numbers has a least one.
LEMMA LeastExists ==
  ASSUME NEW S, S \subseteq Nat, S # {}
  PROVE  Min(S) \in S
<1>1. LessThan = OpToRel(<, Nat)
  BY DEF LessThan, OpToRel
<1>2. PICK m \in S : \A y \in S : <<y, m>> \notin LessThan
  BY <1>1, NatLessThanWellFounded, WFMin
<1>3. ASSUME NEW y \in S
      PROVE  m <= y
  <2>1. m \in Nat /\ y \in Nat /\ <<y, m>> \notin LessThan
    BY <1>2
  <2>2. y < m => <<y, m>> \in LessThan
    BY <2>1 DEF LessThan
  <2> QED
    BY <2>1, <2>2
<1>4. \A y \in S : m <= y
  BY <1>3
<1> QED
  BY <1>4 DEF Min

-------------------------------------------------------------------------------
(* The loader.                                                             *)

\* A file that a card holds: its sections are at addresses of the memory.
LEMMA FileSections ==
  ASSUME NEW f \in Entries
  PROVE  /\ DOMAIN f.sections \subseteq Addresses
         /\ Len(f.sections) \in Nat /\ DOMAIN f.sections = 1 .. Len(f.sections)
<1>1. f.sections \in Seq(Range(f.sections))
  BY ShellAssumption
<1> QED
  BY <1>1 DEF Addresses

\* Once all the sections of a file are read, memory holds what they say.
LEMMA LoadsWhole ==
  ASSUME NEW f \in Entries, f.whole = Len(f.sections),
         NEW a \in DOMAIN f.sections, f.sections[a].alloc
  PROVE  /\ f.sections[a].type \in LOADED => Load(f)[a] = <<f.name, a>>
         /\ f.sections[a].type = "nobits" => Load(f)[a] = <<"zero", a>>
<1>1. a \in Addresses /\ a <= f.whole
  BY FileSections
<1>2. Load(f)[a] = Contents(f, a)
  BY <1>1 DEF Load
<1>3. f.sections[a].type \in LOADED => Contents(f, a) = <<f.name, a>>
  BY DEF Contents, LOADED
<1>4. f.sections[a].type = "nobits" => Contents(f, a) = <<"zero", a>>
  BY DEF Contents, LOADED
<1> QED
  BY <1>2, <1>3, <1>4

\* A program that can be loaded starts at program code.
LEMMA StartsAtText ==
  ASSUME NEW f \in Entries, f.ext = "elf", f.whole = Len(f.sections)
  PROVE  f.sections[TextAddress(f)].type = "progbits"
<1> DEFINE S == { a \in DOMAIN f.sections :
                    f.sections[a].alloc /\ f.sections[a].type = "progbits" }
<1>1. S # {}
  BY ShellAssumption
<1>2. S \subseteq Nat
  BY FileSections
<1>3. TextAddress(f) = Min(S)
  BY DEF TextAddress
<1>4. Min(S) \in S
  <2> HIDE DEF S
  <2> QED
    BY <1>1, <1>2, LeastExists
<1> QED
  BY <1>3, <1>4

\* A program that runs is the file asked for, with all its sections in memory.
LEMMA ExecRuns ==
  ASSUME NEW f \in Entries, f.ext = "elf", NEW failed, NEW runs, failed # runs,
         Exec(f, failed, runs), at' = runs
  PROVE  /\ running'.file = f
         /\ \A a \in DOMAIN f.sections :
               f.sections[a].alloc =>
                  /\ f.sections[a].type \in LOADED => memory'[a] = <<f.name, a>>
                  /\ f.sections[a].type = "nobits" => memory'[a] = <<"zero", a>>
         /\ f.sections[running'.start].type = "progbits"
<1>1. /\ f.whole = Len(f.sections)
      /\ memory' = Load(f)
      /\ running' = [file |-> f, start |-> TextAddress(f)]
  BY DEF Exec
<1> QED
  BY <1>1, LoadsWhole, StartsAtText

\* Where Exec leads.
LEMMA ExecPlaces ==
  ASSUME NEW f, NEW failed, NEW runs, Exec(f, failed, runs)
  PROVE  at' \in {failed, runs} /\ (f = NoFile => at' = failed)
BY DEF Exec

-------------------------------------------------------------------------------
(* The screen.                                                             *)

\* The position that the commander keeps is on the list, if there is one.
LEMMA ConstrainedInList ==
  ASSUME NEW s \in Int, NEW n \in Nat
  PROVE  /\ Constrained(s, n) \in Int
         /\ n > 0 => Constrained(s, n) \in 0 .. n - 1
         /\ s \in 0 .. n - 1 => Constrained(s, n) = s
<1> DEFINE low == Max({s, 0})
<1>1. low \in Int /\ low >= 0 /\ (s >= 0 => low = s)
  BY DEF Max
<1>2. Constrained(s, n) = IF low >= n THEN n - 1 ELSE low
  BY DEF Constrained
<1> HIDE DEF low
<1> QED
  BY <1>1, <1>2

\* The selected file is on the screen, wherever it was scrolled to.
LEMMA RevealsSelected ==
  ASSUME sel \in Int, from \in Int
  PROVE  Revealed \in Int /\ sel >= Revealed /\ sel < Revealed + SCREEN_LINES
<1> DEFINE low == Min({from, sel})
<1>1. low \in Int /\ low <= sel
  BY DEF Min
<1>2. SCREEN_LINES \in Nat \ {0} /\ sel - SCREEN_LINES + 1 \in Int
  BY ShellAssumption
<1>3. Revealed = Max({low, sel - SCREEN_LINES + 1})
  BY DEF Revealed
<1> HIDE DEF low
<1>4. Revealed \in {low, sel - SCREEN_LINES + 1} /\ Revealed >= low /\ Revealed >= sel - SCREEN_LINES + 1
  BY <1>1, <1>2, <1>3 DEF Max
<1> QED
  BY <1>1, <1>2, <1>4
-------------------------------------------------------------------------------
(* The invariant.                                                          *)

\* The processor starts with a position of 0, no list and a screen that was never drawn.
LEMMA ShellStarts == ShellInit => ShellInv
<1> SUFFICES ASSUME ShellInit PROVE ShellInv
  OBVIOUS
<1>1. card \in Cards /\ at = "main" /\ sel = 0 /\ from = 0
  BY DEF ShellInit
<1> QED
  BY <1>1 DEF ShellInv, Listed, StartsWhole

\* The list depends on the card alone.
LEMMA SameCard ==
  ASSUME ShellInv
  PROVE  /\ Executables \in Seq(Entries) /\ Len(Executables) \in Nat
         /\ DOMAIN Executables = 1 .. Len(Executables)
         /\ Executables # <<>> => Len(Executables) > 0
         /\ card' = card => Executables' = Executables
<1>1. Executables \in Seq(Entries)
  BY ExecutablesListed DEF ShellInv
<1>2. card' = card => Executables' = Executables
  BY DEF Executables
<1> HIDE DEF Executables
<1> QED
  BY <1>1, <1>2

\* The start of the commander lists the card, and has the screen drawn.
LEMMA MainStep ==
  ASSUME ShellInv, Main
  PROVE  ShellInv'
<1>1. /\ card' = card /\ sel' = sel /\ from' = from /\ stale'
      /\ \/ at' = "constrain" /\ nb' = Len(Executables)
         \/ at' = "stopped"
  BY DEF Main
<1> QED
  BY <1>1, SameCard DEF ShellInv, Listed, StartsWhole

\* A button moves the position, has the screen drawn, or starts what is marked.
LEMMA ButtonStep ==
  ASSUME ShellInv, Button
  PROVE  ShellInv'
<1>0. /\ at = "button" /\ card' = card /\ from' = from /\ nb' = nb /\ screen' = screen
      /\ nb = Len(Executables) /\ Marked /\ sel \in Int /\ from \in Int /\ card \in Cards
  BY DEF Button, ShellInv, Listed
<1>1. PICK pressed \in SUBSET Buttons, key \in KeyCodes :
        LET btn == GUI_button(pressed, key)
        IN  /\ btn_state' = pressed
            /\ sel' = CASE btn = 2 -> sel - 1 [] btn = 3 -> sel + 1 [] OTHER -> sel
            /\ stale' = (btn \notin {0, -1})
            /\ IF btn = 5 THEN CallExec
               ELSE /\ at' = IF btn = 4 THEN "shell" ELSE "constrain"
                    /\ UNCHANGED <<open, memory, running>>
            /\ line' = <<>>
  BY DEF Button
<1> DEFINE btn == GUI_button(pressed, key)
<1>2. /\ sel' = CASE btn = 2 -> sel - 1 [] btn = 3 -> sel + 1 [] OTHER -> sel
      /\ stale' <=> btn \notin {0, -1}
      /\ btn = 5 => CallExec
      /\ btn # 5 => at' = IF btn = 4 THEN "shell" ELSE "constrain"
  BY <1>1
<1> HIDE DEF btn
<1>3. sel' \in Int /\ (btn \notin {2, 3} => sel' = sel)
  BY <1>0, <1>2
<1>4. CASE btn # 5
  <2>1. /\ at' = "constrain" \/ (at' = "shell" /\ stale')
        /\ ~stale' => sel' = sel
    BY <1>2, <1>3, <1>4
  <2>2. ~stale' => Marked'
    BY <1>0, <2>1, SameCard DEF Marked
  <2> QED
    BY <1>0, <1>3, <2>1, <2>2, SameCard DEF ShellInv, Listed, StartsWhole
<1>5. CASE btn = 5
  <2>1. stale' /\ sel' = sel /\ CallExec
    BY <1>2, <1>3, <1>5
  <2>2. CASE at' = "program"
    <3>1. sel + 1 \in DOMAIN Executables /\ Executables[sel + 1].ext = "elf"
          /\ Exec(Executables[sel + 1], "stopped", "program")
      BY <2>1, <2>2 DEF CallExec
    <3>2. PICK f \in Entries : f = Executables[sel + 1]
      BY <3>1, SameCard
    <3>3. screen.marked = f
      BY <1>0, <3>1, <3>2, SameCard DEF Marked
    <3>4. StartsWhole'
      BY <1>0, <2>2, <3>1, <3>2, <3>3, ExecRuns DEF StartsWhole
    <3> QED
      BY <1>0, <1>3, <2>1, <2>2, <3>4, SameCard DEF ShellInv, Listed
  <2>3. CASE at' # "program"
    <3>1. at' \in {"constrain", "stopped"}
      BY <2>1, <2>3, ExecPlaces DEF CallExec
    <3> QED
      BY <1>0, <1>3, <2>1, <3>1, SameCard DEF ShellInv, Listed, StartsWhole
  <2> QED
    BY <2>2, <2>3
<1> QED
  BY <1>4, <1>5

\* The position is brought back to the list. If it was not moved, the mark still holds.
LEMMA ConstrainStep ==
  ASSUME ShellInv, Constrain
  PROVE  ShellInv'
<1>0. /\ at = "constrain" /\ card' = card /\ from' = from /\ nb' = nb /\ screen' = screen
      /\ stale' = stale /\ sel' = Constrained(sel, nb)
      /\ at' = IF stale THEN "redraw" ELSE "button"
      /\ nb = Len(Executables) /\ sel \in Int /\ from \in Int /\ card \in Cards
      /\ ~stale => Marked
  BY DEF Constrain, ShellInv, Listed
<1>1. nb \in Nat /\ (Executables # <<>> => nb > 0)
  BY <1>0, SameCard
<1>2. /\ sel' \in Int /\ (nb > 0 => sel' \in 0 .. nb - 1)
      /\ sel \in 0 .. nb - 1 => sel' = sel
  BY <1>0, <1>1, ConstrainedInList
<1>3. CASE stale
  BY <1>0, <1>1, <1>2, <1>3, SameCard DEF ShellInv, Listed, StartsWhole
<1>4. CASE ~stale
  <2>1. Executables # <<>> => sel' = sel
    <3>1. Executables # <<>> => sel + 1 \in 1 .. nb
      BY <1>0, <1>4, SameCard DEF Marked
    <3> QED
      BY <1>0, <1>1, <1>2, <3>1
  <2>2. Marked'
    BY <1>0, <1>4, <2>1, SameCard DEF Marked
  <2> QED
    BY <1>0, <1>2, <1>4, <2>2, SameCard DEF ShellInv, Listed, StartsWhole
<1> QED
  BY <1>3, <1>4

\* The screen is drawn around the position, which it then marks.
LEMMA RedrawStep ==
  ASSUME ShellInv, Redraw
  PROVE  ShellInv'
<1>0. /\ at = "redraw" /\ card' = card /\ sel' = sel /\ from' = Revealed
      /\ nb' = Len(Executables) /\ screen' = refresh(Revealed, sel) /\ at' = "button"
      /\ nb = Len(Executables) /\ sel \in Int /\ from \in Int /\ card \in Cards
      /\ Executables # <<>> => sel \in 0 .. nb - 1
  BY DEF Redraw, ShellInv, Listed
<1>1. Revealed \in Int /\ sel >= Revealed /\ sel < Revealed + SCREEN_LINES
  BY <1>0, RevealsSelected
<1>2. ASSUME Executables # <<>>
      PROVE  sel + 1 \in DOMAIN Executables /\ screen'.marked = Executables[sel + 1]
  <2> DEFINE shown == { i \in DOMAIN Executables : i - 1 >= Revealed /\ i - 1 < Revealed + SCREEN_LINES }
  <2>1. sel + 1 \in DOMAIN Executables /\ (sel + 1) - 1 = sel
    BY <1>0, <1>2, SameCard
  <2>2. sel + 1 \in shown
    BY <1>1, <2>1
  <2>3. refresh(Revealed, sel).marked = IF sel + 1 \in shown THEN Executables[sel + 1] ELSE NoFile
    BY DEF refresh
  <2> QED
    BY <1>0, <2>1, <2>2, <2>3
<1>3. Marked'
  BY <1>0, <1>2, SameCard DEF Marked
<1> QED
  BY <1>0, <1>1, <1>3, SameCard DEF ShellInv, Listed, StartsWhole
\* The command line leads back to the menu with the screen to be drawn, or starts a file.
LEMMA ShellKeyStep ==
  ASSUME ShellInv, ShellKey
  PROVE  ShellInv'
<1>0. /\ at = "shell" /\ UNCHANGED <<card, sel, from, nb, stale, screen>>
      /\ nb = Len(Executables) /\ sel \in Int /\ from \in Int /\ card \in Cards /\ stale
  BY DEF ShellKey, ShellInv, Listed
<1>1. \/ at' \in {"constrain", "shell"}
      \/ /\ at' = "program of the shell"
         /\ Exec(Named(FirstWord), "shell", "program of the shell")
  <2>1. PICK c \in Typed :
          CASE c = "cr" -> line' = <<>> /\ shell_exec
            [] c = "bs" -> /\ line' = IF line = <<>> THEN line ELSE Front(line)
                           /\ UNCHANGED <<at, open, memory, running>>
            [] OTHER    -> /\ line' = IF Len(line) < LINE_LEN THEN Append(line, c) ELSE line
                           /\ UNCHANGED <<at, open, memory, running>>
    BY DEF ShellKey
  <2>2. shell_exec \/ at' = at
    <3> HIDE DEF shell_exec
    <3> QED
      BY <2>1
  <2>3. shell_exec => \/ at' \in {"constrain", "shell"}
                      \/ Exec(Named(FirstWord), "shell", "program of the shell")
    BY DEF shell_exec
  <2> QED
    BY <1>0, <2>2, <2>3, ExecPlaces
<1>2. CASE at' \in {"constrain", "shell"}
  BY <1>0, <1>2, SameCard DEF ShellInv, Listed, StartsWhole
<1>3. CASE /\ at' = "program of the shell"
           /\ Exec(Named(FirstWord), "shell", "program of the shell")
  <2>1. Named(FirstWord) # NoFile
    BY <1>3 DEF Exec
  <2>2. PICK f \in Entries : f = Named(FirstWord) /\ f.ext = "elf"
    <3> DEFINE word  == FirstWord
               found == { f \in Range(card) : f.ext = "elf" /\ word = <<f.name>> }
    <3>1. found # {} /\ Named(word) = CHOOSE f \in found : TRUE
      BY <2>1 DEF Named
    <3>2. Named(word) \in found
      <4> HIDE DEF found
      <4> QED
        BY <3>1
    <3>3. Named(word) \in Range(card) /\ Named(word).ext = "elf"
      BY <3>2
    <3>4. Range(card) \subseteq Entries
      BY <1>0 DEF Entries
    <3> QED
      BY <3>3, <3>4
  <2>3. StartsWhole'
    BY <1>3, <2>2, ExecRuns DEF StartsWhole
  <2> QED
    BY <1>0, <1>3, <2>3, SameCard DEF ShellInv, Listed
<1> QED
  BY <1>1, <1>2, <1>3

\* A program that ends stops the processor, or falls back to the command line.
LEMMA EndStep ==
  ASSUME ShellInv, ProgramEnds
  PROVE  ShellInv'
<1>0. /\ UNCHANGED <<card, sel, from, nb, stale, screen>>
      /\ \/ at' = "stopped"
         \/ at = "program of the shell" /\ at' = "shell"
      /\ sel \in Int /\ from \in Int /\ card \in Cards
  BY DEF ProgramEnds, ShellInv
<1>1. at = "program of the shell" => nb = Len(Executables) /\ stale
  BY DEF ShellInv, Listed
<1> QED
  BY <1>0, <1>1, SameCard DEF ShellInv, Listed, StartsWhole

\* A reset keeps the position, and the next start lists the card again.
LEMMA ResetStep ==
  ASSUME ShellInv, Reset
  PROVE  ShellInv'
BY DEF ShellInv, Reset, Listed, StartsWhole

-------------------------------------------------------------------------------
(* The theorems.                                                           *)

\* Whatever a user presses and types, whatever is on the cards and whenever the processor
\* is reset, the commander keeps its list and its screen in agreement.
THEOREM ShellInvariant == ShellSpec => []ShellInv
<1>1. ShellInv /\ [ShellNext]_shellVars => ShellInv'
  <2> SUFFICES ASSUME ShellInv, [ShellNext]_shellVars PROVE ShellInv'
    OBVIOUS
  <2>1. CASE Main
    BY <2>1, MainStep
  <2>2. CASE Button
    BY <2>2, ButtonStep
  <2>3. CASE Constrain
    BY <2>3, ConstrainStep
  <2>4. CASE Redraw
    BY <2>4, RedrawStep
  <2>5. CASE ShellKey
    BY <2>5, ShellKeyStep
  <2>6. CASE ProgramEnds
    BY <2>6, EndStep
  <2>7. CASE Reset
    BY <2>7, ResetStep
  <2>8. CASE UNCHANGED shellVars
    <3>1. Executables' = Executables
      BY <2>8, SameCard DEF shellVars
    <3> QED
      BY <2>8, <3>1 DEF shellVars, ShellInv, Listed, Marked, StartsWhole
  <2> QED
    BY <2>1, <2>2, <2>3, <2>4, <2>5, <2>6, <2>7, <2>8 DEF ShellNext
<1> QED
  BY <1>1, ShellStarts, PTL DEF ShellSpec

\* The file that a button would start is on the screen and marked.
THEOREM StartsWhatIsMarked == ShellSpec => []MarkedIsSelected
<1>1. ShellInv => MarkedIsSelected
  <2> SUFFICES ASSUME ShellInv PROVE MarkedIsSelected
    OBVIOUS
  <2>1. Executables = <<>> => DOMAIN Executables = {}
    OBVIOUS
  <2> QED
    BY <2>1 DEF ShellInv, MarkedIsSelected, Marked
<1> QED
  BY <1>1, ShellInvariant, PTL

\* A program that starts finds itself whole in memory, starts at its text and is the one
\* that was marked.
THEOREM ProgramsStartWhole == ShellSpec => []StartsWhole
<1>1. ShellInv => StartsWhole
  BY DEF ShellInv
<1> QED
  BY <1>1, ShellInvariant, PTL

===============================================================================
