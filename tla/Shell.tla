--------------------------------- MODULE Shell ---------------------------------
(***************************************************************************)
(* FemtOS: the commander that lists the programs of the card and starts    *)
(* the one that is marked (commander.c), its command line, the buttons and *)
(* keys it reads (femto_GUI.c, keyboard.c) and the loader of ELF files     *)
(* (exec.c, femto_elf.c).                                                  *)
(*                                                                         *)
(* A program that ends stops the processor until somebody resets it, with  *)
(* the same card or another one. RAM outlives a reset: what the commander  *)
(* keeps in globals, and what the last program left behind.                *)
(***************************************************************************)
EXTENDS Integers, Sequences, FiniteSets, SequencesExt

CONSTANTS Cards,                  \* directories: sequences of files
          SCREEN_LINES,           \* lines on the screen (16)
          LINE_LEN,               \* characters a command line takes (PATH_LEN - 2)
          MAX_OPEN_FILES,         \* FATFS_MAX_OPEN_FILES
          Buttons,                \* the buttons of the board, of 0 .. 5
          Typed                   \* what is typed in the shell: words, " ", "bs", "cr"

VARIABLES card,
          at,                     \* where the processor is
          sel, from, nb,          \* the selected file, the first on the screen, how many
          stale,                  \* the screen has to be drawn again (btn of main)
          btn_state,              \* of GUI_button
          screen,                 \* the files refresh has listed, and the one it marked
          line,                   \* the command line
          open,                   \* names of the files that are open
          memory,                 \* what is at the address of each section
          running                 \* the program that was started, at its text_address

shellVars == <<card, at, sel, from, nb, stale, btn_state, screen, line, open, memory, running>>

NoFile    == [name |-> "none", ext |-> "none", sections |-> <<>>, whole |-> 0]
Nothing   == [file |-> NoFile, start |-> 0]
Entries   == UNION { Range(c) : c \in Cards }
Addresses == UNION { DOMAIN f.sections : f \in Entries }

\* Loaded from the file: PROGBITS, INIT_ARRAY and FINI_ARRAY.
LOADED    == {"progbits", "init_array", "fini_array"}

\* A program that can be loaded has a text.
ASSUME ShellAssumption ==
    /\ Cards \subseteq Seq(Entries)
    /\ SCREEN_LINES \in Nat \ {0}
    /\ \A f \in Entries :
          /\ f.sections \in Seq(Range(f.sections))
          /\ f.ext = "elf" /\ f.whole = Len(f.sections) =>
                \E a \in DOMAIN f.sections :
                   f.sections[a].alloc /\ f.sections[a].type = "progbits"

is_executable(f) == f.ext \in {"bin", "elf"}

\* The programs of the card, in the order of its directory.
Executables ==
    LET found[i \in 0 .. Len(card)] ==
            IF i = 0 THEN <<>>
            ELSE IF is_executable(card[i]) THEN Append(found[i - 1], card[i])
            ELSE found[i - 1]
    IN  found[Len(card)]

\* What GUI_button makes of the keys: the codes it knows and one that it does not.
KeyCodes == {"KEY_UP", "KEY_DOWN", "KEY_LEFT", "KEY_RIGHT", "none"}

-------------------------------------------------------------------------------
(* The loader. A file has the sections its header lists and whole says how *)
(* many of them can be read; it is -1 if the header itself is bad.         *)

\* What a section puts at its address, if memory is taken for cleared.
ContentsNoBss(f, a) ==
    IF f.sections[a].alloc /\ f.sections[a].type \in LOADED THEN <<f.name, a>> ELSE memory[a]

\* What a section puts at its address.
Contents(f, a) ==
    LET s == f.sections[a]
    IN  CASE ~s.alloc           -> memory[a]
          [] s.type \in LOADED  -> <<f.name, a>>
          [] s.type = "nobits"  -> <<"zero", a>>
          [] OTHER              -> memory[a]

\* The memory once the sections up to the first that cannot be read are loaded.
Load(f) ==
    [a \in Addresses |->
       IF a \in DOMAIN f.sections /\ a <= f.whole THEN Contents(f, a)
       ELSE IF a \in DOMAIN f.sections /\ a = f.whole + 1 THEN <<"part of", f.name>>
       ELSE memory[a]]

\* The first section with program code, which is taken for the text.
TextAddress(f) ==
    Min({ a \in DOMAIN f.sections : f.sections[a].alloc /\ f.sections[a].type = "progbits" })

CanOpen(f) == f.name \notin open /\ Cardinality(open) < MAX_OPEN_FILES

\* exec: the file f, or one that is not there, with where to go if it fails and if it
\* runs. A load that fails leaves the file open.
Exec(f, failed, runs) ==
    \/ /\ f = NoFile \/ ~CanOpen(f)
       /\ at' = failed
       /\ UNCHANGED <<open, memory, running>>
    \/ /\ f # NoFile /\ CanOpen(f) /\ f.whole < Len(f.sections)
       /\ open' = open \cup {f.name}
       /\ memory' = IF f.whole < 0 THEN memory ELSE Load(f)
       /\ at' = failed
       /\ UNCHANGED running
    \/ /\ f # NoFile /\ CanOpen(f) /\ f.whole = Len(f.sections)
       /\ memory' = Load(f)
       /\ running' = [file |-> f, start |-> TextAddress(f)]
       /\ at' = runs
       /\ UNCHANGED open

-------------------------------------------------------------------------------
(* The commander.                                                          *)

\* refresh: the files on the screen and the one that is marked.
refresh(first, marked) ==
    LET shown == { i \in DOMAIN Executables : i - 1 >= first /\ i - 1 < first + SCREEN_LINES }
    IN  [files |-> { Executables[i] : i \in shown },
         marked |-> IF marked + 1 \in shown THEN Executables[marked + 1] ELSE NoFile]

\* A commander that trusts the position it kept.
ConstrainedBelow(s, n) == Max({s, 0})

Constrained(s, n) == LET low == Max({s, 0}) IN IF low >= n THEN n - 1 ELSE low

\* The first line: no line below the selected one, and not so far up that it is off the screen.
Revealed == Max({Min({from, sel}), sel - SCREEN_LINES + 1})

\* The start of main, with a card that can be read or not.
Main ==
    /\ at = "main"
    /\ \/ /\ at' = "constrain"
          /\ open' = {}
          /\ screen' = refresh(from, sel)
          /\ nb' = Len(Executables)
       \/ at' = "stopped" /\ UNCHANGED <<open, screen, nb>>
    /\ stale' = TRUE
    /\ UNCHANGED <<card, sel, from, btn_state, line, memory, running>>

\* GUI_button: the lowest button that went down, or the key if it is one of its own.
GUI_button(pressed, key) ==
    CASE key = "KEY_UP"    -> 2
      [] key = "KEY_DOWN"  -> 3
      [] key = "KEY_RIGHT" -> 5
      [] key = "KEY_LEFT"  -> 4
      [] OTHER -> LET down == pressed \ btn_state IN IF down = {} THEN -1 ELSE Min(down)

\* call_exec: a file that is not an ELF file "runs" without an error; either way it stops.
CallExec ==
    IF sel + 1 \notin DOMAIN Executables
    THEN at' = "constrain" /\ UNCHANGED <<open, memory, running>>
    ELSE IF Executables[sel + 1].ext = "elf"
    THEN Exec(Executables[sel + 1], "stopped", "program")
    ELSE at' = "stopped" /\ UNCHANGED <<open, memory, running>>

Button ==
    /\ at = "button"
    /\ \E pressed \in SUBSET Buttons, key \in KeyCodes :
         LET btn == GUI_button(pressed, key)
         IN  /\ btn_state' = pressed
             /\ sel' = CASE btn = 2 -> sel - 1 [] btn = 3 -> sel + 1 [] OTHER -> sel
             /\ stale' = (btn \notin {0, -1})
             /\ IF btn = 5 THEN CallExec
                ELSE /\ at' = IF btn = 4 THEN "shell" ELSE "constrain"
                     /\ UNCHANGED <<open, memory, running>>
             /\ line' = <<>>
    /\ UNCHANGED <<card, from, nb, screen>>

Constrain ==
    /\ at = "constrain"
    /\ sel' = Constrained(sel, nb)
    /\ at' = IF stale THEN "redraw" ELSE "button"
    /\ UNCHANGED <<card, from, nb, stale, btn_state, screen, line, open, memory, running>>

Redraw ==
    /\ at = "redraw"
    /\ from' = Revealed
    /\ nb' = Len(Executables)
    /\ screen' = refresh(from', sel)
    /\ at' = "button"
    /\ UNCHANGED <<card, sel, stale, btn_state, line, open, memory, running>>

-------------------------------------------------------------------------------
(* The command line.                                                       *)

\* The first word of the command line, which may have been typed in pieces.
FirstWord ==
    LET letters == { i \in DOMAIN line : line[i] # " " }
        first   == Min(letters)
        after   == Min({ i \in first .. Len(line) + 1 : i = Len(line) + 1 \/ line[i] = " " })
    IN  IF letters = {} THEN <<>> ELSE SubSeq(line, first, after - 1)

Named(word) ==
    LET found == { f \in Range(card) : f.ext = "elf" /\ word = <<f.name>> }
    IN  IF found = {} THEN NoFile ELSE CHOOSE f \in found : TRUE

shell_exec ==
    CASE FirstWord = <<"exit">> -> at' = "constrain" /\ UNCHANGED <<open, memory, running>>
      [] FirstWord \in {<<>>, <<"ls">>} -> at' = "shell" /\ UNCHANGED <<open, memory, running>>
      [] OTHER -> Exec(Named(FirstWord), "shell", "program of the shell")

ShellKey ==
    /\ at = "shell"
    /\ \E c \in Typed :
         CASE c = "cr" -> line' = <<>> /\ shell_exec
           [] c = "bs" -> /\ line' = IF line = <<>> THEN line ELSE Front(line)
                          /\ UNCHANGED <<at, open, memory, running>>
           [] OTHER    -> /\ line' = IF Len(line) < LINE_LEN THEN Append(line, c) ELSE line
                          /\ UNCHANGED <<at, open, memory, running>>
    /\ UNCHANGED <<card, sel, from, nb, stale, btn_state, screen>>

-------------------------------------------------------------------------------
(* A program, which uses the memory of its sections, then returns or calls *)
(* exit. The commander calls exit for one that returns.                    *)
ProgramEnds ==
    /\ at \in {"program", "program of the shell"}
    /\ memory' = [a \in Addresses |->
                    IF a \in DOMAIN running.file.sections THEN <<"used", running.file.name>> ELSE memory[a]]
    /\ \/ at' = "stopped"
       \/ at = "program of the shell" /\ at' = "shell"
    /\ running' = Nothing
    /\ UNCHANGED <<card, sel, from, nb, stale, btn_state, screen, line, open>>

\* Somebody resets the processor, at any time, with this card or another one.
Reset ==
    /\ card' \in Cards
    /\ at' = "main"
    /\ line' = <<>> /\ running' = Nothing
    /\ UNCHANGED <<sel, from, nb, stale, btn_state, screen, open, memory>>

ShellInit ==
    /\ card \in Cards /\ at = "main"
    /\ sel = 0 /\ from = 0 /\ nb = 0
    /\ stale = TRUE /\ btn_state = {}
    /\ screen = [files |-> {}, marked |-> NoFile]
    /\ line = <<>> /\ open = {}
    /\ memory = [a \in Addresses |-> <<"power-up", a>>]
    /\ running = Nothing

ShellNext ==
    \/ Main \/ Button \/ Constrain \/ Redraw
    \/ ShellKey
    \/ ProgramEnds
    \/ Reset

ShellSpec == ShellInit /\ [][ShellNext]_shellVars

-------------------------------------------------------------------------------
\* While the commander waits for a button (main), the file it would start is on the screen
\* and marked, however the list was scrolled, whatever position was kept over a reset and
\* whatever card is in. A card without programs leaves nothing to start.
MarkedIsSelected ==
    at = "button" =>
      /\ Executables # <<>> => /\ sel + 1 \in DOMAIN Executables
                               /\ screen.marked = Executables[sel + 1]
      /\ Executables = <<>> => sel + 1 \notin DOMAIN Executables

\* A program that starts (exec_elf) finds all its sections as in its file and those without
\* contents cleared, whatever an earlier program or a load that failed left in memory; it
\* starts at its text; and from the commander it is the one that is marked.
StartsWhole ==
    at \in {"program", "program of the shell"} =>
      LET s == running.file.sections
      IN  /\ \A a \in DOMAIN s :
               s[a].alloc => /\ s[a].type \in LOADED => memory[a] = <<running.file.name, a>>
                             /\ s[a].type = "nobits" => memory[a] = <<"zero", a>>
          /\ s[running.start].type = "progbits"
          /\ at = "program" => running.file = screen.marked

-------------------------------------------------------------------------------
(* The inductive invariant.                                                *)

\* The commander has listed this card: in the menu, in its command line and while
\* a program runs.
Listed == at \in {"constrain", "redraw", "button", "shell", "program", "program of the shell"}

\* The file that a button would start is the one that is marked.
Marked ==
    Executables # <<>> => /\ sel + 1 \in DOMAIN Executables
                          /\ screen.marked = Executables[sel + 1]

\* The position is kept over a reset, and moved by a button, before it is constrained
\* to the list. A screen that need not be drawn again has not been moved either, and the
\* command line covers the screen.
ShellInv ==
    /\ card \in Cards
    /\ sel \in Int /\ from \in Int
    /\ Listed => nb = Len(Executables)
    /\ at = "redraw" => (Executables # <<>> => sel \in 0 .. nb - 1)
    /\ at \in {"shell", "program of the shell"} => stale
    /\ at = "button" \/ (at = "constrain" /\ ~stale) => Marked
    /\ StartsWhole

================================================================================
