------------------------------ MODULE MCPrograms -------------------------------
(***************************************************************************)
(* Four programs, of which a behaviour runs one while the others rest: the *)
(* commander of FemtOS, a program that draws with LIBFEMTOGL, the          *)
(* simulator's floating point unit, and the script that exports a forest.  *)
(*                                                                         *)
(* The commander has cards with no program, with one and with more than    *)
(* the screen has lines for; programs of two layouts, one cut short, one   *)
(* with a bad header, a .bin file and a document.                          *)
(***************************************************************************)
EXTENDS Shell, Terminal, SoftFpu, MCExportScript

VARIABLE runs

programVars == <<runs, shellVars, terminalVars, fpuVars, scriptVars>>

-------------------------------------------------------------------------------
Section(type, alloc) == [type |-> type, alloc |-> alloc]
File(name, ext, sections, whole) ==
    [name |-> name, ext |-> ext, sections |-> sections, whole |-> whole]

Small == <<Section("progbits", TRUE), Section("nobits", TRUE)>>
Large == <<Section("note", TRUE), Section("progbits", TRUE), Section("debug", FALSE),
           Section("init_array", TRUE), Section("nobits", TRUE)>>

Demo     == File("demo", "elf", Small, 2)
Game     == File("game", "elf", Large, 5)
Cut      == File("cut", "elf", Large, 3)
Bad      == File("bad", "elf", Small, -1)
Binary   == File("demo", "bin", <<>>, 0)
Document == File("text", "txt", <<>>, 0)

MCCards == { <<Document>>, <<Demo, Cut, Document, Bad, Game>>, <<Binary>> }

-------------------------------------------------------------------------------
\* A terminal that rests shows no text: it is on the adapter.
ShellRests    == ShellInit /\ card = <<Document>>
TerminalRests ==
    /\ FGA_mode = GL_MODE_FGA
    /\ frame = Blank(GL_MODE_FGA)
    /\ start_line = 0 /\ cursor_X = 0 /\ cursor_Y = 0
    /\ scrolling = FALSE /\ display_start_line = 0 /\ last_char_was_CR = FALSE
    /\ figure = None
FpuRests ==
    /\ op = "FEQ"
    /\ x = Number(0, 0, 0) /\ y = x /\ z = x
    /\ f = ZeroRegisters
    /\ program = <<>>
    /\ result = Pending

\* The script rests before a forest whose first tree is a leaf.
ScriptRests ==
    /\ integer_features = << [i \in Slot |-> 3] >>
    /\ model \in { source \in SourceForests : source[0] = Arrays(Leaf(0)) }
    /\ reference = Predictions(model, integer_features)
    /\ aligned = TRUE
    /\ phase = "check"
    /\ tree_index = 0
    /\ forest_memory = <<>>
    /\ packed_predictions = <<>>
    /\ written = 0

Init ==
    \/ runs = "commander" /\ TerminalRests /\ FpuRests /\ ScriptRests /\ ShellInit
    \/ runs = "drawing" /\ ShellRests /\ FpuRests /\ ScriptRests /\ TerminalInit
    \/ runs = "simulator" /\ ShellRests /\ TerminalRests /\ ScriptRests /\ FpuInit
    \/ runs = "script" /\ ShellRests /\ TerminalRests /\ FpuRests /\ ScriptInit

Next ==
    \/ /\ runs = "commander" /\ ShellNext
       /\ UNCHANGED <<runs, terminalVars, fpuVars, scriptVars>>
    \/ /\ runs = "drawing" /\ TerminalNext
       /\ UNCHANGED <<runs, shellVars, fpuVars, scriptVars>>
    \/ /\ runs = "simulator" /\ FpuNext
       /\ UNCHANGED <<runs, shellVars, terminalVars, scriptVars>>
    \/ /\ runs = "script" /\ ScriptNext
       /\ UNCHANGED <<runs, shellVars, terminalVars, fpuVars>>

Spec == Init /\ [][Next]_programVars

===============================================================================
