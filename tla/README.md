# A verification project for the FemtoSoC with a random forest

The repository is a fork of *learn-fpga*: a family of small RISC-V processors
(FemtoRV32), a system on chip around them (`src/FemtoRV/RTL/femtosoc.v`), its
devices, its firmware and a small operating system, FemtOS. What the fork adds is
an inference accelerator: a random forest engine in hardware, a firmware that runs
the Vehicle data set through it, and the Python scripts that train the forest,
export it and make the reference predictions.

The project has two halves. The *vehicle half* follows the added path from the
engine's registers up to the report the firmware makes of every sample, where the
parts have to agree about time: a pulse, a ready flag and a result, two memories
that can be written at any moment, three different resets. Around it are the
devices that work bit by bit while a program goes on: the flash, the serial port,
the displays. The *FemtOS half* follows a program from the SD card to the screen:
the driver of the card, the FAT library with its buffers, the shell with its
loader, the graphics library with its terminal, and the soft FPU of the simulator.

Contents: [Inventory](#inventory) - [Modules](#modules) -
[Code and model](#code-and-model) - [Runs](#runs) - [What was found](#what-was-found) -
[Fairness](#fairness) - [Proofs](#proofs) - [Not modelled](#not-modelled) - [Plan](#plan)

## Inventory

### Random forest engine - `RTL/PROCESSOR/random_forest_vehicle.sv`

*State.* A bank of 18 feature registers; `tree_memory`, four complete binary
heaps of 15 node words; one predicted class per tree; the state `rf_state`;
the outputs `ready` and `result`.
*Operations.* Two write ports that work in every state, reset included; `start`;
reset. IDLE takes a start when ready is 1, PREDICT walks all four trees in one
clock, AGGREGATE counts the votes, DONE raises ready.
*Interaction.* Driven by the random forest block of the SoC.
*Hard.* The memories may be written between the edge that takes start and the
edge that reads them. A start outside IDLE is lost without a trace. The feature
field of a node has 5 bits, the bank 18 registers. Only two bits of the class
select a vote counter.
*Correct when* a question is fixed by the edge that takes start, its answer is
the plurality of the votes with ties to the lowest class, an inference ends, and
the engine never gets stuck where it takes no start.

### Random forest block of the SoC - `RTL/femtosoc.v` 383-562

*State.* The register selector, a feature address, a tree address, the
registered start pulse.
*Operations.* The custom instructions (funct3 0 result, 1 status, 2 start,
3 feature, 7 node) and the IO registers `RF_ADDR` and `RF_DATA`.
*Hard.* start is registered, so ready falls two clocks after the instruction: a
poll that came earlier would see the ready of the inference before and the
program would fetch a stale result.
*Correct when* no polling program can see that difference: it looks like a
classifier that is busy from the start instruction on.

### Processor - `RTL/PROCESSOR/femtorv32_quark.v`

*State.* A four-state machine, the latched instruction, the registers, the
program counter, a serial shifter with a counter of its own.
*Hard.* The strobes are combinational in EXECUTE, so `custom_valid` and `io_wstrb`
act even in a cycle in which the processor is held in reset; the shifter counts
on through a reset; the distance between two accesses, which the block above
lives on, is a property of this machine.

### SoC glue - `RTL/femtosoc.v` 120-140, 564-615, 864; `RTL/DEVICES/LEDs.v`

*State.* The reset counter, five debug registers and a pulse an on-chip logic
analyser triggers on, the LEDs.
*Hard.* Three resets of different reach: the pin resets everything but the
memories and the LEDs; a UART break resets the processor alone. The analyser
samples five registers at a pulse that the write of one of them raises.
*Correct when* what it samples is of one sample, every sample in order.

### Vehicle firmware - `FIRMWARE/EXAMPLES/vehicle_rf/vehicle_rf_accuracy_test.c`

*State.* The loop counters, the prediction, the match counters, the cycle count.
*Operations.* Load 60 nodes; for each sample write 18 features, start, poll,
fetch, compare, write the debug registers, show the class; after a pass blink
the counters; for ever.
*Hard.* A sample is 18 instructions and the forest 60; a reset may fall between
any two. The poll loop has no timeout.
*Correct when* no inference starts on half-written inputs, the prediction is the
forest's for the sample it is reported for, and the samples keep coming.

### Exporter - `vehicle_experiment/scripts/10_export_cesar_vehicle.py`

*State.* The forest memory it fills tree by tree, its own predictions, the files
it has written.
*Operations.* Check the samples; turn each trained tree into a complete heap
(thresholds doubled and rounded, an early leaf copied down its subtree); simulate
the engine; write six files; compare with the reference predictions of
`08_generate_hard_vote_reference.py`. Every step may raise.
*Interaction.* Its headers are compiled into the firmware and the testbench.
*Hard.* A pointer tree with comparisons of reals becomes a heap with comparisons
of integers; the two must agree on samples nobody tested. `np.isclose` accepts a
threshold a little below an even number, for which they do not. The headers are
written before the comparison: a run that ends with an exception may leave new
files, or new and old ones, for the firmware.
*Correct when* an exported tree decides as the trained one, the simulation is the
engine, and success means equivalence.

### Mapped SPI flash - `RTL/DEVICES/MappedSPIFlash.v`

*State.* Two bit counters (READ, FAST_READ) or one clock counter (DUAL_IO), a
shift register in each direction or one for both, `CS_N`.
*Operations.* A read strobe sends a command and an address; the driver then
receives a word, byte-swapped, and raises `CS_N` a clock after the last bit.
*Interaction.* The processor fetches and loads from it and waits for `mem_rbusy`.
*Hard.* The driver has no reset, the processor has two, and either may come in
the middle of a read. A strobe is taken whatever is under way, but a chip that is
still selected takes the new command for nothing. In dual IO both ends drive the
same pins. The counters power up with any value.
*Correct when* every word the processor takes is that of the address it drives,
the pins have one driver, and a read that was cut short hangs nobody.

### UART - `RTL/DEVICES/uart.v`, `uart_picosoc_shrunk.v`, `LIBFEMTORV32/uart.S`

*State.* Receiver: a clock counter, a shift register, a one-byte buffer with its
valid bit, `brk`. Transmitter: a clock counter, a shift register.
*Hard.* The clocks of host and UART differ. A byte may be complete in the very
clock in which the program reads the byte before it; a control-C may be read away
before the break it causes. A store reloads the transmitter whatever is being
sent. No poll has a timeout.
*Correct when* bytes arrive unchanged, once and in order in both directions, a
control-C breaks, and `UART_putchar` returns.

### Displays - `RTL/DEVICES/MAX7219.v`, `SSD1351_1331.v`

*State.* A shift register, its bit counter, a clock divider; the OLED driver also
the wires CS, DC and RST.
*Interaction.* A store loads the register; `io_wbusy` is the OR of the busy wires
and the processor waits for it after every store to the IO page.
*Hard.* A store to *any* device suspends the shifter for a clock, and the divider
runs on. The clock of the OLED display never stops, so only CS tells a bit from
nothing. CLK may rise with the edge that changes DIN or CS. No driver has a reset.
*Correct when* a panel takes what is stored for it, in order and once, and
nothing else.

### FAT file library - `LIBFEMTORV32/fat_io_lib/`

*State.* The geometry found by a mount, one buffer for a sector of the table, one
for a sector of a directory, a hint for the next free cluster, two lists of
handles, each with a position, a buffered sector, a flag for unsaved bytes and the
last place it looked up in its chain.
*Operations.* Mount, open to read, write or append, read, write, seek, flush, close, remove,
make and list directories, characters and lines, format.
*Interaction.* Called by programs and by the loader; calls `disk_io`, the SD driver.
*Hard.* Three buffers stand between a call and the card, and each is written when
another sector is needed. Two files may have one short name. A chain is freed
through the buffer it is read through. Anything may fail, and few results are
looked at.
*Correct when* it is a store of named files, no cluster belongs to two of them,
nothing outside the volume is written, and a power cut spoils nothing but the
files that were being changed.

### SD card driver - `LIBFEMTORV32/spi_sd.c`

*State.* `sdhc_card`, and the state of its loops.
*Operations.* Initialisation with retries, reading and writing of sectors.
*Hard.* Every wait ends by a count, the byte of a busy card is the byte of an
accepted command, `sdhc_card` outlives a change of the card.
*Correct when* a sector is addressed in the unit the card uses, success means that
the call did what it says, and every call returns.

### FemtOS shell and loader - `FEMTOS/commander.c`, `femto_GUI.c`, `LIBFEMTORV32/femto_elf.c`, `exec.c`, `keyboard.c`

*State.* The selected file, the first one on the screen, the number of files, the
line typed so far, what is in memory.
*Hard.* All of it outlives a reset, with another card in the slot. Directories are
listed anew at every step, the mark and the selection are computed apart. A load
may fail half-way over the remains of another program.
*Correct when* the program that starts is the one that is marked, and starts with
all its sections as its file has them.

### Graphics library and terminal - `LIBFEMTOGL/`

*State.* The frame, the start line of the panel, the cursor, `scrolling`.
*Hard.* The terminal does not keep its text: scrolling is a start line and a row
that must be cleared in time. Lines and polygons are clipped with divisions that
round towards zero.
*Correct when* the panel shows the last lines that were printed and every figure
is the one asked for as far as it is on the screen.

### Soft FPU - `SIM/FPU_funcs.cpp`

*State.* Registers of sign, exponent and mantissa that the micro-programs of the FPU
work on.
*Hard.* Mantissas of twice the width, without rounding; cancellation; exponents at
either end; shifts by what the exponent says.
*Correct when* a result is off by less than a unit in the last place.

### Other parts

| Part | Sources | State and hard behaviour | Here |
|---|---|---|---|
| Engine testbench | `vehicle_experiment/tests/tb_random_forest_vehicle_cesar.sv` | Starts, waits for ready with a timeout, compares. | read, not modelled |
| SDRAM | `RTL/SDRAM/muchtoremember.v` | Sticky requests against refresh. | planned |
| Other processors | `PROCESSOR/femtorv32_*.v` | Interrupts (intermissum, gracilis), caches and a pipeline (tachyon, petitbateau). They lack the custom port. | planned: interrupts |
| Graphic adapter | `DEVICES/FGA.v` | Pixel pipelines. | left out: data, hardly control |
| Benchmarks and demos | `FIRMWARE/EXAMPLES`, COREMARK, DHRYSTONE | Sequential computations. | left out |
| Older forest demos | `FemtoRV/rf_*_test.c` | For an engine with four feature registers that the tree no longer has. | left out |
| ROAR, tutorials, Vivado project | `ROAR-development`, `FemtoRV/TUTORIALS`, `clean1` | Generator, teaching material, generated files. | left out |

## Modules

    DecisionForest             node words, walk, vote: pure operators
      RandomForest             the engine, one action per state, one step per clock
        RandomForestHistory    the engine with anything on its ports     -- implements --> Classifier
        RfPeripheral           the SoC's block around the engine, debug registers, LEDs
          VehicleSoC           the whole system, one step per clock      -- implements --> VehicleReport
    Quark                      the processor's state machine, its resets \ composed by VehicleSoC
    VehicleFirmware            the C program, one action per access      /
      ExportScript             the export of a trained tree, scikit-learn's decision, the script's
                               simulation; main of the exporter, one step per check, tree and file

    MappedSPIFlash             driver and chip (READ, FAST_READ)
      FlashSoC                 under the quark with addresses, RAM and the flash page
                                                                         -- implements --> MemoryPort
    UART                       receiver, break and transmitter
      Serial                   with a host that types, or UART_putchar and a host that reads
                                                                         -- implements --> SerialLink
    MAX7219, SSD1351           each display driver with the chip on its wires
      DisplaySoC               both under the quark                      -- implements --> DisplayLink, twice

    FatVolume                  card, mount, table, allocation, formatting
      FatDirectory             paths, long and short names, checksums; entries: find, add, update, mark
        FatCalls               the calls of fat_filelib.c
          FatLibrary           a program that makes them, with faults    -- implements --> FileStore
    SdDriver                   the driver and a card at the level of bytes
    Shell                      commander, shell, keys and buttons, loader
    Graphics                   lines, polygons, rectangles, pixels: operators over a frame
      Terminal                 a program that prints or draws            -- implements --> Teletype
    SoftFpu                    micro-programs and operations of the soft FPU

    MC*                        instances for TLC (a module without one has its .cfg directly)
    *Proof                     theorems: of FlashSoC, SoftFpu, (VehicleProof) DecisionForest,
                               ExportScript and VehicleSoC with RandomForestHistory, (SdProof)
                               SdDriver, (DevicesProof) Serial and DisplaySoC, (FirmwareProof)
                               FileStore and Shell, (TerminalProof, FigureProof) Terminal

The abstract specifications:

- `Classifier`, the accelerator: ask, reply with one of the answers that were right
  when the question was put, reset.
- `VehicleReport`, the system as the logic analyser sees it: the reports of a pass in
  order, each with the right running count, and a restart at any moment.
- `MemoryPort`, a slow memory: asked only when it is not busy, it answers with the word
  at the address.
- `SerialLink`, one direction of a serial line: a byte under way, a box of one byte,
  reads that lose and repeat nothing.
- `DisplayLink`, a panel that takes each item of a store once, in order, before the next.
- `FileStore`, files that are sequences of bytes and handles on them, which the modes
  `Erases` empty as they are opened; says which call may spoil which file.
- `Teletype`, a screen of text with a cursor, which scrolls.

The hardware modules share one clock, so a step of a composition is the
conjunction of the steps of its parts at one positive edge. Each part is an
operator with its inputs as parameters (`EngineClk(reset, start, featurePort,
treePort)`, `PeripheralClk(reset, bus)`), and the actions of `VehicleSoC` are the
cases of the processor's state machine. All primed variables are computed from
the unprimed ones, as non-blocking assignments are.

The FAT library is sequential C with many results that are or are not looked at.
There a C function is an operator from a record of all the library keeps to that
record changed, with `ok` and `val` for what the function returns; what follows a
call is a local operator that takes its outcome. A step of `FatLibrary` is one call
of a program, with the fault that befalls the card during it, if any (`Call`).

A component module may hold operators marked *Mutant*: the definition after it
as a plausible bug would have it. No specification uses them; PROJECT.json says
which property each of them breaks.

## Code and model

| Code | Model |
|---|---|
| node word, bits 31:27, 26:16, 15:8 | record `feature_idx`, `threshold_x2`, `class`; the zero bits are left out |
| task `traverse_tree` | `Walk`, `traverse_tree`; a read beyond the feature bank is X in Verilog and here any value, so both are sets |
| function `aggregate_predictions` | `Count`, `aggregate_predictions` |
| the two `always` blocks of the write ports | `FeatureStore`, `TreeStore`; a write beyond the array is ignored |
| the state machine | `Idle`, `Predict`, `Aggregate`, `Done`, `EngineReset` |
| registers without a power-up value | any value (`EngineInit`, `PowerUpForests`, ...) |
| decoding of custom-0 and of the IO page | `RfPeripheral`: `FeaturePort`, `TreePort`, `RegistersClk`, `custom_rdata`, `rf_rdata_raw`; address widths as `% 32` and `% 256` |
| quark states and wait conditions | `Quark`: an instruction is the set of decoder wires it raises |
| `reset_cnt`, `resetn`, `!uart_brk` | `ResetCounter`, `reset`, `cpuReset` of `Quark`; break is an input at any clock in `VehicleSoC` |
| debug registers, pulse, LEDs | `DebugClk`, `LedsClk` |
| the C program | `VehicleFirmware`: `pc` names the next device access; the C code up to the one after it belongs to that step |
| `tree_.children_left`, ..., `predict` of scikit-learn | `IsSourceTree`, `Decide`, `DecisionPath`, `predict`: external, as the scripts use them |
| `export_sklearn_node`, `fill_leaf_subtree`, `pack_node` | `HeapSource` (which node goes where), `pack_node`, `Accepts` (the `ValueError`s) |
| float thresholds, `np.isclose` | integers in units of 1 / (2 UNIT), `threshold_x2`, `isclose` |
| `main` of the exporter | `ExportScript`: an exception ends it in phase *raised* or *mismatch* |
| `cmd_addr`, `rcv_data`, `shifter` | sequences of bits, the most significant first |
| `state` with addresses | `FlashSoC`: `PC`, `loadstore_addr`, `mem_address`; an instruction is any of the kinds, of any address in use |
| the flash chip, the panels, the hosts of the UART, the SD card | `ChipClk`, `LedmtxChipClk`, `OledChipClk`, `HostClk`, `CardsAfter`: external, as the drivers' wires and bytes use them |
| `SSD1351`, `MAX7219` | `OledClk`, `LedmtxClk`, each in two halves, with and without a store on the bus |
| code between two accesses | any number of instructions of `OtherInstrs` |
| a sector | a kind (boot, info, links, directory, bytes, zero) and what is at its places; read as another kind it gives zeros or junk |
| an 8.3 name, a long name, its entries | sequences of letters; an entry of a long name holds `LFN_CHARS` of them instead of 13 |
| `struct fatfs`, `FL_FILE` | the record `m` of `FatLibrary`: `fs`, `fbuf`, `cur`, `files`, `free`, `open` |
| `sd_spi_cmd`, `sd_init`, `sd_readsector`, `sd_writesector` | `SdDriver`: one step per command or wait, bytes on the bus as what they mean |
| `main`, `refresh`, `shell`, `elf32_parse` | `Shell`: a step is a part of the loop of `main` (listing, button, constraint, drawing), a key on the command line, or the end of a program; a load, whatever becomes of it, is in the step that asks for it |
| rows of the panel | `frame`: a pixel is the background, ink, or a place in the glyph of a character |
| `class FPU` and the `_WITH_SOFT_FPU` functions | `f`, `Program`, `Step`: one step per micro-instruction |

## Runs

| Run | Question | Instance | States |
|---|---|---|---|
| `engine` | Does the engine implement `Classifier` whatever is on its ports, and does an inference end? | 2 trees of one comparison, one feature register, 2 feature indexes (one does not exist), 27 forests at power-up, node words with an existing and a missing register and a class above 3; every combination of start, reset and a write to either memory at every clock | 7826 |
| `soc` | Does the system report right predictions in order, and every sample for ever once the resets are over? | 1 tree, 2 features, 2 samples on both sides of the comparison, RESET and UART break at any clock | 380752 |
| `flash` | Does a program in flash and RAM take the right words, and never hang? | words of two bytes of two bits, addresses of three, two words of the flash in use, one of RAM; any counter at power-up; RESET and break at any clock | 107680 |
| `serial` | Does the program read what the host types, and the host what the program prints? | bytes of 3 bits, all eight, 30 + 2 clocks per bit; hosts that type with 30, 31 and 33 clocks, hosts that read with 28, 32 and 36; a read at any clock, calls at any distance | 103685 |
| `displays` | Does each panel take what is stored for it? | words of 4 bits, bytes of 3, the OLED clock divided by 2; any store, RESET and break at any clock | 165424 |
| `fat` | Is the library a store of named files, with every cluster in one of them? Does a power cut or a failed write spoil only what was being changed? | see below; up to 5 calls, or up to 4 with a fault after 0 to 5 operations of any of them | 45422 |
| `sd` | Are sectors addressed right, do calls tell the truth and return? | 4 kinds of card (none among them) of 3 sectors, up to 2 sectors per call, delays on both sides of every limit, 2 missed commands of each card, 1 reset, with the same card or any other in the slot | 329950 |
| `programs` | Does the export decide as scikit-learn, and does the script end well only then? Is what starts what is marked, and whole? Does the panel show the text, and is every figure the one asked for? Are results faithful? | one of four programs, see below | 1202229 |
| `fpu_host` | Do FEQ and FLT compare as the host does? No. | that of the soft FPU in `programs` | |
| `fat_careless` | Does mode w erase a file that is there? No. | that of `fat`, 2 calls of any program, no faults | |
| `stop_bit` | Is the stop bit on the wire when a host samples it in its middle? No. | that of `serial` | |
| `scanlines` | Is every row of a triangle filled by its edges? No. | that of the graphics library in `programs` | |

The last four runs end with a counterexample. Each states what a document of the code
says and the code does not do; see [What was found](#what-was-found).

*engine.* `AnswerIsPlurality` says that the vote is right; `Classifies` is the
refinement; under the fairness of the clock alone, `AnswersInTheEnd` says that an
inference ends.

*soc.* The real processor and the real firmware, and the resets:
`StartsOnLoadedInputs` (no inference on half-written memories),
`StartIsNeverDropped`, `PollSeesNoStaleReady`, `PredictionIsRight`,
`ReportIsOfOneSample` (what the analyser samples belongs together), and
`ReportsInOrder`, the refinement of `VehicleReport`. The case worth looking at is a
break during an inference: the engine runs on, the program loads the forest again
under it and must not start before it has ended. The reload is long enough even on
the smallest instance, three nodes; the proof needs only one.

*flash.* `TakesTheRightWord` is about the processor: in every clock in which it takes a
word from the bus, it is the one at the address it drives. `ReadsThroughPort` is the
refinement of `MemoryPort`, and says in addition that the processor never asks a busy
flash. `ProgramRuns` is about hanging. The history variable `asked` is -1 until the
processor has run, since it may power up in a state that strobes; the refinement starts
there. `DrainAssumption` says that the reset counter gives the driver's counters time to
run out: on a board, 2^21 clocks against at most 192. Nothing stores to a busy device
here; *displays* has that half.

*serial.* `TypingAssumption` and `ReadingAssumption` say how far the host's clock may be
off: sample k must fall into bit k. `SampleClock` makes the drift explicit, a bit takes
divider + 2 clocks. For 16 MHz and 115200 baud with eight bits a host that types may be about four
percent off. `busy` falls when the stop bit begins, and nothing in the code keeps a program from
the next call: `Store` may follow with the clock after the poll, and cuts the stop bit short, to two
clocks. So `ReadingAssumption` says nothing of that bit. There are two kinds of host. One samples the start
bit and the data in their middle, then waits until the line is high, and looks for the next start bit
(`CHECKS_STOP` is FALSE): for it `HostReceivesWhatIsPrinted` holds, as the stop bit begins high and the data bits
before it are whole. The other samples the stop bit in its middle, too, and reports a framing
error if it is low there; for it the same property does not hold, which is the run
`stop_bit`. `ReceivesWhatIsTyped` and `HostReceivesWhatIsPrinted` are the refinements of `SerialLink`, where
the next byte may follow with the very arrival of the last (see *Proofs*); `PutcharReturns` says that the
call does; `BreaksInTheEnd` that a control-C breaks also when the program reads it away first.

*displays.* `LedmtxTakesWhatIsStored` and `OledTakesWhatIsStored` are refinements of
`DisplayLink`. Where a wire changes with the very edge at which CLK rises, the chip
may see the old value or the new one: at the load of the LED matrix that may shift
in one bit too many, which the word's don't care bits (`DONT_CARE`) absorb; at the
end of an OLED store it may leave up to a bit of a next byte, which the chip forgets
when CS rises. The divider of the OLED clock is 2, that of a board up to 60 MHz.
Bytes of three bits are a stricter case than eight: fewer bits too many would
make a byte. One-hot addresses that select several registers at once are left out,
and so are stores of less than a word.

*fat.* Two cards: FAT16 with a partition table, 3 clusters of 2 sectors and a table with a fourth
link, and FAT32 with 10 clusters of 1. A sector has 2 bytes, 3 links or 3 entries, a short
name 2 + 1 letters, an entry of a long name 2 letters. The files are *ab*, *abd* in the
root, of which the second needs a long name, and *ab* in the folder *d*, which may be
missing; there are 2 handles, modes r, w and append with creation, reads of 3,
writes of three bytes as a block or a string and of a character, a line end among them, a seek into the middle,
formatting for either type. No file grows beyond 6 bytes, three clusters.

The program is *careful* (`Careful`): it opens in mode w only what is not there, and flushes before it seeks.
The abstract store has mode w empty a file, as the comment in `fl_fopen` has it, and loses nothing by
a seek; the library does neither, so that a program without such care does not find its files as the store
has them. That is the run `fat_careless`.

`KeepsFiles` is the
refinement of `FileStore`, with the content of a file read from the card as another
system would read it, by operators that use none of the library's code, plus what
only the handle's buffer has. `EachClusterHasOneOwner` is over all
chains, with what is in the table's buffer; `ReadsAreRight` is about what a read
returns, by blocks, characters and lines; `FindsWhatIsThere` that lookup and listing
find each file by its name and no removed one (in all spellings of a path when no file is open). `StaysOnTheVolume` is about the search for a free cluster, which
goes by the sectors of the table: it gives the fourth link's cluster away, past the end of the volume, but only
once all three on the volume are taken, and no other sector outside is ever written; no search is
endless. Five calls reach a second cluster, a full volume and the cluster past its end, and a removed file whose
entries are used again.

In half of the behaviours (`faulty`) calls may meet a fault (`fate`), and the store is not
compared. The power is cut after any operation on the card, or between two calls, and the
card is mounted again; or one write fails and the program goes on. The program opens files to append,
makes a folder, writes, flushes, closes and removes. A file is in
doubt, `Spoilt` in `content`, when the call that was cut or failed was about it, and it
stays so; the program leaves it alone but for closing it, and no second operation fails then. For every other file
`SettledFilesSurvive` says that the card has its name, its length and its bytes, whatever the program does
afterwards. Failed reads are left out: the
code cannot tell one from the end of a chain, and with them the property does not hold (see
[What was found](#what-was-found)). Deadlock is not checked, the calls are counted.

*sd.* A card answers at once, at the last byte that the driver waits for, or too late; it
refuses commands and blocks, and misses up to two commands. As many as a loop
makes tries (`RETRIES`, 8 on the board and 1 here) can make the driver take a card for one
of another kind: `AddressingIsRight` and `CallsTellTheTruth` are about cards that miss no more,
the latter by a comparison of the card before and after the call, a reset in between
included. `SdAssumption` has a card leave at least a byte's time before a block: the driver drops
one byte after the status, and a block is one item of the bus here. `CallsReturn` holds of every card, one that never answers among them. The
other limits only repeat the same states. Deadlock is not checked: without a card there
is nothing to do once the resets are used up.

*programs.* Four programs that share nothing, none of which waits for anything but its input. A behaviour runs
one of them, the others rest (`runs`), and each property is about one. Deadlock is
not checked: the script and the FPU end.

- *The script.* 2 trees, a heap of depth 2, 7 shapes from a leaf to a tree that is too deep, 9 thresholds in quarter
  units, every sample with features 0..2 and two that must be refused, the model's own reference or an
  older one. `EngineDecidesLikeTheModel` compares the walk of `DecisionForest` with the
  prediction of the trained tree; the thresholds include each case of rounding
  (exact, near an even and an odd number from either side, half-way, negative, too
  large). It is about trees that round safely (`RoundsSafely`); of the one threshold that does not, near an even number
  from below, `DoneMeansEquivalent` says that the script does not end well where a test sample tells.
  `SimulationIsTheEngine`, `HeaderIsWellFormed` and `NoFalseAlarm` say what else the script's verdict is worth.
- *The commander.* 3 cards of 1 to 5 files, two lines on the screen, two buttons, 8 words or keys. Two lines are
  enough for the list to scroll in both directions with four programs. `StartsWhole` compares memory with the
  file: also after a program that ended, a load that failed and a change of the card.
- *The graphics library.* A panel of 5 x 6, an adapter of 7 x 4, a font of 3 x 2, two characters; points up to 2 off the
  screen, polygons over a grid of 4 by 4. `ShowsTheText` is the refinement of `Teletype`: rows of text, cursor
  included, as the panel shows them from its start line on. `FiguresAreRight`: a line passes
  through every pixel that the true line runs right through and strays at most one and a half
  pixels from it, two where it is cut off at the border (`CUT` half pixels more; how much that
  takes depends on the size of the screen, see *Proofs*); every pixel inside of a triangle is
  filled and none that is one and a half pixels outside; rectangles are exact; a polygon that
  faces away is not drawn where culling is on. Two kinds of rows of a filled triangle are exempt, as the code gets them
  wrong: row 0 of the panel (`StoredRows`), and, for the pixels inside, the rows of a level rest at a corner
  (`LevelWithACorner`). `FillsEveryScanline` is the same of every row, and the run `scanlines` shows it violated.
  A figure is drawn on a fresh screen only, since it depends on nothing else but where
  the panel starts. `Garbage` is what the arrays of the polygon hold on the stack before. The panel is as wide as one
  character and two thirds of another, so text runs off the edge as the 6-pixel font does on 128 pixels.
- *The soft FPU.* 3 bits of exponent, 2 of mantissa; x and z with any exponent but the largest, y with those of 0 and
  3; 15 operations. Every branch of normalisation is taken (up, down, to zero, not at all) and every cancellation happens.
  `Faithful` compares with the exact sum or product, in integers. A result too large for the format is not
  covered: the code does not saturate. Division is by Newton's method, off by up to `DIVISION` units. FEQ and FLT are those
  of the numbers but for zeros of different signs and a negative number with itself; `AgreesWithTheHost` is without these
  exceptions and violated in the run `fpu_host`. The sign operations give the sign asked for, and FSGNJN and FSGNJX leave the rest.

*Bounds in general.* One comparison per walk shows both outcomes of it; more depth is
the recursion, which the proofs cover. `RESET_CNT_MAX` is 1 or 2 instead of
2^21 - 1: the counter only delays. `SHAMT_MAX` is 0 or 1 instead of 31: a shift is
one more way to spend time. In the flash run the numbers of bits to send and to
receive are equal, as the 32 and 32 of the source are. No counter of the firmware needs
a bound, they are cleared at the end of each pass. `MAX_CALLS`, `MAX_FAULTY_CALLS`, `MAX_LENGTH` (files),
`RESETS` and `MISSED` (card) are the bounds on what would not end. There is no state
constraint in any run.

## What was found

Four properties fail that documents of the code state, each in a run of its own: the modes that erase
(`fat_careless`), the busy bit of the UART (`stop_bit`), the scanlines of a polygon (`scanlines`) and the
comparisons of the soft FPU (`fpu_host`). Other properties name the exceptions they had to
make. Reading and checking turned up the following, in the order of the parts.

*Vehicle.* `brk` "goes high one cycle" (`uart.v:62`) is high for two: the
reset of the processor is a clock longer. The exporter writes its headers before it
compares (`10_export_cesar_vehicle.py:661`): a run that ends with an exception leaves new
files, or new and old ones, for the firmware. `np.isclose` accepts a threshold a little
below an even number, for which the packed comparison differs (`RoundsSafely` is the
condition).

*Devices.* `busy` of the UART is 0 while the stop bit is on the wire
(`uart_picosoc_shrunk.v:119`; `HardwareConfig_bits.v:5` calls it "busy sending"), so the next byte may cut
the stop bit short (124), and hosts that sample it in its middle report framing errors (run `stop_bit`). With a slow
baud rate or a fast processor the cut is deep, as a call takes a few dozen clocks. `uart.v:41` has it that this UART
does not work on one board and suspects "a couple of bugs". A divider
that is a power of two needs a bit more than `$clog2` gives (`uart_picosoc_shrunk.v:47`,
excluded by `BaudAssumption`). With the OLED clock divided by 4 (61 to 120 MHz) a run of
stores to other devices can keep in phase with it and hold CS low for a byte too many
(`SSD1351_1331.v:114`); no board file puts the two together at that speed.

*FAT library.*
- Mode w opens a file that exists as it is, and old bytes stay behind what is written
  over them: the flag for erasing is set (`fat_filelib.c:735`, 750) and never looked at (795). The
  comment at 709 says that the content is erased; `FileStore` has it so, and the run `fat_careless` shows the difference.
- `fl_fseek` drops bytes that were not flushed (1114), which the programs of the run `fat` avoid; `fl_fwrite` returns the full count
  whatever happened; `fl_remove` of a file whose entry cannot be marked keeps its handle.
- A failed read of the table looks like the end of a chain, and `currentsector` is
  relabelled before the read that fails (`fat_table.c:205`, `fat_access.c:254`): an append
  may then link into a wrong place. This is why faults do not include reads.
- A file of a card written elsewhere may start at cluster 0, being empty; the library
  takes that for the root (`fat_filelib.c:1325`). Names with a short entry only and an
  extension of less than three letters are not found; names that start with a dot leave
  `shortFilename` uninitialised. Such names are not in the runs.
- A full root of FAT16 (`fat_access.c:225`) and its size when it is no multiple of a sector
  (196); the new cluster of a directory, cleared after it is linked (`fat_write.c:230`);
  two spellings of one path, opened twice (`fat_filelib.c:99`).
- The second copy of the table is never updated. Formatting counts one cluster too many,
  leaves the first sector of the second copy without its reserved links, and the
  search for a free cluster goes to the end of the table's last sector (`fat_table.c:288`): on a full volume it gives
  clusters past the end away, which the run `fat` reaches; `StaysOnTheVolume` bounds the damage. Small volumes are formatted as FAT16 that a mount refuses as
  FAT12. Formatting is compiled out in this build (`FATFS_INC_FORMAT_SUPPORT` is 0); the
  model has it on.

*FemtOS.* A load that fails leaks its handle (`femto_elf.c:133`): after two of them nothing
opens until a reset. A full command line goes on echoing. A program of the shell that
removed files would leave the selection unmarked; those of the repository do not.

*Graphics.* A polygon with its top in row 0 of the panel takes that row's ends from
whatever is on the stack unless an edge lies in it (`femtoGLfill_poly.c:208`; the comment at
166 says each scanline is sent). A clipped edge may leave one pixel from a corner to the side of
the screen, and that rest may be level; being level it is stored as both ends of its
row, whatever the other edges stored there (`femtoGLfill_poly.c:199`). The run `scanlines` ends with a triangle
of the first kind. On a screen of 100 by 64 the
triangle (-135, 180), (230, 12), (1, 60) is cut to (0, 60), (0, 63), (99, 63), (99, 39), (1, 60): row 60 is
filled in the columns 0 and 1 only, though all of it up to column 99 is in the triangle.
A line whose ends are clipped may be two pixels off, and the last
point of a line is not drawn. `FGA_clear` fills a column and a row too many (`FGA.c:36`),
`FGA.v:165` restarts one line late. A carriage return is a backspace for the
terminal. Fonts whose height does not divide the panel's (3x5) break scrolling
(`FontAssumption`). `GL_tty_goto_xy` is assumed on unscrolled screens, as its callers do.
In the modes of the adapter the last column of a 6-pixel font would overwrite the start of the row.

*Soft FPU.* FLT of two equal negative numbers is 1, where `CHECK_FLT` (962) takes the
host's 0, -0 is less than +0 and FEQ of them is 0, where `CHECK_FEQ` (958) takes the host's 1 (run `fpu_host`); FSGNJ
returns its second operand, with the soft FPU and without (`FPU_funcs.cpp:637`, 824), and the line that sets the
sign of the first has no effect; a division by zero is finite, the
reciprocal of a huge number wraps its exponent; a conversion shifts by 32 and more,
which C++ does not define. The question "is it true ?" in ADD_SWP_FRAC has an answer: a sum
never subtracts the larger mantissa, for sums and differences alone
(`SubtractsTheSmaller`, part of `ResultsAreRight`).

## Fairness

`WF_vars(Next)`: the clock runs. The engine, the flash and the displays need no more:
every state has a successor at every edge.

`SF_vars(LatchAccess)` in `VehicleSoC`: between two device accesses the model
allows any instructions, so an infinite loop of them has to be excluded. In the
C code only finite loops lie between two accesses (delays of a constant number
of iterations, bit counts), hence an access that is the program's next one and
could be fetched again and again is fetched. The resets need no fairness:
`EverySampleReported` and `ProgramRuns` are stated for behaviours in which they end.

`WF_vars(Load)` in `Serial`: the loop of `UART_putchar` is three instructions and
goes on loading while the processor runs.

`WF_vars(Runs)` in `SdDriver`: the processor goes on; nothing is assumed of the
card, which may be silent for ever.

## Proofs

All theorems hold for every value of the constants: of the forest any number of trees,
depth, size of the feature bank, number of classes, forest, table of samples and
power-up state; of the flash any width of words and addresses, program and length of the
reset; of the card any size, kinds, delays and numbers of tries and missed commands; of
the UART any divider, number of bits and clocks of the host; of the displays any words, bytes and
width of them; of the shell any cards and lines on the screen; of the file store any files, modes and data;
of the screen any size and any points of a figure; of the soft FPU any width of mantissa, exponent and word.
The assumptions are those the modules declare: `ForestAssumption` and `HeapAssumption` (a heap has room for DEPTH levels),
`PowerUpAssumption`, `PortAssumption` (a port carries values of its width),
`WidthAssumption` (the memories fit 5 and 8 address bits), `ShamtAssumption`,
`FirmwareAssumption`, `SoCAssumption`, `ExportAssumption`, `DrainAssumption` and the other
assumptions of the flash, `BaudAssumption`, `TypingAssumption` and `ReadingAssumption` (how far
the host's clock may be off), `LedmtxAssumption`, `OledAssumption`, `SdAssumption`, `ShellAssumption`, `FontAssumption`, `FigureAssumption`, `ScreenAssumption`,
`FpuAssumption`. TLC evaluates all of them in the
runs. With these theorems every invariant and every action property of the runs `engine`, `soc`,
`flash`, `serial`, `displays` and `sd` is proved, and those of `programs` but for parts of `FiguresAreRight` and
`ResultsAreRight`, see below; the inductive invariants
stand beside the specifications, and TLC finds no state of the runs' instances outside of them.

**VehicleProof: the vote and the walk.** `VoteElectsPlurality`: one pass
that keeps the best class so far elects the lowest of the classes with the most
votes. `TraverseReturnsClass`: a walk stays in its tree (level d lies between
d and `LastNode[d]`). `TraverseIsDeterministic` and `OneAnswer`: on a well-formed
forest, one whose nodes name existing features, there is exactly one answer.
These are inductions over a level or a class counter. The induction theorems of
the library take a predicate as parameter, which the provers cannot
instantiate; `SetInduction` states induction for a *set* of numbers instead, and
follows from `WFMin`. `RecursiveSequence` turns a recursive function into its two
equations the same way. Five of the modules prove `SetInduction` for themselves, as they share no other.

**VehicleProof: the system.** First the engine with anything on its ports (`RandomForestHistory`).
`PipelineInv` carries the question through the pipeline: in
PREDICT what was asked is what the memories still classify to *at this moment*,
in AGGREGATE the vote of the latched predictions is among the right answers, in
DONE the result is. `Classifies` alone is not inductive, it says nothing of the
states in between. From it `TypeCorrect`, `NeverStuckIdle`, `AnswersByPlurality` and
`ImplementsClassifier` (every step of the engine is an Ask, a Reply, a Reset or a
stutter).

Then `SystemInv`, the invariant of the whole system:

- `InstrInv`: the latched instruction is the program's next access or touches
  nothing (without it a stale latch could execute an access twice);
- `LoadInv`: how much of the forest and of the sample is written at each `pc`;
- `PowerUp \/ Phase`: how far the processor may be in each state of the engine.
  Its two cases are a program that waits for the inference, and a program that
  was restarted by a break while it ran: start pulse with the processor in
  WAIT_ALU_OR_MEM, PREDICT at most in FETCH_INSTR, AGGREGATE before EXECUTE. This
  is the timing argument: the engine is past PREDICT before the first access
  after a restart, and idle before any start;
- `AnswerInv`: where the right answer is, from AGGREGATE to the prediction.

From it `SystemTypeCorrect`, `InputsLoadedAtStart`, `StartAccepted`, `PollIsFresh`,
`PredictionsRight` and `InputsHeld`.

`ReportInv` is what the debug registers and the counts hold between two pulses: the register that
is selected is the one the next store is meant for, and of the report in preparation the first
`access` registers are written. `ReportsAreOfOneSample` follows, and with `DebugEffect`
(what a store to the block does) and `NoPulse` (the pulse is up for one clock, after the last
store only) `ImplementsReports`: every step of the system is a report, the summary or
a restart of `VehicleReport`, or a stutter.

**FlashSoCProof.** `FlashInv` has three cases. *PowerUp* and *Draining* say that the
driver, whatever it powered up with, comes to rest while the reset lasts: `ClocksLeft` goes
down with every clock as `reset_cnt` goes up. From then on the driver is quiet, with the word
last asked for in its register, or it reads (`DriverInv`), and processor and driver agree (`BusInv`).
A read is followed bit by bit: what the chip has taken is a prefix of the order, what the
driver has still to send is the rest of it (`Sending`), and the register ends with as many
bits of the word as the chip has sent (`Receiving`). `ProgramsReadRight` is the property of
the processor, `ImplementsMemoryPort` the refinement.

**DevicesProof.** The UART first. *In*: sample k of the receiver falls into bit k of the frame that
is typed, so its register holds the first k bits (`Sampled`), and the one that completes the
byte is the stop bit's. *Out*: the transmitter has shifted as many bits as its clock has
counted periods (`Transmitting`), sample j of the host falls into bit j (`Listening`), and by the first clock of the
stop bit the host has the byte and looks for a start bit (`Heard`), so that the next store may come with the next clock
(`Called`). `PrintedBytesArrive` assumes ~`CHECKS_STOP`, and nothing of the distance between two calls. The bounds are products of a
counter and a period; `LaterSlot` and `SameSlot` are the facts about them that the rest cites. The
proof found a case no run has: when `SampleClock(DATA_BITS + 1)` is the last clock of the stop bit
(divider 24, period 24, three bits), the start bit of the next byte begins in the very clock
in which the receiver completes the last one. Nothing is lost, but arrival and next
byte are one step, so `Arrive` of `SerialLink` allows that. `SerialInvariant` is the invariant,
`TypedBytesArrive` and `PrintedBytesArrive` the two refinements.

Of the displays, `ProcessorWaits` says that a store finds both drivers at rest, the next one
being waited for. Then driver and panel count alike: what a driver has shifted out the panel has
taken, half a period before. `LedmtxInv` leaves out the first bit the chip took, which may be
what was on the wire before and means nothing. `OledInv` has three cases: the display not
selected yet, the bytes under way, and after them the clock or two until it is
deselected, in which the chip takes a bit at most. `LedmtxShowsStores` holds for any clock of either display;
`OledShowsStores` takes a clock of period 2 as its hypothesis, that of a board up to 60 MHz: with
a longer one a store to another device can come with the very edge that would deselect the
display (*Devices* in *What was found*).

**SdProof.** `SdInv` says what the driver knows about the card and how far a call is.
`Learnt` is the argument about retries: whenever the driver believes something that
the card would have denied, the card has missed every try of a loop, so with
`missed <= RETRIES` the driver is right. `Reading` and `Writing` say which blocks a call has
transferred so far; `TokenBefore` that the first token in what a card sends is followed by the
sector, so that garbage and busy bytes before it are not taken for data. `AddressesSectors`
and `CallsAreTruthful` are the two properties of the run. The proof goes through the bus byte by
byte: one lemma for what each command does to the card, one for what
the driver concludes from its answer.

**VehicleProof: the export.** `ExportDecidesAlike`: for every tree scikit-learn may build,
if the export accepts it and it rounds safely, the walk over its words ends with
the trained tree's prediction. The argument is an invariant of the two walks:
after d comparisons the engine is at one position h of level d and there is the
node that scikit-learn has come to (`AtSameNode`); the level bound
`LastNode[d] <= 2h` says that h is in the last level at the end, where an
accepted node is a leaf. `SameComparison` is the arithmetic of one comparison. Assumptions:
`ExportAssumption` (no room below level DEPTH; the tolerance of `np.isclose` is less
than half a unit), `IsSourceTree` and `RoundsSafely`.
`ScriptInv` says that the words of the trees done so far are
those of `export_sklearn_node`, that the samples fit once anything is exported and
that nothing is written before the simulation. With `SimulatesWalk` and
`ArgmaxIsAggregate` (there is one plurality, so `np.argmax` and the engine's pass
over the counters agree) every property of the script follows:
`ExportedTreesDecide`, `HeaderWellFormed`, `SimulationFaithful`, `SuccessMeansEquivalent`,
`MismatchHasReason`, and the types (`ScriptTypeCorrect`).

**FirmwareProof.** `HandlesSound`: in the abstract store no file has two handles, an
open file is not absent, and a handle of a sound file is within it. With `KeepsFiles` of
the run `fat` the same holds of the handles of the library. The invariant is that and
the types, since the length of a file means something only for a sequence:
`OverwrittenIsLonger` and `OneHandleMoves` carry the six calls that move a handle.
`ChangesSound` is what a call may do to a file: a closed file is removed, or created or emptied as it is
opened, and never written, an open one does not vanish, and a write through a handle leaves the bytes before the position of
the handle and the files of all other handles as they were.

`ShellInv`, of the shell: the number of lines is that of the card wherever the commander
has listed it; the position is constrained before the screen is drawn; and a screen that
is not drawn again shows the mark where a button would start. `StartsWhatIsMarked` and
`ProgramsStartWhole` follow. The latter needs of `ShellAssumption` that a program which
can be loaded has a text section, since `elf32_parse` starts what it found last.

**TerminalProof.** `PanelShowsTheText` is the refinement of the terminal: whatever is printed, the panel shows
what a teletype would, for every panel and every font whose lines fill it (`FontAssumption`).
The program remembers no text, so the argument is about pixels. A cell
reads as one character, since every character has a pixel of its own in the corner, which
is on the panel even if the rest of the last column is not (`OneSign`, `Cells`). Line l of the text is
line `Block(top, l)` of the panel, where top is the line that the start line names (`RowsOfLine`); a character
changes its own cell and a cleared line no other (`TypedCell`, `ClearedLine`). `TextInv` ties the cursor
to the start line: while the panel scrolls, the cursor is in the line above the one on top, or a new
line waits in the very one on top, or past the panel when that is line 0. With that, the line that
`GL_tty_scroll` clears is the one that the new start line brings to the bottom (`CursorReady`), and
`WrittenStep` does the rest of every call that writes. TLC found `TextInv` to hold with the constants of the run `programs`
before it was proved. The proof corrected the mapping: while the panel scrolls, the row of the
cursor is below the last one exactly when a new line waits, not whenever the cursor is in the line on
top; the two differ on a panel of one line.

Lines begin here, too. `Bresenham` is a loop; solved by induction it says that the other
coordinate of step u is the whole number nearest to m * u / d (`Column`), so a line stays within
one and a half pixels of the true one, the half for the rounding and the one for the pixel that
is drawn before each change, and leaves out none on it. `ClippedIs` turns the
loop of the clipping into its equations (`TailRecursion`).

**FigureProof.** `WholeFiguresRight`: `FiguresAreRight` for every figure that is on the screen as
a whole or culled (`DrawnWhole`), on screens of every size. `FigureInv` says that what
has the colour of the figure is what the drawing function sent. An outline is its
lines. A filled triangle takes four steps. The fold over its edges is
three stores (`SpansOfThree`), the sum that tells its sense is a cross product (`SumOfThree`).
In every row between its ends some edge stores the left side and some edge the right one
(`BothSidesStored`), and what is stored last is the column of an edge that passes through that row
(`SidesAre`). Such a column is at most half a pixel from its edge, and what is
within that of two edges is not far beyond the third (`NotFarOutside`, the corners with it). In row 0
of the panel, where nothing is stored, the triangle is exempt in the property already.

`LinesRight`: a line is right wherever its ends are, if `CUT` allows four half pixels. Where an end
is off the screen the code moves it to the border with a division that rounds, at most
twice for each end, and then draws from there a line of another slope. `Ahead` counts the columns
and rows of a point from the start of the line, `Tilt` is by how much it leans to one side of the true
line, `InOrder` that the ends are still one behind the other. A cut at a row or a column (`CutAtY`, `CutAtX`)
keeps the order and changes the tilt by less than a step, always in one direction, as the division
rounds towards zero. `ClippedToScreen` carries that through the four kinds of cut: either nothing of the line is
sent, and then it passes no pixel off the border, or its ends are on the
screen and lean by two steps at most. Between two such ends the lean is bounded by theirs
(`LeanBounds`), which with the stairs of the line is three and a half pixels; and
the stairs pass (`StairsPass`) within three columns and rows of every point of the true line off the border.
The tolerance depends on the size of the screen: on the small ones of the run half a pixel
is enough, and with larger ones lines were measured 3.3 pixels off. So it is a
constant of the model and the theorem has the number that serves for all sizes.

`OutlinesRight` has that bound for the outline of a triangle, which `clip_H` cuts at one side of the
screen after the other: each of the four passes makes a new polygon, of up to seven
corners in the end, and cuts edges that the passes before have rounded. `ClipLinks` is about a pass as such, for
any relation between corners: what a pass keeps of an edge is a piece (`Piece`), pieces join
(`PieceJoins`), and the ring of them has a link from each corner to the next if every edge had one
and points on the side itself have one to each other. The links are edges in a side of the screen
(`Bordered`) and pairs of points along one edge of the triangle (`Along`: in the order of `InOrder`, and
leaning by no more than so many widths and heights of that edge). A cut at a column
adds one width at most (`ColumnCuts`), a cut at a row one height (`RowCuts`), so after the four passes
the lean is two of each. That is as near as the ends of a cut line are, and the
outline inherits the bound of the segments between them. The property asks for the absence of gaps
of outlines on the screen only.

`FillingsStayInside`: no pixel is filled five pixels outside of a triangle, wherever its corners are, if `CUT`
allows seven half pixels (`StaysInside`, one half of the property `TriangleIsRight`). What is kept of
an edge says nothing of the columns between two edges, so this goes another way. `Enclosed` is the set of
points that no edge has further outside than so many of its widths and heights; the corners are in it with none,
it is convex but for rounding, and each of the four cuts adds one width or one height
(`ClipEncloses`). A stored column is half a pixel from a segment between two such points (`StoredAlmostEnclosed`),
what lies between two stored columns is enclosed as they are. What remains is that the loop over the rows
sees no column that was never stored: the spans are a fold over the cut edges (`SpansAreFolded`,
`SpansHold`), and since the edges close, some edge goes down through each row
and some other goes up (`RingStoresBothSides`).

**SoftFpuProof.** `ResultsRight`: a unit in the last place for every width of the mantissa and
the exponent, under `FpuAssumption` (a mantissa has a bit and there are exponents below the bias;
a product and a carry fit in two words, as 49 bits do in 64). The provers know nothing of powers of two, so
it starts from the recursive function `Pow2`: sums of exponents, order, the first bit of a
number. The invariant (`After`) follows the exact result e through the micro-program. Until ADD_SHIFT the
registers hold e, as a sum of two integers in units of 2 ^ -(2 * (Bias + MANT)) of the code's
numbers (`Loaded`, `Ordered`). ADD_SHIFT then drops bits of register A, after which nothing in the
registers says how many: an invariant that only bounds the error by a unit is not inductive,
since after a cancellation that unit could be as large as the result. What saves the code is `LostFarAway`:
one of the two mantissas is an operand with MANT + 1 zeros behind it, so if a bit is lost at all the
shift is so long that the other mantissa is larger by more than the hidden bit. `Aligned` states just that,
`Nearly` is what ADD_FRAC makes of it - exact, or off by less than a unit and with more than MANT bits
left, which NORM cuts to MANT + 1 (`Rounds`, with the case that a subtraction crosses a power of two). The
same invariant orders the mantissas when ADD_FRAC subtracts (`NoWrap`): the answer to "is it
true ?" of ADD_SWP_FRAC, for all widths. FEQ and FLT rest on `Compared`: the bits of a number order the
sizes of the numbers and tell them apart; FCVTWS and FCVTWUS on division by powers of two. TLC found
the invariant to hold in all states of the instance in `programs` first. The proof corrected the model:
the CASE of `Step` took either of two branches for NORM and LOAD_B when there was nothing to
add. TLC took the first of them, so the run had shown the right one only.

*Only model-checked:*

- liveness, which no installed prover can handle: `AnswersInTheEnd`, `EverySampleReported`,
  `ProgramRuns`, `BreaksInTheEnd`, `PutcharReturns`, `CallsReturn`;
- the OLED display with its clock divided by 4 or 8, where `OledTakesWhatIsStored` does not hold;
- everything of the FAT library below its store: `FatVolume`, `FatDirectory` and `FatCalls` compute over
  data with RECURSIVE operators, which are out of the provers' reach. Its abstract specification is where
  theorems are possible;
- that a filled triangle which is cut at the border is filled inside (`FillsTheInside`): an edge of the cut
  polygon that is stored as the left end of a row may belong to any edge of the triangle or to a side of
  the screen, and its rounded ends may change their order. With random triangles on screens of up to 128 by 64,
  pixels up to 3.5 half pixels inside were found not filled, but for the rows of `LevelWithACorner`;
  and pixels up to 4.5 half pixels outside filled, of the ten that `FillingsStayInside` excludes;
- the division of the soft FPU: its bound `DIVISION` is what the iteration for the reciprocal
  reaches for a given width, measured and not derived; so `ResultsRight` leaves FDIV out.

## Not modelled

- What the processor computes: decoding, ALU, registers, memory, cycle
  counter. The firmware's arithmetic is in its actions; that the compiler and
  the processor carry it out is assumed.
- `io_rdata` and the devices of `femtosoc.v` that have no module here. The vehicle
  program does no IO load. RAM is in `FlashSoC` only.
- The flash variants with two data lines and the UART of simulations.
- The delays and the LED timing of the firmware, the bits below a byte of the SD card.
- Time stamps, the printing of a volume's details and the optional cluster cache of
  the FAT library (`FAT_CLUSTER_CACHE_ENTRIES` is not defined).
- In the shell a first word that overflows the buffer the path is put together in (`commander.c:162`).
- Reads of the card that fail, in `FatLibrary`.
- Colours, other fonts and the terminal on the adapter; drawing in the shell other than
  the mark of the list, `GUI_prompt` and the commands that only print.
- FMIN, FMAX, FLE, FSQRT and the conversions from integers of the soft FPU, which it hands
  to the C library.
- Synthesis differences for addresses beyond an array, other than X on read
  and no effect on write.
- The parts marked *planned* or *left out* in the inventory.

## Plan

1. Done: the engine, the block, the system with its firmware and UART breaks; `Classifier`
   and `VehicleReport`; their runs; the theorems above.
2. Done: the exporter, its run and its theorems.
3. Done: serial port, displays and mapped SPI flash under the quark's wait states.
4. Done: SD driver, FAT library with `FileStore` and faults, shell and loader, graphics and
   terminal with `Teletype`, soft FPU.
5. Left to model: interrupts of `femtorv32_intermissum`; requests and refresh of the SDRAM
   controller; the composition of `FatLibrary` with `SdDriver`, whose failed and late
   operations are faults of the card for now.
6. Done: theorems of everything in the runs `engine`, `soc`, `flash`, `serial`, `displays` and
   `sd` but liveness, of the run `programs` but for the inside of filled triangles cut at the border and the
   division of the soft FPU, and of the abstract file store.
7. Theorems left: the inside of filled triangles cut at the border; a bound for the division of the soft FPU, from its width.
