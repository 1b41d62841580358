-------------------------------- MODULE SdDriver --------------------------------
(***************************************************************************)
(* The driver of the SD card (spi_sd.c): initialisation, reading and       *)
(* writing of sectors over a bus on which both ends send at every byte,    *)
(* and the card at the other end, of an older or a newer kind, quick or    *)
(* slow, that may miss commands. The processor may be reset at any time.   *)
(*                                                                         *)
(* A byte is what it means to the driver; the bytes of a block are one     *)
(* item, which only a read of a block takes.                               *)
(***************************************************************************)
EXTENDS Integers, Sequences, FiniteSets, SequencesExt

CONSTANTS Kinds,                  \* of card: "v1", "v2", "hc", or "none" for no card
          BLOCKS,                 \* sectors of a card
          FACTOR,                 \* bytes in a sector, for cards that address bytes (512)
          Value,                  \* what a sector may hold
          MAX_SECTORS,            \* most sectors in one call
          RETRIES,                \* the limit of most loops of _sd_init (8)
          INIT_TRIES,             \* how often sd_init tries (10)
          POLLS,                  \* the limit of the wait for an answer (500)
          TIMEOUT,                \* the limit of the waits for a card (5000)
          AnswerDelays,           \* bytes before an answer, within the limit
          TokenDelays,            \* bytes before a block
          BusyTimes,              \* bytes for which the card is busy after a block
          Rounds,                 \* how often a card answers ACMD41 with "not yet"
          MISSED,                 \* most commands that a card misses
          RESETS                  \* bound on the resets of the processor

VARIABLES driver, card,
          before,                 \* what was on the card when the call was made
          resets                  \* resets so far

vars == <<driver, card, before, resets>>

\* A card leaves the driver a byte's time before it sends a block.
ASSUME SdAssumption ==
    /\ "none" \in Kinds
    /\ BLOCKS \in Nat \ {0} /\ FACTOR \in Nat \ {0} /\ MAX_SECTORS \in Nat
    /\ {RETRIES, INIT_TRIES, POLLS, TIMEOUT} \subseteq Nat
    /\ AnswerDelays \subseteq 0 .. POLLS
    /\ TokenDelays \subseteq Nat \ {0}
    /\ BusyTimes \subseteq Nat /\ Rounds \subseteq Nat

Blocks == 0 .. BLOCKS - 1
None   == [op |-> "none"]

-------------------------------------------------------------------------------
(* The card, which the repository does not contain.                        *)

\* The next byte from the card: what it has to send, then that it is busy.
NextByte(c) == IF c.out # <<>> THEN c.out[1] ELSE IF c.busy > 0 THEN "00" ELSE "ff"

\* The card after n more bytes.
After(c, n) ==
    LET sent == IF n < Len(c.out) THEN n ELSE Len(c.out)
    IN  [c EXCEPT !.out = SubSeq(@, sent + 1, Len(@)),
                  !.busy = IF @ > n - sent THEN @ - (n - sent) ELSE 0]

Silence(n) == [i \in 1 .. n |-> "ff"]

BlockAt(c, arg) == IF c.kind = "hc" THEN arg ELSE arg \div FACTOR

\* What a card may do at a command: the cards it may become, with what it sends.
Reactions(c, cmd, arg) ==
    LET idle   == IF c.ready THEN "00" ELSE "01"
        b      == BlockAt(c, arg)
        say(x, bytes) == { [x EXCEPT !.out = bytes] }
    IN  CASE cmd = "CMD0"   -> UNION { say([c EXCEPT !.ready = FALSE, !.app = FALSE, !.rounds = r], <<"01">>) :
                                         r \in Rounds }
          [] cmd = "CMD8"   -> say(c, IF c.kind = "v1" THEN <<"05">> ELSE <<idle, "00", "00", "01", "aa">>)
          [] cmd = "CMD55"  -> say([c EXCEPT !.app = TRUE], <<idle>>)
          [] cmd = "ACMD41" -> IF ~c.app THEN say(c, <<"05">>)
                               ELSE IF c.rounds = 0
                                    THEN say([c EXCEPT !.app = FALSE, !.ready = TRUE], <<"00">>)
                                    ELSE say([c EXCEPT !.app = FALSE, !.rounds = @ - 1], <<idle>>)
          [] cmd = "CMD58"  -> say(c, <<idle, IF c.kind = "hc" THEN "40" ELSE "00", "00", "00", "00">>)
          [] cmd = "CMD17"  -> IF ~c.ready \/ b \notin Blocks THEN say(c, <<"05">>)
                               ELSE UNION { say(c, <<"00">> \o Silence(k) \o <<"fe", c.disk[b], "crc", "crc">>)
                                            \cup say(c, <<"00">> \o Silence(k) \o <<"error">>) : k \in TokenDelays }
          [] cmd = "CMD24"  -> IF ~c.ready \/ b \notin Blocks THEN say(c, <<"05">>)
                               ELSE say([c EXCEPT !.target = b], <<"00">>)

\* The cards after the six bytes of a command: one that is busy does not see it, one may
\* miss it, and one that was still to send something drops it and answers after a while.
CardsAfter(c, cmd, arg) ==
    LET silent == [c EXCEPT !.out = <<>>, !.target = -1]
        missed == [silent EXCEPT !.missed = @ + 1]
    IN  IF c.kind = "none" THEN {c}
        ELSE IF c.busy > 0 THEN {After(c, 6)}
        ELSE (IF c.missed < MISSED THEN {missed} ELSE {})
             \cup { [r EXCEPT !.out = Silence(k) \o @] :
                      k \in AnswerDelays, r \in Reactions(silent, cmd, arg) }

\* The cards after a block: it is stored, or refused.
CardsAfterBlock(c, v) ==
    IF c.target = -1 THEN {After(c, 3)}
    ELSE { [c EXCEPT !.disk[c.target] = v, !.target = -1, !.out = <<"accepted">>, !.busy = k] :
             k \in BusyTimes }
         \cup { [c EXCEPT !.target = -1, !.out = <<"rejected">>] }

\* The card is not selected while it is given some 25 bytes of clocks.
Deselected(c) == After([c EXCEPT !.out = <<>>, !.target = -1, !.app = FALSE], 25)

-------------------------------------------------------------------------------
(* Commands.                                                               *)

\* What spi_receive returns once k bytes have gone over the bus. At each of eight clocks both
\* ends shift a bit, and the driver sends ones meanwhile.
Received(c, k) == NextByte(After(c, k))

\* How many bytes of 0xff go before another byte, as far as the driver waits for one.
Waited(c) == Min({ i \in 0 .. POLLS + 1 : Received(c, i) # "ff" } \cup {POLLS + 1})

\* What the driver has of a command to which c answers: the status byte, sdhc_card, and the
\* card. The rest of an answer is read for CMD58 only, and eight clocks follow.
Answered(d, c, cmd, wait) ==
    IF cmd = "CMD58" /\ Received(c, wait) = "00"
    THEN [response |-> "00", sdhc |-> Received(c, wait + 1) = "40", card |-> After(c, wait + 6)]
    ELSE [response |-> Received(c, wait), sdhc |-> d.sdhc, card |-> After(c, wait + 2)]

\* The argument: a sector or, for a card that is not known to be SDHC, a byte.
Argument(d, cmd, block) ==
    IF cmd \in {"CMD17", "CMD24"} /\ ~d.sdhc THEN block * FACTOR ELSE block

\* sd_send_command: the outcomes.
SendCommand(d, c, cmd, block) ==
    UNION { { Answered(d, x, cmd, wait) : wait \in {Waited(x)} } :
              x \in CardsAfter(c, cmd, Argument(d, cmd, block)) }

\* A command goes out and the driver becomes then(response, sdhc).
Command(cmd, block, then(_, _)) ==
    \E o \in SendCommand(driver, card, cmd, block) :
        /\ card' = o.card
        /\ driver' = then(o.response, o.sdhc)
        /\ UNCHANGED <<before, resets>>

-------------------------------------------------------------------------------
(* Initialisation.                                                         *)

\* _sd_init from its start, in the given try of sd_init.
Starting(d, try) == [d EXCEPT !.pc = "CMD0", !.try = try, !.retries = 0, !.call = None]

\* _sd_init failed: sd_init tries again, or gives up.
GoesWrong(d) == IF d.try = INIT_TRIES THEN [d EXCEPT !.pc = "down"] ELSE [d EXCEPT !.pc = "again"]

\* The clocks with the card not selected that begin _sd_init.
Clocks ==
    /\ driver.pc = "again"
    /\ driver' = Starting(driver, driver.try + 1)
    /\ card' = Deselected(card)
    /\ UNCHANGED <<before, resets>>

\* Mutant: one try less.
OutOfTriesEarly(d) == d.retries >= RETRIES

\* retries++ > 8, whatever was answered.
OutOfTries(d) == d.retries > RETRIES

\* A loop of _sd_init: once more, on to the next command, or what follows too many tries.
Loop(d, response, good, again, next, give_up) ==
    IF OutOfTries(d) THEN give_up
    ELSE IF response = good THEN [next EXCEPT !.retries = 0]
    ELSE [again EXCEPT !.retries = @ + 1]

At(d, pc) == [d EXCEPT !.pc = pc]

GoIdleState ==
    /\ driver.pc = "CMD0"
    /\ Command("CMD0", 0, LAMBDA r, s :
           Loop(driver, r, "01", driver, At(driver, "CMD8"), GoesWrong(driver)))

\* No answer to CMD8 makes it a card of version 1.
SendIfCond ==
    /\ driver.pc = "CMD8"
    /\ Command("CMD8", 0, LAMBDA r, s :
           LET next == [At(driver, "CMD55") EXCEPT !.version = 2]
           IN  Loop(driver, r, "01", driver, next, [next EXCEPT !.version = 1, !.retries = 0]))

AppCmd ==
    /\ driver.pc = "CMD55"
    /\ Command("CMD55", 0, LAMBDA r, s : At(driver, "ACMD41"))

SendOpCond ==
    /\ driver.pc = "ACMD41"
    /\ Command("ACMD41", 0, LAMBDA r, s :
           LET up == IF driver.version = 2 THEN At(driver, "CMD58")
                     ELSE [At(driver, "up") EXCEPT !.sdhc = FALSE]
           IN  Loop(driver, r, "00", At(driver, "CMD55"), up, GoesWrong(driver)))

\* Too many tries leave sdhc_card as it was.
ReadOcr ==
    /\ driver.pc = "CMD58"
    /\ Command("CMD58", 0, LAMBDA r, s :
           LET d == [driver EXCEPT !.sdhc = s]
           IN  Loop(driver, r, "00", d, At(d, "up"), At(d, "up")))

-------------------------------------------------------------------------------
(* Sectors.                                                                *)

\* A call is made.
Called(call) ==
    /\ driver.pc = "up"
    /\ driver' = [driver EXCEPT !.pc = IF call.op = "read" THEN "CMD17" ELSE "CMD24", !.retries = 0,
                                !.call = call, !.done = 0, !.buffer = <<>>, !.ok = FALSE]
    /\ before' = card.disk
    /\ UNCHANGED <<card, resets>>

Returns(d, ok) == [d EXCEPT !.pc = "up", !.ok = ok]

\* Mutant: every sector of a call is the first.
SectorStays(d) == d.call.at

\* The sector that is next in the call.
Sector(d) == d.call.at + d.done

ReadCommand ==
    /\ driver.pc = "CMD17"
    /\ IF driver.done = driver.call.count
       THEN /\ driver' = Returns(driver, driver.call.count > 0)
            /\ UNCHANGED <<card, before, resets>>
       ELSE Command("CMD17", Sector(driver), LAMBDA r, s :
                IF r = "00" THEN At(driver, "token") ELSE Returns(driver, FALSE))

\* Mutant: there is no limit.
TimedOutNever(d) == FALSE

\* retries counts over all sectors of a call that reads.
TimedOut(d) == d.retries > TIMEOUT

AwaitToken ==
    /\ driver.pc = "token"
    /\ card' = After(card, 1)
    /\ driver' = IF Received(card, 0) = "fe" THEN At(driver, "block")
                 ELSE IF TimedOut(driver) THEN Returns(driver, FALSE)
                 ELSE IF driver.retries <= TIMEOUT THEN [driver EXCEPT !.retries = @ + 1] ELSE driver
    /\ UNCHANGED <<before, resets>>

\* spi_readblock, the checksum and two bytes more.
ReadBlock ==
    /\ driver.pc = "block"
    /\ card' = After(card, 5)
    /\ driver' = [At(driver, "CMD17") EXCEPT !.buffer = Append(@, Received(card, 0)), !.done = @ + 1]
    /\ UNCHANGED <<before, resets>>

WriteCommand ==
    /\ driver.pc = "CMD24"
    /\ IF driver.done = driver.call.count
       THEN /\ driver' = Returns(driver, TRUE)
            /\ UNCHANGED <<card, before, resets>>
       ELSE Command("CMD24", Sector(driver), LAMBDA r, s :
                IF r = "00" THEN At(driver, "data") ELSE Returns(driver, FALSE))

\* The token, the block and its checksum, and the answer to them.
WriteBlock ==
    /\ driver.pc = "data"
    /\ \E c \in CardsAfterBlock(card, driver.call.data[driver.done + 1]) :
          /\ card' = After(c, 1)
          /\ driver' = IF Received(c, 0) = "accepted" THEN At(driver, "busy") ELSE Returns(driver, FALSE)
    /\ UNCHANGED <<before, resets>>

\* The two waits after a block; the byte sent in each round is not looked at.
AwaitWritten ==
    /\ driver.pc \in {"busy", "settled"}
    /\ card' = After(card, IF Received(card, 1) # "00" /\ driver.pc = "busy" THEN 3 ELSE 2)
    /\ driver' = IF Received(card, 1) # "00"
                 THEN IF driver.pc = "busy" THEN [At(driver, "settled") EXCEPT !.retries = 0]
                      ELSE [At(driver, "CMD24") EXCEPT !.done = @ + 1]
                 ELSE IF TimedOut(driver) THEN Returns(driver, FALSE)
                 ELSE [driver EXCEPT !.retries = @ + 1]
    /\ UNCHANGED <<before, resets>>

-------------------------------------------------------------------------------
sd_readsector(a, n) == Called([op |-> "read", at |-> a, count |-> n])

sd_writesector(a, values) == Called([op |-> "write", at |-> a, count |-> Len(values), data |-> values])

\* A card that has just been put in. What is in its first sector is nowhere else.
NewCards ==
    { [kind |-> kind, ready |-> FALSE, app |-> FALSE, rounds |-> 0, out |-> <<>>, busy |-> 0,
       target |-> -1, missed |-> 0, disk |-> [b \in Blocks |-> IF b = 0 THEN v[1] ELSE v[2]]] :
         kind \in Kinds, v \in { p \in Value \X Value : p[1] # p[2] } }

\* The reset of the processor, with this card or another one: memory keeps sdhc_card, and
\* sd_init runs again.
Reset ==
    /\ resets < RESETS
    /\ resets' = resets + 1
    /\ driver' = [driver EXCEPT !.pc = "again", !.try = 0, !.call = None]
    /\ \/ UNCHANGED <<card, before>>
       \/ card' \in NewCards /\ before' = card'.disk

Init ==
    /\ driver = [pc |-> "again", try |-> 0, retries |-> 0, version |-> 2, sdhc |-> FALSE,
                 call |-> None, done |-> 0, buffer |-> <<>>, ok |-> FALSE]
    /\ card \in NewCards
    /\ before = card.disk
    /\ resets = 0

Initialises == Clocks \/ GoIdleState \/ SendIfCond \/ AppCmd \/ SendOpCond \/ ReadOcr
Transfers   == ReadCommand \/ AwaitToken \/ ReadBlock \/ WriteCommand \/ WriteBlock \/ AwaitWritten

Runs == Initialises \/ Transfers

Next ==
    \/ Runs
    \/ \E a \in Blocks, n \in 0 .. MAX_SECTORS : a + n <= BLOCKS /\ sd_readsector(a, n)
    \/ \E a \in Blocks, values \in SeqOf(Value, MAX_SECTORS) :
          a + Len(values) <= BLOCKS /\ sd_writesector(a, values)
    \/ Reset

Spec == Init /\ [][Next]_vars /\ WF_vars(Runs)

-------------------------------------------------------------------------------
(* Properties.                                                             *)

AddressesRight == driver.sdhc <=> card.kind = "hc"

Idle == driver.pc = "up"

\* The driver addresses the card by sectors or by bytes as that card does, once it has
\* initialised it, unless the card has missed as many commands as a loop makes tries
\* (_sd_init: CMD8, CMD58, and sdhc_card from before a reset).
AddressingIsRight == Idle => AddressesRight \/ card.missed > RETRIES

\* A read that succeeds has the sectors asked for. A write that succeeds has stored all
\* of them, and a write that fails, or is cut by a reset, none but the first few of them.
CallsTellTheTruth ==
    card.missed <= RETRIES =>
        LET call == driver.call
            stored(k) == [b \in Blocks |-> IF b \in call.at .. call.at + k - 1
                                           THEN call.data[b - call.at + 1] ELSE before[b]]
        IN  /\ call.op = "read" =>
                  /\ card.disk = before
                  /\ Idle /\ driver.ok =>
                        driver.buffer = [i \in 1 .. call.count |-> card.disk[call.at + i - 1]]
            /\ call.op = "write" =>
                  /\ \E k \in 0 .. call.count : card.disk = stored(k)
                  /\ Idle /\ driver.ok => card.disk = stored(call.count)

\* Every call and every initialisation comes to an end, whatever the card does.
CallsReturn == []<>(driver.pc \in {"up", "down"})

-------------------------------------------------------------------------------
(* The inductive invariant. *)

\* What a card may send, and the calls.
Sent  == {"00", "01", "05", "40", "aa", "ff", "fe", "error", "crc", "accepted", "rejected"} \cup Value
Calls == {None} \cup [op : {"read"}, at : Blocks, count : Nat]
         \cup [op : {"write"}, at : Blocks, count : Nat, data : Seq(Value)]

ReadPlaces  == {"CMD17", "token", "block"}
WritePlaces == {"CMD24", "data", "busy", "settled"}

Places == {"again", "down", "CMD0", "CMD8", "CMD55", "ACMD41", "CMD58", "up"} \cup ReadPlaces \cup WritePlaces

DriverStates ==
    [pc : Places, try : Int, retries : Nat, version : Int, sdhc : BOOLEAN, call : Calls,
     done : Nat, buffer : Seq(Sent), ok : BOOLEAN]

CardStates ==
    [kind : Kinds, ready : BOOLEAN, app : BOOLEAN, rounds : Nat, out : Seq(Sent), busy : Nat,
     target : Int, missed : Nat, disk : [Blocks -> Value]]

\* No card says nothing, and a card that is busy says only that and expects no block.
Settled(c) ==
    /\ c.kind = "none" => c.busy = 0
    /\ c.kind = "none" \/ c.busy > 0 => c.out = <<>> /\ c.target = -1

\* What _sd_init has learnt: what is not what the card would answer, it has missed.
Learnt ==
    /\ driver.pc \in {"CMD8", "CMD55", "ACMD41", "CMD58"} => card.kind # "none" /\ card.busy = 0
    /\ driver.pc = "CMD8" => ~card.ready /\ (card.kind # "v1" => driver.retries <= card.missed)
    /\ driver.pc \in {"CMD55", "ACMD41"} =>
          (driver.version = 2 \/ card.kind # "hc" \/ card.missed > RETRIES)
    /\ driver.pc = "CMD58" => card.ready /\ driver.retries <= card.missed

\* A call is on the card, and is served where it should be.
CallFits ==
    /\ driver.call # None => /\ driver.call.at + driver.call.count <= BLOCKS
                             /\ driver.pc \in {"up"} \cup ReadPlaces \cup WritePlaces
    /\ driver.call.op = "write" => Len(driver.call.data) = driver.call.count
    /\ driver.pc \in ReadPlaces => driver.call.op = "read"
    /\ driver.pc \in WritePlaces => driver.call.op = "write"
    /\ driver.pc \in ReadPlaces \cup WritePlaces => driver.done <= driver.call.count
    /\ driver.pc \in {"token", "block", "data", "busy", "settled"} => driver.done < driver.call.count

\* In what a card sends, the first token is followed by the block v.
TokenBefore(out, v) ==
    \A i \in DOMAIN out :
       out[i] = "fe" /\ (\A j \in 1 .. i - 1 : out[j] # "fe") => i < Len(out) /\ out[i + 1] = v

\* What a read has so far, and that the sector that is awaited is the one asked for.
Reading ==
    driver.call.op = "read" =>
      /\ card.disk = before
      /\ driver.pc \in ReadPlaces =>
            driver.buffer = [i \in 1 .. driver.done |-> card.disk[driver.call.at + i - 1]]
      /\ driver.pc = "token" => TokenBefore(card.out, card.disk[Sector(driver)])
      /\ driver.pc = "block" =>
            card.out # <<>> /\ card.out[1] = card.disk[Sector(driver)]
      /\ Idle /\ driver.ok =>
            driver.buffer = [i \in 1 .. driver.call.count |-> card.disk[driver.call.at + i - 1]]

\* The disk once the first k blocks of a call are written.
Stored(k) ==
    [b \in Blocks |-> IF b \in driver.call.at .. driver.call.at + k - 1
                      THEN driver.call.data[b - driver.call.at + 1] ELSE before[b]]

\* What a write has stored so far.
Writing ==
    driver.call.op = "write" =>
      /\ driver.pc \in {"CMD24", "data"} => card.disk = Stored(driver.done)
      /\ driver.pc = "data" => card.out = <<>> /\ card.target \in {-1, Sector(driver)}
      /\ driver.pc \in {"busy", "settled"} => card.disk = Stored(driver.done + 1)
      /\ Idle => \E k \in 0 .. driver.call.count : card.disk = Stored(k)
      /\ Idle /\ driver.ok => card.disk = Stored(driver.call.count)

\* Everything the two properties need. Only a card that has missed no more than RETRIES
\* commands is sure to be known, so only then a call has to do what it says.
SdInv ==
    /\ driver \in DriverStates /\ card \in CardStates /\ before \in [Blocks -> Value]
    /\ Settled(card)
    /\ Learnt
    /\ CallFits
    /\ card.missed <= RETRIES =>
          /\ driver.pc \in {"up"} \cup ReadPlaces \cup WritePlaces => AddressesRight
          /\ Reading
          /\ Writing

===============================================================================
