-------------------------------- MODULE Serial ---------------------------------
(***************************************************************************)
(* The UART between a host and a program.                                  *)
(*                                                                         *)
(* In the direction "in" the host types, at any time and at full speed,    *)
(* and the program reads the data register whenever it likes: UART_getchar *)
(* in its loop, UART_pollkey once, UART_putchar for the busy bit, which    *)
(* throws away what it reads.  In the direction "out" the program prints   *)
(* with UART_putchar, at whatever speed it runs, and the host samples the  *)
(* start bit and every data bit in its middle. For the stop bit it waits,  *)
(* or it wants to see that one in its middle, too.                         *)
(*                                                                         *)
(* The two halves of the UART share nothing but the clock: a behaviour is  *)
(* about one of them, and the other one rests.                             *)
(***************************************************************************)
EXTENDS UART

CONSTANTS TypingPeriods,    \* clocks per bit of a host that types, any of them in a frame
          ReadingPeriods,   \* clocks per bit of a host that reads
          CHECKS_STOP,      \* TRUE when the host samples the stop bit in its middle
          None,
          FramingError      \* what the host reports of a stop bit that is low

\* Clock of sample k of the receiver, counted from the first one of the start
\* bit: it must fall into bit k, and the last one before the frame is over.
SampleClock(k) == half_baud_init + 2 + k * (divider + 2)

ASSUME TypingAssumption ==
    /\ TypingPeriods \subseteq Nat \ {0}
    /\ None \notin Byte
    /\ \A p \in TypingPeriods, k \in 0 .. DATA_BITS + 1 :
            k * p <= SampleClock(k) /\ SampleClock(k) < (k + 1) * p

FRAME == (DATA_BITS + 1) * (divider + 2)   \* clocks until the stop bit

\* The host samples bit k of the frame, the start bit or one of the data, while it
\* is on the wire. Nothing is said of the stop bit: the program may store the next
\* byte as soon as busy falls, which is when the stop bit begins.
ASSUME ReadingAssumption ==
    /\ ReadingPeriods \subseteq Nat \ {0}
    /\ CHECKS_STOP \in BOOLEAN
    /\ FramingError \notin Byte /\ None # FramingError
    /\ \A p \in ReadingPeriods, k \in 0 .. DATA_BITS :
            /\ k * (divider + 2) <= p \div 2 + k * p
            /\ p \div 2 + k * p < (k + 1) * (divider + 2)

VARIABLES
    direction,
    ticks,          \* of the host: clocks left of the bit it sends, or to the next
                    \* sample, -1 when it waits for a start bit
    period,         \* of the host: clocks of every bit of this frame
    (* typing *)
    bit,            \* of the frame on the wire: 0 for none, 1 for the start bit
    typed,          \* the byte of this frame
    io_rdata,       \* the byte of a read with bit 8 set, or None
    (* printing *)
    pc,             \* of UART_putchar: "call", or "pcrx", its loop
    taken,          \* the samples of this frame
    received,       \* the last byte, or error, of the host
    printed         \* the byte that is not yet received

typingVars   == <<bit, typed, io_rdata>>
samplingVars == <<taken, received>>
printingVars == <<pc, printed, samplingVars>>
vars         == <<direction, ticks, period, receiverVars, typingVars, transmitterVars, printingVars>>

-------------------------------------------------------------------------------
(* The host that types. *)

LAST_BIT == DATA_BITS + 2

RXD == IF bit \in {0, LAST_BIT} THEN 1 ELSE IF bit = 1 THEN 0 ELSE typed[bit - 1]

StartFrame ==
    /\ typed' \in Byte
    /\ period' \in TypingPeriods
    /\ bit' = 1
    /\ ticks' = period' - 1

TypingClk ==
    \/ /\ bit = 0 \/ (bit = LAST_BIT /\ ticks = 0)
       /\ StartFrame
    \/ /\ bit = 0
       /\ UNCHANGED <<bit, ticks, period, typed>>
    \/ /\ bit # 0
       /\ ticks > 0
       /\ ticks' = ticks - 1
       /\ UNCHANGED <<bit, period, typed>>
    \/ /\ bit # 0
       /\ ticks = 0
       /\ bit' = IF bit = LAST_BIT THEN 0 ELSE bit + 1
       /\ ticks' = IF bit = LAST_BIT THEN 0 ELSE period - 1
       /\ UNCHANGED <<period, typed>>

\* A clock with or without a read of the data register.
Typing(rd) ==
    /\ direction = "in"
    /\ TypingClk
    /\ ReceiverClk(RXD, rd)
    /\ io_rdata' = IF rd /\ recv_buf_valid THEN recv_buf_data ELSE None
    /\ UNCHANGED <<direction, transmitterVars, printingVars>>

-------------------------------------------------------------------------------
(* UART_putchar, and the host that reads. *)

\* The host has the data bits, and sees the line high; or it is in the middle of
\* what should be the stop bit.
HostDone == ticks = 0 /\ Len(taken) = DATA_BITS + 1 /\ (tx = 1 \/ CHECKS_STOP)

SamplingClk ==
    \/ /\ ticks = -1 /\ tx = 1
       /\ UNCHANGED <<ticks, period, samplingVars>>
    \/ /\ ticks = -1 /\ tx = 0
       /\ period' \in ReadingPeriods
       /\ ticks' = period' \div 2 - 1
       /\ UNCHANGED samplingVars
    \/ /\ ticks > 0
       /\ ticks' = ticks - 1
       /\ UNCHANGED <<period, samplingVars>>
    \/ /\ ticks = 0 /\ Len(taken) <= DATA_BITS
       /\ taken' = Append(taken, tx)
       /\ ticks' = IF Len(taken) = DATA_BITS /\ ~CHECKS_STOP THEN 0 ELSE period - 1
       /\ UNCHANGED <<received, period>>
    \/ /\ ticks = 0 /\ Len(taken) = DATA_BITS + 1 /\ ~HostDone
       /\ UNCHANGED <<ticks, period, samplingVars>>
    \/ /\ HostDone
       /\ received' = IF tx = 1 /\ taken[1] = 0 THEN Tail(taken) ELSE FramingError
       /\ ticks' = -1
       /\ taken' = <<>>
       /\ UNCHANGED period

Printing(wr, c) ==
    /\ direction = "out"
    /\ TransmitterClk(wr, c)
    /\ SamplingClk
    /\ printed' = IF wr THEN c ELSE IF HostDone THEN None ELSE printed
    /\ UNCHANGED <<direction, receiverVars, typingVars>>

Store(c) ==
    /\ pc = "call"
    /\ pc' = "pcrx"
    /\ Printing(TRUE, c)

Load ==
    /\ pc = "pcrx"
    /\ pc' = IF busy THEN "pcrx" ELSE "call"
    /\ Printing(FALSE, None)

OtherInstruction ==
    /\ UNCHANGED pc
    /\ Printing(FALSE, None)

-------------------------------------------------------------------------------
Next ==
    \/ \E rd \in BOOLEAN : Typing(rd)
    \/ \E c \in Byte : Store(c)
    \/ Load
    \/ OtherInstruction

\* The half that rests has the values of a reset.
TypingInit ==
    /\ bit = 0
    /\ io_rdata = None
    /\ typed = CTRL_C
    /\ ReceiverInit

PrintingInit ==
    /\ pc = "call"
    /\ taken = <<>>
    /\ printed = None
    /\ TransmitterInit

Init ==
    /\ TypingInit
    /\ PrintingInit
    /\ received = CTRL_C
    /\ \/ /\ direction = "in"
          /\ ticks = 0
          /\ period \in TypingPeriods
          /\ send_divcnt = 0
       \/ /\ direction = "out"
          /\ ticks = -1
          /\ period \in ReadingPeriods
          /\ recv_buf_data = CTRL_C

\* The clock runs, and the loop of UART_putchar does not stop loading.
Spec == Init /\ [][Next]_vars /\ WF_vars(Next) /\ WF_vars(Load)

-------------------------------------------------------------------------------
InLink ==
    INSTANCE SerialLink WITH
        BREAK <- CTRL_C,
        line <- IF bit = 0 \/ (bit = LAST_BIT /\ recv_state = 0) THEN None ELSE typed,
        box <- IF recv_buf_valid THEN recv_buf_data ELSE None,
        read <- io_rdata

OutLink ==
    INSTANCE SerialLink WITH
        BREAK <- None,
        line <- printed, box <- received, read <- None

\* Every byte typed arrives as it was typed, once, and stays until it is read or
\* replaced: no read, at whatever clock, loses the byte that arrives with it,
\* nor does it see one twice.
ReceivesWhatIsTyped == InLink!Spec

\* A control-C that is typed breaks the program in the end, even if the program
\* reads it away at once.
BreaksInTheEnd == (bit = 1 /\ typed = CTRL_C) ~> brk

\* Every byte printed reaches the host unchanged, once and in order, at whatever
\* speed the program prints: the host is done with a byte before the program stores
\* the next one, and no frame is cut short where the host looks. A host that takes a
\* byte only if the stop bit is on the line in its middle is not served so: the
\* program may have cut it short by then (UART_putchar, send_pattern).
HostReceivesWhatIsPrinted == OutLink!Spec

\* UART_putchar returns: the busy bit clears, wherever the counter stood.
PutcharReturns == pc = "pcrx" ~> pc = "call"

-------------------------------------------------------------------------------
(* The inductive invariants. *)

\* Bit j of a frame, from the start bit on.
FrameBit(c, j) == IF j = 1 THEN 0 ELSE IF j = LAST_BIT THEN 1 ELSE c[j - 1]

\* Clocks since the frame that is typed began.
TypingClock == (bit - 1) * period + (period - 1 - ticks)

\* The receiver's register after k samples.
Sampled(k) ==
    recv_pattern = [i \in 1 .. DATA_BITS + 1 |->
                        IF i + k > DATA_BITS + 1
                        THEN 1 - FrameBit(typed, i + k - (DATA_BITS + 1)) ELSE 0]

\* It waits for the frame that has just begun, or for one that has not.
Waiting == bit \in {0, LAST_BIT} \/ (bit = 1 /\ ticks = period - 1)

\* It is on its way to sample k.
Sampling ==
    /\ bit # 0
    /\ recv_divcnt >= -1
    /\ \E k \in 0 .. DATA_BITS + 1 :
          /\ TypingClock = SampleClock(k) - recv_divcnt - 1
          /\ Sampled(k)

\* A control-C has gone, or breaks, before the receiver can have the next byte.
BreakInTime ==
    /\ recv_state = 1 /\ recv_buf_valid /\ recv_buf_data = CTRL_C =>
          brk /\ recv_divcnt = half_baud_init
    /\ brk /\ recv_buf_valid => recv_buf_data = CTRL_C

TypingInv ==
    /\ bit \in 0 .. LAST_BIT
    /\ typed \in Byte
    /\ period \in TypingPeriods
    /\ ticks \in 0 .. period - 1
    /\ recv_divcnt \in Int
    /\ recv_buf_data \in Byte
    /\ recv_buf_valid \in BOOLEAN /\ brk \in BOOLEAN
    /\ \/ recv_state = 0 /\ Waiting
       \/ recv_state = 1 /\ Sampling
    /\ BreakInTime

\* The transmitter's register after k shifts: the stop bit is followed by zeros.
Shifted(c, k) ==
    send_pattern = [i \in 1 .. LAST_BIT |-> IF i + k <= LAST_BIT THEN FrameBit(c, i + k) ELSE 0]

\* The transmitter a clocks after a store of c: bit k is on the wire for the m-th clock.
Transmitting(c, a) ==
    IF a < FRAME
    THEN \E k \in 0 .. DATA_BITS, m \in 0 .. divider + 1 :
            /\ a = k * (divider + 2) + m
            /\ send_divcnt = divider - m
            /\ Shifted(c, k)
    ELSE Shifted(c, DATA_BITS + 1)

\* The host a clocks after a store of c: it looks for the start bit, has taken the first
\* bits of the frame and goes on to the next, or has them all and waits for a high line.
Listening(c, a) ==
    \/ a = 0 /\ ticks = -1 /\ taken = <<>>
    \/ /\ period \in ReadingPeriods
       /\ ticks >= 0
       /\ ticks = period \div 2 + Len(taken) * period - a
       /\ Len(taken) \in 0 .. DATA_BITS
       /\ taken = [j \in 1 .. Len(taken) |-> FrameBit(c, j)]
    \/ /\ ticks = 0
       /\ DATA_BITS * (divider + 2) < a /\ a <= FRAME
       /\ taken = [j \in 1 .. DATA_BITS + 1 |-> FrameBit(c, j)]

\* The host has c, a clocks after it was stored, and looks for a start bit. Unless the
\* stop bit is on the line, the last bit of c is, and is high.
Heard(c, a) ==
    /\ ticks = -1 /\ taken = <<>>
    /\ DATA_BITS * (divider + 2) <= a
    /\ a >= FRAME \/ c[DATA_BITS] = 1

\* UART_putchar a clocks after a store: it returns once the stop bit is on the wire.
Called(a) == pc = "call" => a > FRAME

PrintingInv ==
    /\ send_divcnt \in Int
    /\ \E c \in Byte, a \in Nat :
          /\ Transmitting(c, a)
          /\ Called(a)
          /\ \/ printed = c /\ Listening(c, a)
             \/ printed = None /\ Heard(c, a)

SerialInv ==
    \/ direction = "in" /\ TypingInv
    \/ direction = "out" /\ (CHECKS_STOP \/ PrintingInv)

===============================================================================
