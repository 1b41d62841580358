---------------------------------- MODULE UART ----------------------------------
(***************************************************************************)
(* The serial port: the receiver and the transmitter of buart, and the      *)
(* break that the wrapper raises when a CTRL-C has been received.          *)
(* One step is one positive clock edge.                                    *)
(*                                                                         *)
(* Bytes are sequences of bits in the order of the wire, the least         *)
(* significant one first.  A counter that is below zero has its sign bit   *)
(* set.                                                                    *)
(***************************************************************************)
EXTENDS Integers, Sequences

CONSTANTS divider,          \* clocks per bit, the counters add two
          BAUD_MAX,         \* what a counter holds without its sign bit
          DATA_BITS         \* (8)

\* A divider that is a power of two would set the sign bit of its counter.
ASSUME BaudAssumption ==
    /\ divider \in Nat \ {0}
    /\ BAUD_MAX \in Nat /\ divider <= BAUD_MAX /\ divider \div 2 + 1 <= BAUD_MAX
    /\ DATA_BITS \in Nat \ {0}

Byte   == [1 .. DATA_BITS -> {0, 1}]
CTRL_C == [i \in 1 .. DATA_BITS |-> IF i <= 2 THEN 1 ELSE 0]

baud_init      == divider
half_baud_init == divider \div 2 + 1

-------------------------------------------------------------------------------
(* The receiver. *)

VARIABLES recv_divcnt, recv_state, recv_pattern, recv_buf_data, recv_buf_valid, brk

receiverVars == <<recv_divcnt, recv_state, recv_pattern, recv_buf_data, recv_buf_valid, brk>>

recv_baud_clk == recv_divcnt < 0

Inverted(bits) == [i \in 1 .. Len(bits) |-> 1 - bits[i]]

\* The inverted start bit has come out at the end of the register.
Received == recv_state = 1 /\ recv_baud_clk /\ recv_pattern[1] = 1

WaitStart(rx) ==
    /\ recv_state = 0
    /\ recv_state' = 1 - rx
    /\ recv_divcnt' = IF rx = 0 THEN half_baud_init ELSE recv_divcnt
    /\ recv_pattern' = [i \in 1 .. DATA_BITS + 1 |-> 0]
    /\ UNCHANGED recv_buf_data

CountDown ==
    /\ recv_state = 1
    /\ ~recv_baud_clk
    /\ recv_divcnt' = recv_divcnt - 1
    /\ UNCHANGED <<recv_state, recv_pattern, recv_buf_data>>

Sample(rx) ==
    /\ recv_state = 1
    /\ recv_baud_clk
    /\ ~Received
    /\ recv_pattern' = Append(Tail(recv_pattern), 1 - rx)
    /\ recv_divcnt' = baud_init
    /\ UNCHANGED <<recv_state, recv_buf_data>>

Complete ==
    /\ Received
    /\ recv_buf_data' = Inverted(Tail(recv_pattern))
    /\ recv_state' = 0
    /\ UNCHANGED <<recv_divcnt, recv_pattern>>

\* Mutant: a read wins over a byte that is complete in the same clock.
ValidReadWins(rd) ==
    recv_buf_valid' = (~rd /\ ~brk /\ (Received \/ recv_buf_valid))

\* A byte that is complete wins over a read, and over the break.
Valid(rd) ==
    recv_buf_valid' = (Received \/ (recv_buf_valid /\ ~rd /\ ~brk))

\* Mutant: a read of the byte takes the break back.
BreakUnlessRead(rd) == brk' = (recv_buf_valid /\ recv_buf_data = CTRL_C /\ ~rd)

Break(rd) == brk' = (recv_buf_valid /\ recv_buf_data = CTRL_C)

ReceiverClk(rx, rd) ==
    /\ WaitStart(rx) \/ CountDown \/ Sample(rx) \/ Complete
    /\ Valid(rd)
    /\ Break(rd)

\* Registers without an initial value power up at zero: the receiver has no
\* reset and waits for a start bit.
ReceiverInit ==
    /\ recv_state = 0
    /\ recv_divcnt = 0
    /\ recv_pattern = [i \in 1 .. DATA_BITS + 1 |-> 0]
    /\ recv_buf_data \in Byte
    /\ recv_buf_valid = FALSE
    /\ brk = FALSE

-------------------------------------------------------------------------------
(* The transmitter. *)

VARIABLES send_divcnt, send_pattern

transmitterVars == <<send_divcnt, send_pattern>>

send_baud_clk == send_divcnt < 0

tx   == send_pattern[1]
busy == \E i \in 2 .. DATA_BITS + 2 : send_pattern[i] = 1

\* Mutant: the counter is not restarted by a write.
TransmitterClkRunsFree(wr, tx_data) ==
    /\ send_pattern' = IF wr THEN <<0>> \o tx_data \o <<1>>
                       ELSE IF send_baud_clk /\ busy THEN Append(Tail(send_pattern), 0)
                       ELSE send_pattern
    /\ send_divcnt' = IF send_baud_clk THEN baud_init ELSE send_divcnt - 1

\* Mutant: ones come in behind the stop bit.
TransmitterClkFillsOnes(wr, tx_data) ==
    /\ send_pattern' = IF wr THEN <<0>> \o tx_data \o <<1>>
                       ELSE IF send_baud_clk /\ busy THEN Append(Tail(send_pattern), 1)
                       ELSE send_pattern
    /\ send_divcnt' = IF wr \/ send_baud_clk THEN baud_init ELSE send_divcnt - 1

\* It shifts until the stop bit is on the wire, and stops shifting then.
TransmitterClk(wr, tx_data) ==
    /\ send_pattern' = IF wr THEN <<0>> \o tx_data \o <<1>>
                       ELSE IF send_baud_clk /\ busy THEN Append(Tail(send_pattern), 0)
                       ELSE send_pattern
    /\ send_divcnt' = IF wr \/ send_baud_clk THEN baud_init ELSE send_divcnt - 1

TransmitterInit ==
    /\ send_divcnt \in -1 .. BAUD_MAX
    /\ send_pattern = [i \in 1 .. DATA_BITS + 2 |-> IF i = 1 THEN 1 ELSE 0]

===============================================================================
