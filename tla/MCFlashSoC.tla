------------------------------ MODULE MCFlashSoC ------------------------------
(***************************************************************************)
(* Words of two bytes of two bits, a command of one bit and addresses of   *)
(* three: sending and receiving take four clocks each, as many as each     *)
(* other, like the 32 of the source.                                       *)
(***************************************************************************)
EXTENDS FlashSoC

MCCommand == <<0>>

\* Every byte, and every word, differs from the others.
MCContents == [b \in 0 .. 7 |-> IF b = 0 THEN <<0, 1>> ELSE IF b = 1 THEN <<1, 0>>
                                ELSE IF b = 4 THEN <<1, 1>> ELSE <<0, 0>>]

MCReset == [page |-> "flash", word |-> 0]
MCCode  == {MCReset, [page |-> "flash", word |-> 2], [page |-> "ram", word |-> 0]}
MCData  == {[page |-> "flash", word |-> 2], [page |-> "ram", word |-> 0]}

===============================================================================
