-------------------------------- MODULE SdProof --------------------------------
(***************************************************************************)
(* Proofs about SdDriver, for every kind and size of card, every delay of  *)
(* its answers, any number of commands missed and of resets, and all       *)
(* limits of the loops of the driver.                                      *)
(*                                                                         *)
(* They follow a command over the bus: what the card may do with it        *)
(* (Reactions), what the driver hears of that (Outcome), and what a step   *)
(* of the driver makes of what it hears.                                   *)
(***************************************************************************)
EXTENDS SdDriver, SequenceTheorems, TLAPS

-------------------------------------------------------------------------------
(* What goes over the bus. *)

\* A sequence without its first n elements.
LEMMA Dropped ==
  ASSUME NEW S, NEW s \in Seq(S), NEW n \in 0 .. Len(s)
  PROVE  /\ SubSeq(s, n + 1, Len(s)) \in Seq(S)
         /\ Len(SubSeq(s, n + 1, Len(s))) = Len(s) - n
         /\ \A i \in 1 .. Len(s) - n : SubSeq(s, n + 1, Len(s))[i] = s[n + i]
         /\ n = Len(s) => SubSeq(s, n + 1, Len(s)) = <<>>
<1> DEFINE m == n + 1
<1>1. Len(s) \in Nat /\ n \in Nat /\ m \in Int
  BY LenProperties
<1>2. \A i \in m .. Len(s) : s[i] \in S
  BY <1>1, ElementOfSeq
<1>3. /\ SubSeq(s, m, Len(s)) \in Seq(S)
      /\ Len(SubSeq(s, m, Len(s))) = IF m <= Len(s) THEN Len(s) - m + 1 ELSE 0
      /\ \A i \in 1 .. Len(s) - m + 1 : SubSeq(s, m, Len(s))[i] = s[m + i - 1]
  <2> HIDE DEF m
  <2> QED
    BY <1>1, <1>2, SubSeqProperties
<1>4. \A i \in 1 .. Len(s) - n : i \in 1 .. Len(s) - m + 1 /\ m + i - 1 = n + i
  BY <1>1
<1>5. n = Len(s) => Len(s) < m
  BY <1>1
<1>6. n = Len(s) => SubSeq(s, m, Len(s)) = <<>>
  BY <1>1, <1>5, SubSeqEmpty
<1> QED
  BY <1>1, <1>3, <1>4, <1>6

\* What a byte does not change of a card.
Same(c, x) ==
    /\ x.kind = c.kind /\ x.ready = c.ready /\ x.app = c.app /\ x.rounds = c.rounds
    /\ x.target = c.target /\ x.missed = c.missed /\ x.disk = c.disk

\* The card after n bytes: it has sent what it had, or the first n of it, and then was busy.
LEMMA AfterBytes ==
  ASSUME NEW c \in CardStates, NEW n \in Nat
  PROVE  /\ After(c, n) \in CardStates
         /\ Same(c, After(c, n))
         /\ n <= Len(c.out) => /\ After(c, n).out = SubSeq(c.out, n + 1, Len(c.out))
                               /\ After(c, n).busy = c.busy
         /\ n >= Len(c.out) => /\ After(c, n).out = <<>>
                               /\ After(c, n).busy = IF c.busy > n - Len(c.out)
                                                     THEN c.busy - (n - Len(c.out)) ELSE 0
<1> DEFINE sent == IF n < Len(c.out) THEN n ELSE Len(c.out)
           out  == SubSeq(c.out, sent + 1, Len(c.out))
           busy == IF c.busy > n - sent THEN c.busy - (n - sent) ELSE 0
<1>1. c.out \in Seq(Sent) /\ Len(c.out) \in Nat /\ c.busy \in Nat
  BY DEF CardStates
<1>2. sent \in 0 .. Len(c.out) /\ sent <= n /\ busy \in Nat /\ busy <= c.busy
  BY <1>1
<1>3. out \in Seq(Sent) /\ (sent = Len(c.out) => out = <<>>)
  <2> HIDE DEF sent
  <2> QED
    BY <1>1, <1>2, Dropped
<1>4. After(c, n) = [c EXCEPT !.out = out, !.busy = busy]
  BY DEF After
<1>5. After(c, n) \in CardStates /\ Same(c, After(c, n))
  <2> HIDE DEF out, busy
  <2> QED
    BY <1>2, <1>3, <1>4 DEF CardStates, Same
<1>6. After(c, n).out = out /\ After(c, n).busy = busy
  <2> HIDE DEF out, busy
  <2> QED
    BY <1>4 DEF CardStates
<1>7. n <= Len(c.out) => sent = n /\ busy = c.busy
  BY <1>1
<1>8. n >= Len(c.out) => sent = Len(c.out)
  BY <1>1
<1>9. n <= Len(c.out) => out = SubSeq(c.out, n + 1, Len(c.out))
  BY <1>7
<1>10. n >= Len(c.out) => /\ out = <<>>
                          /\ busy = IF c.busy > n - Len(c.out)
                                    THEN c.busy - (n - Len(c.out)) ELSE 0
  BY <1>3, <1>8
<1> HIDE DEF sent, out, busy
<1> QED
  BY <1>5, <1>6, <1>7, <1>9, <1>10

\* The byte after n bytes.
LEMMA ByteAfter ==
  ASSUME NEW c \in CardStates, NEW n \in Nat
  PROVE  Received(c, n) = IF n < Len(c.out) THEN c.out[n + 1]
                          ELSE IF c.busy > n - Len(c.out) THEN "00" ELSE "ff"
<1>1. c.out \in Seq(Sent) /\ Len(c.out) \in Nat /\ c.busy \in Nat
  BY DEF CardStates
<1>2. CASE n < Len(c.out)
  <2>0. n <= Len(c.out)
    BY <1>1, <1>2
  <2>1. After(c, n).out = SubSeq(c.out, n + 1, Len(c.out))
    BY <2>0, AfterBytes
  <2>2. n \in 0 .. Len(c.out) /\ 1 \in 1 .. Len(c.out) - n
    BY <1>1, <1>2
  <2>3. /\ Len(After(c, n).out) = Len(c.out) - n
        /\ After(c, n).out[1] = c.out[n + 1]
    BY <1>1, <2>1, <2>2, Dropped
  <2>4. After(c, n).out # <<>>
    BY <1>1, <1>2, <2>3
  <2> QED
    BY <1>2, <2>3, <2>4 DEF Received, NextByte
<1>3. CASE n >= Len(c.out)
  <2>1. /\ After(c, n).out = <<>>
        /\ After(c, n).busy = IF c.busy > n - Len(c.out) THEN c.busy - (n - Len(c.out)) ELSE 0
    BY <1>3, AfterBytes
  <2>2. After(c, n).busy > 0 <=> c.busy > n - Len(c.out)
    BY <1>1, <2>1
  <2>3. Received(c, n) = IF After(c, n).busy > 0 THEN "00" ELSE "ff"
    BY <2>1 DEF Received, NextByte
  <2> QED
    BY <1>1, <1>3, <2>2, <2>3
<1> QED
  BY <1>1, <1>2, <1>3

\* The driver stops waiting at the first byte that is not 0xff.
LEMMA WaitsForAnswer ==
  ASSUME NEW c \in CardStates, NEW k \in 0 .. POLLS, Received(c, k) # "ff",
         \A i \in 0 .. k - 1 : Received(c, i) = "ff"
  PROVE  Waited(c) = k
<1> DEFINE S == { i \in 0 .. POLLS + 1 : Received(c, i) # "ff" } \cup {POLLS + 1}
<1>1. POLLS \in Nat
  BY SdAssumption
<1>2. k \in S
  BY <1>1
<1>3. \A i \in S : i \in Nat /\ k <= i
  BY <1>1
<1>4. \A x \in S : (\A y \in S : x <= y) => x = k
  BY <1>1, <1>2, <1>3
<1> HIDE DEF S
<1>5. Min(S) = k
  BY <1>2, <1>3, <1>4 DEF Min
<1> QED
  BY <1>5 DEF Waited, S

\* It waits in vain if there is no answer.
LEMMA WaitsInVain ==
  ASSUME NEW c \in CardStates, \A i \in Nat : Received(c, i) = "ff"
  PROVE  Waited(c) = POLLS + 1
<1>1. POLLS \in Nat
  BY SdAssumption
<1>2. { i \in 0 .. POLLS + 1 : Received(c, i) # "ff" } \cup {POLLS + 1} = {POLLS + 1}
  BY <1>1
<1>3. Min({POLLS + 1}) = POLLS + 1
  BY <1>1 DEF Min
<1> QED
  BY <1>2, <1>3 DEF Waited
-------------------------------------------------------------------------------
(* What a card says to a command. *)

\* An answer with what follows it.
Answers(c, r) ==
    /\ r \in CardStates
    /\ r.kind = c.kind /\ r.missed = c.missed /\ r.disk = c.disk /\ r.busy = c.busy
    /\ Len(r.out) > 0 /\ r.out[1] \in {"00", "01", "05"}

\* A card that has become x and says bytes.
LEMMA Says ==
  ASSUME NEW c \in CardStates, NEW x \in CardStates, NEW bytes \in Seq(Sent), NEW r,
         r = [x EXCEPT !.out = bytes],
         x.kind = c.kind, x.missed = c.missed, x.disk = c.disk, x.busy = c.busy,
         Len(bytes) > 0, bytes[1] \in {"00", "01", "05"}
  PROVE  /\ Answers(c, r) /\ r.out = bytes
         /\ r.ready = x.ready /\ r.target = x.target
BY DEF CardStates, Answers

\* The sequences that are said.
LEMMA Bytes ==
  /\ \A a \in Sent : <<a>> \in Seq(Sent) /\ Len(<<a>>) = 1 /\ <<a>>[1] = a
  /\ \A a, b, c, d, e \in Sent :
        /\ <<a, b, c, d, e>> \in Seq(Sent) /\ Len(<<a, b, c, d, e>>) = 5
        /\ <<a, b, c, d, e>>[1] = a /\ <<a, b, c, d, e>>[2] = b
  /\ {"00", "01", "05", "40", "aa", "ff", "fe", "error", "crc", "accepted", "rejected"} \subseteq Sent
<1>1. ASSUME NEW a \in Sent
      PROVE  <<a>> \in Seq(Sent) /\ Len(<<a>>) = 1 /\ <<a>>[1] = a
  OBVIOUS
<1>2. ASSUME NEW a \in Sent, NEW b \in Sent, NEW c \in Sent, NEW d \in Sent, NEW e \in Sent
      PROVE  /\ <<a, b, c, d, e>> \in Seq(Sent) /\ Len(<<a, b, c, d, e>>) = 5
             /\ <<a, b, c, d, e>>[1] = a /\ <<a, b, c, d, e>>[2] = b
  OBVIOUS
<1>3. {"00", "01", "05", "40", "aa", "ff", "fe", "error", "crc", "accepted", "rejected"} \subseteq Sent
  BY DEF Sent
<1> QED
  BY <1>1, <1>2, <1>3

\* CMD0 makes the card not ready.
LEMMA ReactionToCMD0 ==
  ASSUME NEW c \in CardStates, NEW arg, NEW r \in Reactions(c, "CMD0", arg)
  PROVE  Answers(c, r) /\ ~r.ready /\ r.target = c.target /\ Len(r.out) = 1
<1> DEFINE bytes == <<"01">>
<1>1. PICK n \in Rounds :
          r = [[c EXCEPT !.ready = FALSE, !.app = FALSE, !.rounds = n] EXCEPT !.out = bytes]
  BY DEF Reactions
<1>2. PICK x : x = [c EXCEPT !.ready = FALSE, !.app = FALSE, !.rounds = n]
  OBVIOUS
<1>3. n \in Nat
  BY SdAssumption
<1>4. x \in CardStates
  BY <1>2, <1>3 DEF CardStates
<1>5. /\ x.kind = c.kind /\ x.missed = c.missed /\ x.disk = c.disk /\ x.busy = c.busy
      /\ x.target = c.target
  BY <1>2 DEF CardStates
<1>6. ~x.ready
  BY <1>2 DEF CardStates
<1>7. bytes \in Seq(Sent) /\ Len(bytes) = 1 /\ bytes[1] = "01"
  BY Bytes
<1> HIDE DEF bytes
<1>8. Len(bytes) > 0 /\ bytes[1] \in {"00", "01", "05"}
  BY <1>7
<1>9. r = [x EXCEPT !.out = bytes]
  BY <1>1, <1>2
<1>10. Answers(c, r) /\ r.out = bytes /\ r.ready = x.ready /\ r.target = x.target
  BY <1>4, <1>5, <1>7, <1>8, <1>9, Says
<1> QED
  BY <1>5, <1>6, <1>7, <1>10

\* Only an older card does not know CMD8.
LEMMA ReactionToCMD8 ==
  ASSUME NEW c \in CardStates, NEW arg, NEW r \in Reactions(c, "CMD8", arg)
  PROVE  /\ Answers(c, r) /\ r.ready = c.ready /\ r.target = c.target
         /\ c.kind = "v1" => r.out[1] = "05"
         /\ c.kind # "v1" /\ ~c.ready => r.out[1] = "01"
<1> DEFINE idle  == IF c.ready THEN "00" ELSE "01"
           bytes == IF c.kind = "v1" THEN <<"05">> ELSE <<idle, "00", "00", "01", "aa">>
<1>1. r = [c EXCEPT !.out = bytes]
  BY DEF Reactions
<1>2. idle \in Sent /\ idle \in {"00", "01"}
  BY Bytes
<1>3. /\ bytes \in Seq(Sent) /\ Len(bytes) > 0
      /\ bytes[1] = IF c.kind = "v1" THEN "05" ELSE idle
  <2> HIDE DEF idle
  <2> QED
    BY <1>2, Bytes
<1> HIDE DEF bytes
<1>4. bytes[1] \in {"00", "01", "05"}
  BY <1>2, <1>3
<1>5. Answers(c, r) /\ r.out = bytes /\ r.ready = c.ready /\ r.target = c.target
  BY <1>1, <1>3, <1>4, Says
<1> QED
  BY <1>3, <1>5

\* CMD55 announces another command.
LEMMA ReactionToCMD55 ==
  ASSUME NEW c \in CardStates, NEW arg, NEW r \in Reactions(c, "CMD55", arg)
  PROVE  Answers(c, r) /\ r.ready = c.ready /\ r.target = c.target
<1> DEFINE idle  == IF c.ready THEN "00" ELSE "01"
           bytes == <<idle>>
           x     == [c EXCEPT !.app = TRUE]
<1>1. r = [x EXCEPT !.out = bytes]
  BY DEF Reactions
<1>2. idle \in Sent /\ idle \in {"00", "01"}
  BY Bytes
<1>3. bytes \in Seq(Sent) /\ Len(bytes) > 0 /\ bytes[1] = idle
  <2> HIDE DEF idle
  <2> QED
    BY <1>2, Bytes
<1>4. x \in CardStates
  BY DEF CardStates
<1>5. /\ x.kind = c.kind /\ x.missed = c.missed /\ x.disk = c.disk /\ x.busy = c.busy
      /\ x.target = c.target /\ x.ready = c.ready
  BY DEF CardStates
<1> HIDE DEF bytes, x, idle
<1>6. bytes[1] \in {"00", "01", "05"}
  BY <1>2, <1>3
<1>7. Answers(c, r) /\ r.out = bytes /\ r.ready = x.ready /\ r.target = x.target
  BY <1>1, <1>3, <1>4, <1>5, <1>6, Says
<1> QED
  BY <1>5, <1>7

\* A card that answers ACMD41 with "00" is ready.
LEMMA ReactionToACMD41 ==
  ASSUME NEW c \in CardStates, NEW arg, NEW r \in Reactions(c, "ACMD41", arg)
  PROVE  Answers(c, r) /\ r.target = c.target /\ (r.out[1] = "00" => r.ready)
<1> DEFINE idle  == IF c.ready THEN "00" ELSE "01"
           bytes == IF ~c.app THEN <<"05">> ELSE IF c.rounds = 0 THEN <<"00">> ELSE <<idle>>
           x     == IF ~c.app THEN c
                    ELSE IF c.rounds = 0 THEN [c EXCEPT !.app = FALSE, !.ready = TRUE]
                    ELSE [c EXCEPT !.app = FALSE, !.rounds = @ - 1]
<1>1. r = [x EXCEPT !.out = bytes]
  BY DEF Reactions
<1>2. idle \in Sent /\ idle \in {"00", "01"} /\ (idle = "00" <=> c.ready)
  BY Bytes DEF CardStates
<1>3. /\ bytes \in Seq(Sent) /\ Len(bytes) > 0
      /\ bytes[1] = IF ~c.app THEN "05" ELSE IF c.rounds = 0 THEN "00" ELSE idle
  <2> HIDE DEF idle
  <2> QED
    BY <1>2, Bytes
<1>4. x \in CardStates
  <2>1. [c EXCEPT !.app = FALSE, !.ready = TRUE] \in CardStates
    BY DEF CardStates
  <2>2. c.rounds # 0 => c.rounds - 1 \in Nat
    BY DEF CardStates
  <2>3. c.rounds # 0 => [c EXCEPT !.app = FALSE, !.rounds = @ - 1] \in CardStates
    BY <2>2 DEF CardStates
  <2> QED
    BY <2>1, <2>3
<1>5. /\ x.kind = c.kind /\ x.missed = c.missed /\ x.disk = c.disk /\ x.busy = c.busy
      /\ x.target = c.target
  <2>1. CASE ~c.app
    BY <2>1 DEF CardStates
  <2>2. CASE c.app /\ c.rounds = 0
    BY <2>2 DEF CardStates
  <2>3. CASE c.app /\ c.rounds # 0
    BY <2>3 DEF CardStates
  <2> QED
    BY <2>1, <2>2, <2>3
<1>9. c.app /\ (c.rounds = 0 \/ c.ready) => x.ready
  BY DEF CardStates
<1> HIDE DEF bytes, x, idle
<1>6. bytes[1] \in {"00", "01", "05"}
  BY <1>2, <1>3
<1>7. Answers(c, r) /\ r.out = bytes /\ r.ready = x.ready /\ r.target = x.target
  BY <1>1, <1>3, <1>4, <1>5, <1>6, Says
<1>8. bytes[1] = "00" => x.ready
  BY <1>2, <1>3, <1>9
<1> QED
  BY <1>5, <1>7, <1>8

\* A card that is ready says whether it is addressed by sectors.
LEMMA ReactionToCMD58 ==
  ASSUME NEW c \in CardStates, NEW arg, NEW r \in Reactions(c, "CMD58", arg)
  PROVE  /\ Answers(c, r) /\ r.ready = c.ready /\ r.target = c.target /\ Len(r.out) = 5
         /\ c.ready => r.out[1] = "00"
         /\ r.out[2] = "40" <=> c.kind = "hc"
<1> DEFINE idle  == IF c.ready THEN "00" ELSE "01"
           ocr   == IF c.kind = "hc" THEN "40" ELSE "00"
           bytes == <<idle, ocr, "00", "00", "00">>
<1>1. r = [c EXCEPT !.out = bytes]
  BY DEF Reactions
<1>2. idle \in Sent /\ idle \in {"00", "01"} /\ ocr \in Sent
  BY Bytes
<1>3. bytes \in Seq(Sent) /\ Len(bytes) = 5 /\ bytes[1] = idle /\ bytes[2] = ocr
  <2> HIDE DEF idle, ocr
  <2> QED
    BY <1>2, Bytes
<1> HIDE DEF bytes
<1>4. bytes[1] \in {"00", "01", "05"}
  BY <1>2, <1>3
<1>5. Answers(c, r) /\ r.out = bytes /\ r.ready = c.ready /\ r.target = c.target
  BY <1>1, <1>3, <1>4, Says
<1> QED
  BY <1>3, <1>5
-------------------------------------------------------------------------------
(* Tokens. *)

\* Two things that are sent one after the other.
LEMMA Joined ==
  ASSUME NEW p \in Seq(Sent), NEW q \in Seq(Sent)
  PROVE  /\ p \o q \in Seq(Sent) /\ Len(p) \in Nat /\ Len(q) \in Nat
         /\ Len(p \o q) = Len(p) + Len(q)
         /\ \A i \in 1 .. Len(p) : (p \o q)[i] = p[i]
         /\ \A i \in 1 .. Len(q) : (p \o q)[Len(p) + i] = q[i]
<1>1. Len(p) \in Nat /\ Len(q) \in Nat
  BY LenProperties
<1>2. /\ p \o q \in Seq(Sent)
      /\ Len(p \o q) = Len(p) + Len(q)
      /\ \A i \in 1 .. Len(p) + Len(q) : (p \o q)[i] =
                  IF i <= Len(p) THEN p[i] ELSE q[i - Len(p)]
  BY ConcatProperties
<1>3. \A i \in 1 .. Len(p) : i \in 1 .. Len(p) + Len(q) /\ i <= Len(p)
  BY <1>1
<1>4. \A i \in 1 .. Len(q) : /\ Len(p) + i \in 1 .. Len(p) + Len(q)
                            /\ ~(Len(p) + i <= Len(p)) /\ (Len(p) + i) - Len(p) = i
  BY <1>1
<1> QED
  BY <1>1, <1>2, <1>3, <1>4

\* The token is still the first after anything that is none.
LEMMA TokenComesLater ==
  ASSUME NEW p \in Seq(Sent), NEW q \in Seq(Sent), NEW v,
         \A i \in 1 .. Len(p) : p[i] # "fe", TokenBefore(q, v)
  PROVE  TokenBefore(p \o q, v)
<1>1. /\ Len(p) \in Nat /\ Len(q) \in Nat
      /\ p \o q \in Seq(Sent) /\ Len(p \o q) = Len(p) + Len(q)
      /\ DOMAIN (p \o q) = 1 .. Len(p) + Len(q) /\ DOMAIN q = 1 .. Len(q)
      /\ \A i \in 1 .. Len(p) : (p \o q)[i] = p[i]
  BY Joined, LenProperties
<1>2. \A i \in Len(p) + 1 .. Len(p) + Len(q) : (p \o q)[i] = q[i - Len(p)]
  <2>1. \A i \in Len(p) + 1 .. Len(p) + Len(q) : /\ i - Len(p) \in 1 .. Len(q)
                                                /\ Len(p) + (i - Len(p)) = i
    BY <1>1
  <2> QED
    BY <2>1, Joined
<1> DEFINE s == p \o q
<1> HIDE DEF s
<1>3. ASSUME NEW i \in DOMAIN s, s[i] = "fe", \A j \in 1 .. i - 1 : s[j] # "fe"
      PROVE  i < Len(s) /\ s[i + 1] = v
  <2>1. i \in Len(p) + 1 .. Len(p) + Len(q)
    BY <1>1, <1>3 DEF s
  <2> DEFINE k == i - Len(p)
  <2>2. k \in 1 .. Len(q) /\ k \in DOMAIN q
    BY <1>1, <2>1
  <2>3. q[k] = "fe"
    BY <1>2, <1>3, <2>1 DEF s
  <2>4. \A j \in 1 .. k - 1 : q[j] # "fe"
    <3> SUFFICES ASSUME NEW j \in 1 .. k - 1 PROVE q[j] # "fe"
      OBVIOUS
    <3>1. j + Len(p) \in 1 .. i - 1 /\ j + Len(p) \in Len(p) + 1 .. Len(p) + Len(q)
      BY <1>1, <2>1
    <3>2. s[j + Len(p)] = q[j + Len(p) - Len(p)]
      BY <1>2, <3>1 DEF s
    <3>3. j + Len(p) - Len(p) = j
      BY <1>1
    <3> QED
      BY <1>3, <3>1, <3>2, <3>3
  <2>5. k < Len(q) /\ q[k + 1] = v
    <3> HIDE DEF k
    <3> QED
      BY <2>2, <2>3, <2>4 DEF TokenBefore
  <2>6. i + 1 \in Len(p) + 1 .. Len(p) + Len(q) /\ i < Len(p) + Len(q) /\ i + 1 - Len(p) = k + 1
    BY <1>1, <2>1, <2>5
  <2> QED
    BY <1>1, <1>2, <2>5, <2>6 DEF s
<1> QED
  BY <1>3 DEF s, TokenBefore

\* It is the first of what is left when what was sent was none.
LEMMA TokenStillComes ==
  ASSUME NEW s \in Seq(Sent), NEW n \in 0 .. Len(s), NEW v,
         \A i \in 1 .. n : s[i] # "fe", TokenBefore(s, v)
  PROVE  TokenBefore(SubSeq(s, n + 1, Len(s)), v)
<1> DEFINE q == SubSeq(s, n + 1, Len(s))
<1>1. /\ Len(s) \in Nat /\ n \in Nat /\ n <= Len(s)
      /\ q \in Seq(Sent) /\ Len(q) = Len(s) - n
      /\ \A i \in 1 .. Len(s) - n : q[i] = s[n + i]
  BY Dropped, LenProperties
<1>2. DOMAIN q = 1 .. Len(s) - n /\ DOMAIN s = 1 .. Len(s)
  BY <1>1, LenProperties
<1> HIDE DEF q
<1>3. ASSUME NEW i \in DOMAIN q, q[i] = "fe", \A j \in 1 .. i - 1 : q[j] # "fe"
      PROVE  i < Len(q) /\ q[i + 1] = v
  <2>1. i \in 1 .. Len(s) - n /\ n + i \in DOMAIN s
    BY <1>1, <1>2
  <2>2. s[n + i] = "fe"
    BY <1>1, <1>3, <2>1
  <2>3. \A j \in 1 .. (n + i) - 1 : s[j] # "fe"
    <3> SUFFICES ASSUME NEW j \in 1 .. (n + i) - 1, j > n PROVE s[j] # "fe"
      BY <1>1, <2>1
    <3>1. j - n \in 1 .. i - 1 /\ j - n \in 1 .. Len(s) - n /\ n + (j - n) = j
      BY <1>1, <2>1
    <3> QED
      BY <1>1, <1>3, <3>1
  <2>4. n + i < Len(s) /\ s[(n + i) + 1] = v
    BY <2>1, <2>2, <2>3 DEF TokenBefore
  <2>5. i < Len(s) - n /\ i + 1 \in 1 .. Len(s) - n /\ n + (i + 1) = (n + i) + 1
    BY <1>1, <2>1, <2>4
  <2> QED
    BY <1>1, <2>4, <2>5
<1> QED
  BY <1>3 DEF q, TokenBefore

\* What is sent ahead of an answer.
LEMMA SilenceIs ==
  ASSUME NEW k \in Nat
  PROVE  /\ Silence(k) \in Seq(Sent) /\ Len(Silence(k)) = k
         /\ \A i \in 1 .. k : Silence(k)[i] = "ff"
<1>1. \A i \in 1 .. k : "ff" \in Sent
  BY DEF Sent
<1>2. Silence(k) = [i \in 1 .. k |-> "ff"]
  BY DEF Silence
<1>3. Silence(k) \in Seq(Sent)
  BY <1>1, <1>2
<1> QED
  BY <1>2, <1>3

\* A block, or an error, that follows an answer at some distance.
LEMMA TokenAnswer ==
  ASSUME NEW v, NEW k \in TokenDelays, NEW tail \in Seq(Sent), TokenBefore(tail, v),
         NEW s, s = <<"00">> \o Silence(k) \o tail
  PROVE  /\ s \in Seq(Sent) /\ Len(s) > 1 /\ s[1] = "00" /\ s[2] = "ff"
         /\ TokenBefore(s, v)
<1> DEFINE one == <<"00">>
           p   == one \o Silence(k)
<1>1. k \in Nat /\ k > 0
  BY SdAssumption
<1>2. /\ Silence(k) \in Seq(Sent) /\ Len(Silence(k)) = k
      /\ \A i \in 1 .. k : Silence(k)[i] = "ff"
  BY <1>1, SilenceIs
<1>3. one \in Seq(Sent) /\ Len(one) = 1 /\ one[1] = "00"
  BY Bytes
<1> HIDE DEF one
<1>4. /\ p \in Seq(Sent) /\ Len(p) = 1 + k /\ p[1] = "00"
      /\ \A i \in 2 .. 1 + k : p[i] = "ff"
  <2>1. /\ p \in Seq(Sent) /\ Len(p) = Len(one) + Len(Silence(k))
        /\ \A i \in 1 .. Len(one) : p[i] = one[i]
        /\ \A i \in 1 .. Len(Silence(k)) : p[Len(one) + i] = Silence(k)[i]
    BY <1>2, <1>3, Joined
  <2>2. p[1] = "00" /\ \A i \in 1 .. k : p[1 + i] = "ff"
    BY <1>2, <1>3, <2>1
  <2>3. \A i \in 2 .. 1 + k : i - 1 \in 1 .. k /\ 1 + (i - 1) = i
    BY <1>1
  <2> QED
    BY <1>2, <1>3, <2>1, <2>2, <2>3
<1>5. s = p \o tail
  BY DEF one
<1> HIDE DEF p
<1>6. /\ s \in Seq(Sent) /\ Len(s) = Len(p) + Len(tail)
      /\ \A i \in 1 .. Len(p) : s[i] = p[i]
  <2>1. p \in Seq(Sent)
    BY <1>4
  <2>2. /\ p \o tail \in Seq(Sent) /\ Len(p \o tail) = Len(p) + Len(tail)
        /\ \A i \in 1 .. Len(p) : (p \o tail)[i] = p[i]
    BY <2>1, Joined
  <2> QED
    BY <1>5, <2>2
<1>7. TokenBefore(s, v)
  <2>1. \A i \in 1 .. Len(p) : p[i] # "fe"
    BY <1>1, <1>4
  <2> QED
    BY <1>4, <1>5, <2>1, TokenComesLater
<1>8. Len(tail) \in Nat /\ 1 \in 1 .. 1 + k /\ 2 \in 1 .. 1 + k /\ 2 \in 2 .. 1 + k
  BY <1>1, LenProperties
<1> QED
  BY <1>1, <1>4, <1>6, <1>7, <1>8

\* A block, or an error, that follows the answer at once.
LEMMA TokenFirst ==
  ASSUME NEW v \in Sent
  PROVE  /\ <<"fe", v, "crc", "crc">> \in Seq(Sent) /\ TokenBefore(<<"fe", v, "crc", "crc">>, v)
         /\ <<"error">> \in Seq(Sent) /\ TokenBefore(<<"error">>, v)
<1> DEFINE s == <<"fe", v, "crc", "crc">>
<1>1. "fe" \in Sent /\ "crc" \in Sent /\ "error" \in Sent
  BY DEF Sent
<1>2. s \in Seq(Sent) /\ Len(s) = 4 /\ s[1] = "fe" /\ s[2] = v /\ DOMAIN s = 1 .. 4
  BY <1>1
<1> HIDE DEF s
<1>3. ASSUME NEW i \in DOMAIN s, s[i] = "fe", \A j \in 1 .. i - 1 : s[j] # "fe"
      PROVE  i < Len(s) /\ s[i + 1] = v
  <2>1. i = 1
    BY <1>2, <1>3
  <2> QED
    BY <1>2, <2>1
<1>4. TokenBefore(s, v)
  BY <1>3 DEF TokenBefore
<1>5. <<"error">> \in Seq(Sent)
  BY <1>1
<1>6. TokenBefore(<<"error">>, v)
  BY DEF TokenBefore
<1> QED
  BY <1>2, <1>4, <1>5, <1>6 DEF s

-------------------------------------------------------------------------------
(* What a card says to the commands for a sector. *)

\* A card that can read it sends the sector after its answer, or an error.
LEMMA ReactionToCMD17 ==
  ASSUME NEW c \in CardStates, NEW arg, NEW r \in Reactions(c, "CMD17", arg)
  PROVE  /\ Answers(c, r) /\ r.target = c.target
         /\ r.out[1] = "00" => /\ BlockAt(c, arg) \in Blocks
                               /\ TokenBefore(r.out, c.disk[BlockAt(c, arg)])
                               /\ Len(r.out) > 1 /\ r.out[2] = "ff"
<1> DEFINE b == BlockAt(c, arg)
           refused == <<"05">>
<1>0. refused \in Seq(Sent) /\ refused[1] = "05" /\ Len(refused) = 1
  BY Bytes
<1>1. \/ r = [c EXCEPT !.out = refused]
      \/ /\ b \in Blocks
         /\ \E k \in TokenDelays :
              \/ r = [c EXCEPT !.out = <<"00">> \o Silence(k) \o <<"fe", c.disk[b], "crc", "crc">>]
              \/ r = [c EXCEPT !.out = <<"00">> \o Silence(k) \o <<"error">>]
  BY DEF Reactions
<1>2. ASSUME NEW k \in TokenDelays, NEW tail \in Seq(Sent), b \in Blocks,
             TokenBefore(tail, c.disk[b]),
             r = [c EXCEPT !.out = <<"00">> \o Silence(k) \o tail]
      PROVE  /\ Answers(c, r) /\ r.target = c.target
             /\ TokenBefore(r.out, c.disk[b]) /\ Len(r.out) > 1 /\ r.out[2] = "ff"
  <2> DEFINE s == <<"00">> \o Silence(k) \o tail
  <2>1. /\ s \in Seq(Sent) /\ Len(s) > 1 /\ s[1] = "00" /\ s[2] = "ff"
        /\ TokenBefore(s, c.disk[b])
    BY <1>2, TokenAnswer
  <2>2. r = [c EXCEPT !.out = s]
    BY <1>2
  <2> HIDE DEF s
  <2>3. Len(s) > 0 /\ s[1] \in {"00", "01", "05"}
    BY <2>1, LenProperties
  <2>4. Answers(c, r) /\ r.out = s /\ r.target = c.target
    BY <2>1, <2>2, <2>3, Says
  <2> QED
    BY <2>1, <2>4
<1>3. b \in Blocks => c.disk[b] \in Sent
  BY DEF CardStates, Sent
<1>4. CASE r = [c EXCEPT !.out = refused]
  <2> HIDE DEF refused
  <2>1. Len(refused) > 0 /\ refused[1] \in {"00", "01", "05"}
    BY <1>0
  <2>2. Answers(c, r) /\ r.out = refused /\ r.target = c.target
    BY <1>0, <1>4, <2>1, Says
  <2> QED
    BY <1>0, <2>2
<1> HIDE DEF b
<1>5. CASE b \in Blocks /\ \E k \in TokenDelays :
              \/ r = [c EXCEPT !.out = <<"00">> \o Silence(k) \o <<"fe", c.disk[b], "crc", "crc">>]
              \/ r = [c EXCEPT !.out = <<"00">> \o Silence(k) \o <<"error">>]
  <2>1. PICK k \in TokenDelays :
              \/ r = [c EXCEPT !.out = <<"00">> \o Silence(k) \o <<"fe", c.disk[b], "crc", "crc">>]
              \/ r = [c EXCEPT !.out = <<"00">> \o Silence(k) \o <<"error">>]
    BY <1>5
  <2>2. c.disk[b] \in Sent
    BY <1>3, <1>5
  <2>3. PICK tail \in Seq(Sent) : /\ TokenBefore(tail, c.disk[b])
                                  /\ r = [c EXCEPT !.out = <<"00">> \o Silence(k) \o tail]
    BY <2>1, <2>2, TokenFirst
  <2> QED
    BY <1>2, <1>5, <2>3 DEF b
<1> QED
  BY <1>1, <1>4, <1>5 DEF b

\* A card that can write it expects the block.
LEMMA ReactionToCMD24 ==
  ASSUME NEW c \in CardStates, NEW arg, NEW r \in Reactions(c, "CMD24", arg), arg \in Int
  PROVE  /\ Answers(c, r) /\ Len(r.out) = 1
         /\ r.out[1] = "00" => r.target = BlockAt(c, arg)
<1> DEFINE b == BlockAt(c, arg)
<1>1. b \in Int
  BY SdAssumption DEF BlockAt
<1>2. CASE r = [c EXCEPT !.out = <<"05">>]
  <2> DEFINE refused == <<"05">>
  <2>1. refused \in Seq(Sent) /\ refused[1] = "05" /\ Len(refused) = 1
    BY Bytes
  <2> HIDE DEF refused
  <2>2. Len(refused) > 0 /\ refused[1] \in {"00", "01", "05"} /\ r = [c EXCEPT !.out = refused]
    BY <1>2, <2>1 DEF refused
  <2>3. Answers(c, r) /\ r.out = refused
    BY <2>1, <2>2, Says
  <2> QED
    BY <2>1, <2>3
<1>3. CASE r = [[c EXCEPT !.target = b] EXCEPT !.out = <<"00">>]
  <2> DEFINE bytes == <<"00">>
  <2>1. bytes \in Seq(Sent) /\ bytes[1] = "00" /\ Len(bytes) = 1
    BY Bytes
  <2>2. PICK x : x = [c EXCEPT !.target = b]
    OBVIOUS
  <2> HIDE DEF bytes, b
  <2>3. x \in CardStates /\ x.target = b
    BY <1>1, <2>2 DEF CardStates
  <2>4. x.kind = c.kind /\ x.missed = c.missed /\ x.disk = c.disk /\ x.busy = c.busy
    BY <2>2 DEF CardStates
  <2>5. Len(bytes) > 0 /\ bytes[1] \in {"00", "01", "05"} /\ r = [x EXCEPT !.out = bytes]
    BY <1>3, <2>1, <2>2 DEF bytes
  <2>6. Answers(c, r) /\ r.out = bytes /\ r.target = x.target
    BY <2>1, <2>3, <2>4, <2>5, Says
  <2> QED
    BY <2>1, <2>3, <2>6 DEF b
<1>4. \/ r = [c EXCEPT !.out = <<"05">>]
      \/ r = [[c EXCEPT !.target = b] EXCEPT !.out = <<"00">>]
  BY DEF Reactions
<1> QED
  BY <1>2, <1>3, <1>4
-------------------------------------------------------------------------------
(* What the driver hears of it. *)

\* The card at the end of a command, and the answer in it.
LEMMA AnswerTaken ==
  ASSUME NEW d, NEW x, NEW cmd, NEW w, NEW o, o = Answered(d, x, cmd, w)
  PROVE  /\ o.response = Received(x, w)
         /\ \E n \in {2, 6} : o.card = After(x, w + n) /\ (cmd # "CMD58" => n = 2)
         /\ o.sdhc = IF cmd = "CMD58" /\ o.response = "00" THEN Received(x, w + 1) = "40" ELSE d.sdhc
<1>1. CASE cmd = "CMD58" /\ Received(x, w) = "00"
  <2>1. o = [response |-> "00", sdhc |-> Received(x, w + 1) = "40", card |-> After(x, w + 6)]
    BY <1>1 DEF Answered
  <2> QED
    BY <1>1, <2>1
<1>2. CASE ~(cmd = "CMD58" /\ Received(x, w) = "00")
  <2>1. o = [response |-> Received(x, w), sdhc |-> d.sdhc, card |-> After(x, w + 2)]
    BY <1>2 DEF Answered
  <2> QED
    BY <1>2, <2>1
<1> QED
  BY <1>1, <1>2

\* Nothing is heard of the card but that it is busy.
LEMMA NothingHeard ==
  ASSUME NEW d, NEW x \in CardStates, NEW cmd, NEW o, o = Answered(d, x, cmd, Waited(x)),
         x.out = <<>>
  PROVE  /\ o.response = IF x.busy > 0 THEN "00" ELSE "ff"
         /\ o.card \in CardStates /\ Same(x, o.card) /\ o.card.out = <<>>
         /\ o.card.busy <= x.busy
<1>1. x.busy \in Nat /\ Len(x.out) = 0 /\ POLLS \in Nat
  BY SdAssumption DEF CardStates
<1>2. \A i \in Nat : Received(x, i) = IF x.busy > i THEN "00" ELSE "ff"
  BY <1>1, ByteAfter
<1>3. Waited(x) = IF x.busy > 0 THEN 0 ELSE POLLS + 1
  <2>1. CASE x.busy > 0
    <3>1. Received(x, 0) # "ff" /\ 0 \in 0 .. POLLS /\ \A i \in 0 .. 0 - 1 : Received(x, i) = "ff"
      BY <1>1, <1>2, <2>1
    <3> QED
      BY <2>1, <3>1, WaitsForAnswer
  <2>2. CASE ~(x.busy > 0)
    <3>1. \A i \in Nat : Received(x, i) = "ff"
      BY <1>1, <1>2, <2>2
    <3> QED
      BY <2>2, <3>1, WaitsInVain
  <2> QED
    BY <2>1, <2>2
<1>4. Waited(x) \in Nat /\ (x.busy <= 0 => Received(x, Waited(x)) = "ff")
  BY <1>1, <1>2, <1>3
<1>5. PICK n \in {2, 6} : o.card = After(x, Waited(x) + n)
  BY AnswerTaken
<1>6. PICK m \in Nat : m = Waited(x) + n /\ m >= Len(x.out)
  BY <1>1, <1>4, <1>5
<1>7. /\ o.card \in CardStates /\ Same(x, o.card) /\ o.card.out = <<>>
      /\ o.card.busy = IF x.busy > m - Len(x.out) THEN x.busy - (m - Len(x.out)) ELSE 0
  <2>1. o.card = After(x, m)
    BY <1>5, <1>6
  <2>2. m >= Len(x.out)
    BY <1>6
  <2>3. /\ After(x, m) \in CardStates /\ Same(x, After(x, m)) /\ After(x, m).out = <<>>
        /\ After(x, m).busy = IF x.busy > m - Len(x.out) THEN x.busy - (m - Len(x.out)) ELSE 0
    BY <2>2, AfterBytes
  <2> QED
    BY <2>1, <2>3
<1>8. o.card.busy <= x.busy
  BY <1>1, <1>6, <1>7
<1>9. o.response = Received(x, Waited(x))
  BY AnswerTaken
<1> QED
  BY <1>1, <1>2, <1>3, <1>4, <1>7, <1>8, <1>9

\* What the driver hears of a reaction r, and what is left of it.
Hears(cmd, o, r) ==
    /\ o.response = r.out[1]
    /\ cmd = "CMD58" /\ o.response = "00" /\ Len(r.out) > 1 => o.sdhc = (r.out[2] = "40")
    /\ o.card \in CardStates /\ Same(r, o.card) /\ o.card.busy = 0
    /\ Len(r.out) = 1 => o.card.out = <<>>
    /\ \A v : TokenBefore(r.out, v) /\ Len(r.out) > 1 /\ r.out[2] # "fe" /\ cmd # "CMD58" =>
                 TokenBefore(o.card.out, v)

\* An answer that comes in time is heard, with what comes after it.
LEMMA AnswerHeard ==
  ASSUME NEW d, NEW r \in CardStates, NEW cmd, NEW k \in AnswerDelays, NEW x,
         x = [r EXCEPT !.out = Silence(k) \o @],
         NEW o, o = Answered(d, x, cmd, Waited(x)),
         Len(r.out) > 0, r.out[1] \in {"00", "01", "05"}, r.busy = 0
  PROVE  Hears(cmd, o, r)
<1> DEFINE s == Silence(k) \o r.out
<1>1. POLLS \in Nat /\ k \in 0 .. POLLS /\ k \in Nat /\ r.out \in Seq(Sent) /\ Len(r.out) \in Nat
  BY SdAssumption, LenProperties DEF CardStates
<1>2. /\ Silence(k) \in Seq(Sent) /\ Len(Silence(k)) = k
      /\ \A i \in 1 .. k : Silence(k)[i] = "ff"
  BY <1>1, SilenceIs
<1>3. /\ s \in Seq(Sent) /\ Len(s) = k + Len(r.out)
      /\ \A i \in 1 .. k : s[i] = "ff"
      /\ \A i \in 1 .. Len(r.out) : s[k + i] = r.out[i]
  <2> DEFINE p == Silence(k)
  <2> HIDE DEF p
  <2>1. p \in Seq(Sent) /\ Len(p) = k /\ \A i \in 1 .. k : p[i] = "ff"
    BY <1>2 DEF p
  <2>2. s = p \o r.out
    BY DEF p
  <2> HIDE DEF s
  <2>3. /\ s \in Seq(Sent) /\ Len(s) = Len(p) + Len(r.out)
        /\ \A i \in 1 .. Len(p) : s[i] = p[i]
        /\ \A i \in 1 .. Len(r.out) : s[Len(p) + i] = r.out[i]
    BY <1>1, <2>1, <2>2, Joined
  <2> QED
    BY <2>1, <2>3
<1>4. x = [r EXCEPT !.out = s]
  OBVIOUS
<1> HIDE DEF s
<1>5. x \in CardStates /\ x.out = s /\ x.busy = 0 /\ Same(r, x)
  BY <1>3, <1>4 DEF CardStates, Same
<1>6. \A n \in 0 .. k - 1 : Received(x, n) = "ff"
  <2> SUFFICES ASSUME NEW n \in 0 .. k - 1 PROVE Received(x, n) = "ff"
    OBVIOUS
  <2>1. n \in Nat /\ n < Len(s) /\ n + 1 \in 1 .. k
    BY <1>1, <1>3
  <2> QED
    BY <1>3, <1>5, <2>1, ByteAfter
<1>7. Received(x, k) = r.out[1]
  <2>1. k < Len(s) /\ 1 \in 1 .. Len(r.out)
    BY <1>1, <1>3
  <2> QED
    BY <1>1, <1>3, <1>5, <2>1, ByteAfter
<1>8. Waited(x) = k
  <2>1. Received(x, k) # "ff"
    BY <1>7
  <2> QED
    BY <1>1, <1>5, <1>6, <2>1, WaitsForAnswer
<1>9. Len(r.out) > 1 => Received(x, k + 1) = r.out[2]
  <2> SUFFICES ASSUME Len(r.out) > 1 PROVE Received(x, k + 1) = r.out[2]
    OBVIOUS
  <2>1. k + 1 \in Nat /\ k + 1 < Len(s) /\ 2 \in 1 .. Len(r.out) /\ (k + 1) + 1 = k + 2
    BY <1>1, <1>3
  <2>2. Received(x, k + 1) = s[(k + 1) + 1]
    BY <1>5, <2>1, ByteAfter
  <2> QED
    BY <1>3, <2>1, <2>2
<1>10. o.response = r.out[1]
  BY <1>7, <1>8, AnswerTaken
<1>11. cmd = "CMD58" /\ o.response = "00" /\ Len(r.out) > 1 => o.sdhc = (r.out[2] = "40")
  BY <1>8, <1>9, AnswerTaken
<1>12. PICK n \in {2, 6} : o.card = After(x, k + n) /\ (cmd # "CMD58" => n = 2)
  BY <1>8, AnswerTaken
<1>13. k + n \in Nat
  BY <1>1, <1>12
<1>14. /\ o.card \in CardStates /\ Same(x, o.card)
       /\ k + n <= Len(s) => /\ o.card.out = SubSeq(s, (k + n) + 1, Len(s))
                             /\ o.card.busy = 0
       /\ k + n >= Len(s) => o.card.out = <<>> /\ o.card.busy = 0
  <2>1. PICK m \in Nat : m = k + n
    BY <1>13
  <2>2. o.card = After(x, m) /\ Len(s) \in Nat
    BY <1>1, <1>3, <1>12, <2>1
  <2>3. m >= Len(s) => (IF 0 > m - Len(s) THEN 0 - (m - Len(s)) ELSE 0) = 0
    BY <2>2
  <2>5. x \in CardStates
    BY <1>5
  <2>6. /\ After(x, m) \in CardStates /\ Same(x, After(x, m))
        /\ m <= Len(x.out) => /\ After(x, m).out = SubSeq(x.out, m + 1, Len(x.out))
                              /\ After(x, m).busy = x.busy
        /\ m >= Len(x.out) => /\ After(x, m).out = <<>>
                              /\ After(x, m).busy = IF x.busy > m - Len(x.out)
                                                    THEN x.busy - (m - Len(x.out)) ELSE 0
    BY <2>5, AfterBytes
  <2>4. /\ After(x, m) \in CardStates /\ Same(x, After(x, m))
        /\ m <= Len(s) => /\ After(x, m).out = SubSeq(s, m + 1, Len(s))
                          /\ After(x, m).busy = 0
        /\ m >= Len(s) => After(x, m).out = <<>> /\ After(x, m).busy = 0
    BY <1>5, <2>3, <2>6
  <2> QED
    BY <2>1, <2>2, <2>4
<1>15. Len(r.out) = 1 => o.card.out = <<>>
  BY <1>1, <1>3, <1>12, <1>14
<1>16. Same(r, o.card) /\ o.card.busy = 0
  <2>1. o.card.busy = 0
    BY <1>1, <1>3, <1>12, <1>13, <1>14
  <2> QED
    BY <1>5, <1>14, <2>1 DEF Same
<1>17. ASSUME NEW v, TokenBefore(r.out, v), Len(r.out) > 1, r.out[2] # "fe", cmd # "CMD58"
       PROVE  TokenBefore(o.card.out, v)
  <2>1. n = 2 /\ k + 2 \in 0 .. Len(s) /\ k + 2 <= Len(s)
    BY <1>1, <1>3, <1>12, <1>17
  <2>2. \A i \in 1 .. k + 2 : s[i] # "fe"
    <3>0. 1 \in 1 .. Len(r.out) /\ 2 \in 1 .. Len(r.out)
      BY <1>1, <1>17
    <3>1. s[k + 1] = r.out[1] /\ s[k + 2] = r.out[2]
      BY <1>3, <3>0
    <3>2. r.out[1] # "fe"
      OBVIOUS
    <3>3. \A i \in 1 .. k + 2 : i \in 1 .. k \/ i = k + 1 \/ i = k + 2
      BY <1>1
    <3> QED
      BY <1>3, <1>17, <3>1, <3>2, <3>3
  <2>3. TokenBefore(s, v)
    <3>1. \A i \in 1 .. Len(Silence(k)) : Silence(k)[i] # "fe"
      BY <1>1, <1>2
    <3> QED
      BY <1>1, <1>2, <1>17, <3>1, TokenComesLater DEF s
  <2>4. TokenBefore(SubSeq(s, (k + 2) + 1, Len(s)), v)
    BY <1>3, <2>1, <2>2, <2>3, TokenStillComes
  <2> QED
    BY <1>14, <2>1, <2>4
<1> QED
  BY <1>10, <1>11, <1>14, <1>15, <1>16, <1>17 DEF Hears
\* A card that drops what it was to send, and no longer expects a block.
Silent(c) == [c EXCEPT !.out = <<>>, !.target = -1]

\* Nothing else changes.
LEMMA SilentCard ==
  ASSUME NEW c \in CardStates
  PROVE  /\ Silent(c) \in CardStates /\ Silent(c).out = <<>> /\ Silent(c).target = -1
         /\ Silent(c).ready = c.ready /\ Silent(c).kind = c.kind /\ Silent(c).busy = c.busy
         /\ Silent(c).missed = c.missed /\ Silent(c).disk = c.disk
<1>1. <<>> \in Seq(Sent) /\ -1 \in Int
  OBVIOUS
<1>2. Silent(c) = [[c EXCEPT !.out = <<>>] EXCEPT !.target = -1]
  BY DEF Silent
<1> QED
  BY <1>1, <1>2 DEF CardStates

\* What is heard of a card that is not there, is busy or misses the command.
Unheard(c, o) ==
    /\ o.card.out = <<>> /\ o.card.target = -1 /\ o.card.ready = c.ready
    /\ \/ c.kind = "none" /\ o.response = "ff" /\ o.card.busy = 0 /\ o.card.missed = c.missed
       \/ c.busy > 0 /\ o.response \in {"00", "ff"} /\ o.card.missed = c.missed
       \/ c.kind # "none" /\ o.response = "ff" /\ o.card.busy = 0 /\ o.card.missed = c.missed + 1

\* What is heard of a card that reacts.
Heard(c, cmd, o, r) ==
    c.kind # "none" /\ c.busy = 0 /\ o.card.missed = c.missed /\ Hears(cmd, o, r)

\* A command has one of these outcomes.
LEMMA Outcome ==
  ASSUME NEW c \in CardStates, Settled(c), NEW d, d.sdhc \in BOOLEAN, NEW cmd, NEW block,
         NEW o \in SendCommand(d, c, cmd, block),
         \A x \in CardStates : \A r \in Reactions(x, cmd, Argument(d, cmd, block)) : Answers(x, r)
  PROVE  /\ o.card \in CardStates /\ Settled(o.card)
         /\ o.card.kind = c.kind /\ o.card.disk = c.disk
         /\ o.sdhc \in BOOLEAN /\ (cmd # "CMD58" \/ o.response # "00" => o.sdhc = d.sdhc)
         /\ \/ Unheard(c, o)
            \/ \E r \in Reactions(Silent(c), cmd, Argument(d, cmd, block)) : Heard(c, cmd, o, r)
<1> DEFINE arg == Argument(d, cmd, block)
<1>1. PICK x \in CardsAfter(c, cmd, arg) : o = Answered(d, x, cmd, Waited(x))
  BY DEF SendCommand
<1>2. o.sdhc \in BOOLEAN /\ (cmd # "CMD58" \/ o.response # "00" => o.sdhc = d.sdhc)
  <2>1. o.sdhc = IF cmd = "CMD58" /\ o.response = "00" THEN Received(x, Waited(x) + 1) = "40"
                 ELSE d.sdhc
    BY <1>1, AnswerTaken
  <2>2. CASE cmd = "CMD58" /\ o.response = "00"
    BY <2>1, <2>2
  <2>3. CASE ~(cmd = "CMD58" /\ o.response = "00")
    BY <2>1, <2>3
  <2> QED
    BY <2>2, <2>3
<1> DEFINE s == Silent(c)
<1>3. /\ s \in CardStates /\ s.out = <<>> /\ s.target = -1 /\ s.ready = c.ready
      /\ s.kind = c.kind /\ s.busy = c.busy /\ s.missed = c.missed /\ s.disk = c.disk
  BY SilentCard
<1> HIDE DEF s, arg
<1>4. \/ c.kind = "none" /\ x = c
      \/ c.kind # "none" /\ c.busy > 0 /\ x = After(c, 6)
      \/ c.kind # "none" /\ ~(c.busy > 0) /\ x = [s EXCEPT !.missed = @ + 1]
      \/ /\ c.kind # "none" /\ ~(c.busy > 0)
         /\ \E k \in AnswerDelays, r \in Reactions(s, cmd, arg) : x = [r EXCEPT !.out = Silence(k) \o @]
  BY <1>1 DEF CardsAfter, s, Silent
<1>5. c.busy \in Nat /\ c.missed \in Nat
  BY DEF CardStates
<1>6. CASE c.kind = "none" /\ x = c
  <2>1. x.out = <<>> /\ x.busy = 0 /\ x.target = -1
    BY <1>6 DEF Settled
  <2>2. /\ o.response = "ff" /\ o.card \in CardStates /\ Same(c, o.card) /\ o.card.out = <<>>
        /\ o.card.busy <= 0
    BY <1>1, <1>6, <2>1, NothingHeard
  <2>3. o.card.busy = 0
    BY <2>2 DEF CardStates
  <2> QED
    BY <1>2, <1>6, <2>1, <2>2, <2>3 DEF Same, Settled, Unheard
<1>7. CASE c.kind # "none" /\ c.busy > 0 /\ x = After(c, 6)
  <2>1. c.out = <<>> /\ c.target = -1
    BY <1>7 DEF Settled
  <2>2. x \in CardStates /\ Same(c, x) /\ x.out = <<>>
    BY <1>7, <2>1, AfterBytes
  <2>3. /\ o.response \in {"00", "ff"} /\ o.card \in CardStates /\ Same(x, o.card)
        /\ o.card.out = <<>>
    BY <1>1, <2>2, NothingHeard
  <2> QED
    BY <1>2, <1>7, <2>1, <2>2, <2>3 DEF Same, Settled, Unheard
<1>8. CASE c.kind # "none" /\ ~(c.busy > 0) /\ x = [s EXCEPT !.missed = @ + 1]
  <2>1. /\ x \in CardStates /\ x.out = <<>> /\ x.target = -1 /\ x.ready = c.ready
        /\ x.kind = c.kind /\ x.busy = 0 /\ x.missed = c.missed + 1 /\ x.disk = c.disk
    BY <1>3, <1>5, <1>8 DEF CardStates
  <2>2. /\ o.response = "ff" /\ o.card \in CardStates /\ Same(x, o.card) /\ o.card.out = <<>>
        /\ o.card.busy <= 0
    BY <1>1, <2>1, NothingHeard
  <2>3. o.card.busy = 0
    BY <2>2 DEF CardStates
  <2> QED
    BY <1>2, <1>8, <2>1, <2>2, <2>3 DEF Same, Settled, Unheard
<1>9. CASE /\ c.kind # "none" /\ ~(c.busy > 0)
           /\ \E k \in AnswerDelays, r \in Reactions(s, cmd, arg) : x = [r EXCEPT !.out = Silence(k) \o @]
  <2>1. PICK k \in AnswerDelays, r \in Reactions(s, cmd, arg) : x = [r EXCEPT !.out = Silence(k) \o @]
    BY <1>9
  <2>2. Answers(s, r)
    BY <1>3, <2>1 DEF arg
  <2>3. /\ r \in CardStates /\ r.kind = c.kind /\ r.missed = c.missed /\ r.disk = c.disk /\ r.busy = 0
        /\ Len(r.out) > 0 /\ r.out[1] \in {"00", "01", "05"}
    BY <1>3, <1>5, <1>9, <2>2 DEF Answers
  <2>4. Hears(cmd, o, r)
    BY <1>1, <2>1, <2>3, AnswerHeard
  <2>5. o.card.kind = c.kind /\ o.card.missed = c.missed /\ o.card.disk = c.disk
    BY <2>3, <2>4 DEF Same, Hears
  <2>6. Heard(c, cmd, o, r)
    BY <1>5, <1>9, <2>4, <2>5 DEF Heard
  <2>7. Settled(o.card) /\ o.card \in CardStates
    BY <1>9, <2>4, <2>5 DEF Settled, Hears
  <2> QED
    BY <1>2, <2>1, <2>5, <2>6, <2>7 DEF s, arg
<1> QED
  BY <1>4, <1>6, <1>7, <1>8, <1>9
\* What every command leaves.
Outlasts(c, d, cmd, o) ==
    /\ o.card \in CardStates /\ Settled(o.card)
    /\ o.card.kind = c.kind /\ o.card.disk = c.disk /\ o.card.missed \in {c.missed, c.missed + 1}
    /\ o.sdhc \in BOOLEAN /\ (cmd # "CMD58" \/ o.response # "00" => o.sdhc = d.sdhc)

\* An answer to CMD0 comes from a card that is not busy.
LEMMA OutcomeCMD0 ==
  ASSUME NEW c \in CardStates, Settled(c), NEW d, d.sdhc \in BOOLEAN,
         NEW o \in SendCommand(d, c, "CMD0", 0)
  PROVE  /\ Outlasts(c, d, "CMD0", o)
         /\ o.response = "01" => c.kind # "none" /\ ~o.card.ready /\ o.card.busy = 0
<1>1. \A x \in CardStates : \A r \in Reactions(x, "CMD0", Argument(d, "CMD0", 0)) : Answers(x, r)
  BY ReactionToCMD0
<1>2. /\ o.card \in CardStates /\ Settled(o.card)
      /\ o.card.kind = c.kind /\ o.card.disk = c.disk
      /\ o.sdhc \in BOOLEAN /\ o.sdhc = d.sdhc
      /\ \/ Unheard(c, o)
         \/ \E r \in Reactions(Silent(c), "CMD0", Argument(d, "CMD0", 0)) : Heard(c, "CMD0", o, r)
  BY <1>1, Outcome
<1>3. Silent(c) \in CardStates
  BY SilentCard
<1>4. CASE Unheard(c, o)
  BY <1>2, <1>4 DEF Unheard, Outlasts
<1>5. CASE \E r \in Reactions(Silent(c), "CMD0", Argument(d, "CMD0", 0)) : Heard(c, "CMD0", o, r)
  <2>1. PICK r \in Reactions(Silent(c), "CMD0", Argument(d, "CMD0", 0)) : Heard(c, "CMD0", o, r)
    BY <1>5
  <2>2. ~r.ready
    BY <1>3, ReactionToCMD0
  <2>3. ~o.card.ready /\ o.card.busy = 0 /\ c.kind # "none" /\ o.card.missed = c.missed
    BY <2>1, <2>2 DEF Heard, Hears, Same
  <2> QED
    BY <1>2, <2>3 DEF Outlasts
<1> QED
  BY <1>2, <1>4, <1>5

\* A newer card that does not answer CMD8 as it should has missed it.
LEMMA OutcomeCMD8 ==
  ASSUME NEW c \in CardStates, Settled(c), NEW d, d.sdhc \in BOOLEAN,
         c.kind # "none", c.busy = 0, ~c.ready,
         NEW o \in SendCommand(d, c, "CMD8", 0)
  PROVE  /\ Outlasts(c, d, "CMD8", o) /\ o.card.busy = 0 /\ ~o.card.ready
         /\ c.kind = "v1" => o.response # "01"
         /\ c.kind # "v1" /\ o.response # "01" => o.card.missed = c.missed + 1
<1>1. \A x \in CardStates : \A r \in Reactions(x, "CMD8", Argument(d, "CMD8", 0)) : Answers(x, r)
  BY ReactionToCMD8
<1>2. /\ o.card \in CardStates /\ Settled(o.card)
      /\ o.card.kind = c.kind /\ o.card.disk = c.disk
      /\ o.sdhc \in BOOLEAN /\ o.sdhc = d.sdhc
      /\ \/ Unheard(c, o)
         \/ \E r \in Reactions(Silent(c), "CMD8", Argument(d, "CMD8", 0)) : Heard(c, "CMD8", o, r)
  BY <1>1, Outcome
<1>3. Silent(c) \in CardStates /\ Silent(c).kind = c.kind /\ ~Silent(c).ready
  BY SilentCard
<1>4. CASE Unheard(c, o)
  BY <1>2, <1>4 DEF Unheard, Outlasts
<1>5. CASE \E r \in Reactions(Silent(c), "CMD8", Argument(d, "CMD8", 0)) : Heard(c, "CMD8", o, r)
  <2>1. PICK r \in Reactions(Silent(c), "CMD8", Argument(d, "CMD8", 0)) : Heard(c, "CMD8", o, r)
    BY <1>5
  <2>2. ~r.ready /\ r.out[1] = IF c.kind = "v1" THEN "05" ELSE "01"
    BY <1>3, ReactionToCMD8
  <2>3. ~o.card.ready /\ o.card.busy = 0 /\ o.card.missed = c.missed /\ o.response = r.out[1]
    BY <2>1, <2>2 DEF Heard, Hears, Same
  <2> QED
    BY <1>2, <2>2, <2>3 DEF Outlasts
<1> QED
  BY <1>2, <1>4, <1>5

\* Nothing is learnt from CMD55.
LEMMA OutcomeCMD55 ==
  ASSUME NEW c \in CardStates, Settled(c), NEW d, d.sdhc \in BOOLEAN, c.kind # "none", c.busy = 0,
         NEW o \in SendCommand(d, c, "CMD55", 0)
  PROVE  Outlasts(c, d, "CMD55", o) /\ o.card.busy = 0
<1>1. \A x \in CardStates : \A r \in Reactions(x, "CMD55", Argument(d, "CMD55", 0)) : Answers(x, r)
  BY ReactionToCMD55
<1>2. /\ o.card \in CardStates /\ Settled(o.card)
      /\ o.card.kind = c.kind /\ o.card.disk = c.disk
      /\ o.sdhc \in BOOLEAN /\ o.sdhc = d.sdhc
      /\ \/ Unheard(c, o)
         \/ \E r \in Reactions(Silent(c), "CMD55", Argument(d, "CMD55", 0)) : Heard(c, "CMD55", o, r)
  BY <1>1, Outcome
<1>3. o.card.busy = 0 /\ o.card.missed \in {c.missed, c.missed + 1}
  BY <1>2 DEF Unheard, Heard, Hears
<1> QED
  BY <1>2, <1>3 DEF Outlasts

\* ACMD41: the card is ready when it says so.
LEMMA OutcomeACMD41 ==
  ASSUME NEW c \in CardStates, Settled(c), NEW d, d.sdhc \in BOOLEAN, c.kind # "none", c.busy = 0,
         NEW o \in SendCommand(d, c, "ACMD41", 0)
  PROVE  /\ Outlasts(c, d, "ACMD41", o) /\ o.card.busy = 0
         /\ o.response = "00" => o.card.ready
<1>1. \A x \in CardStates : \A r \in Reactions(x, "ACMD41", Argument(d, "ACMD41", 0)) : Answers(x, r)
  BY ReactionToACMD41
<1>2. /\ o.card \in CardStates /\ Settled(o.card)
      /\ o.card.kind = c.kind /\ o.card.disk = c.disk
      /\ o.sdhc \in BOOLEAN /\ o.sdhc = d.sdhc
      /\ \/ Unheard(c, o)
         \/ \E r \in Reactions(Silent(c), "ACMD41", Argument(d, "ACMD41", 0)) : Heard(c, "ACMD41", o, r)
  BY <1>1, Outcome
<1>3. Silent(c) \in CardStates
  BY SilentCard
<1>4. CASE Unheard(c, o)
  BY <1>2, <1>4 DEF Unheard, Outlasts
<1>5. CASE \E r \in Reactions(Silent(c), "ACMD41", Argument(d, "ACMD41", 0)) : Heard(c, "ACMD41", o, r)
  <2>1. PICK r \in Reactions(Silent(c), "ACMD41", Argument(d, "ACMD41", 0)) : Heard(c, "ACMD41", o, r)
    BY <1>5
  <2>2. r.out[1] = "00" => r.ready
    BY <1>3, ReactionToACMD41
  <2>3. /\ o.card.ready = r.ready /\ o.card.busy = 0 /\ o.card.missed = c.missed
        /\ o.response = r.out[1]
    BY <2>1 DEF Heard, Hears, Same
  <2>4. o.response = "00" => o.card.ready
    BY <2>2, <2>3
  <2> QED
    BY <1>2, <2>3, <2>4 DEF Outlasts
<1> QED
  BY <1>2, <1>4, <1>5

\* CMD58: sdhc_card is what the card is, or the card has missed the command.
LEMMA OutcomeCMD58 ==
  ASSUME NEW c \in CardStates, Settled(c), NEW d, d.sdhc \in BOOLEAN,
         c.kind # "none", c.busy = 0, c.ready,
         NEW o \in SendCommand(d, c, "CMD58", 0)
  PROVE  /\ Outlasts(c, d, "CMD58", o) /\ o.card.busy = 0 /\ o.card.ready
         /\ o.response = "00" => (o.sdhc <=> c.kind = "hc")
         /\ o.response # "00" => o.card.missed = c.missed + 1
<1>1. \A x \in CardStates : \A r \in Reactions(x, "CMD58", Argument(d, "CMD58", 0)) : Answers(x, r)
  BY ReactionToCMD58
<1>2. /\ o.card \in CardStates /\ Settled(o.card)
      /\ o.card.kind = c.kind /\ o.card.disk = c.disk
      /\ o.sdhc \in BOOLEAN /\ (o.response # "00" => o.sdhc = d.sdhc)
      /\ \/ Unheard(c, o)
         \/ \E r \in Reactions(Silent(c), "CMD58", Argument(d, "CMD58", 0)) : Heard(c, "CMD58", o, r)
  BY <1>1, Outcome
<1>3. Silent(c) \in CardStates /\ Silent(c).kind = c.kind /\ Silent(c).ready
  BY SilentCard
<1>4. CASE Unheard(c, o)
  BY <1>2, <1>4 DEF Unheard, Outlasts
<1>5. CASE \E r \in Reactions(Silent(c), "CMD58", Argument(d, "CMD58", 0)) : Heard(c, "CMD58", o, r)
  <2>1. PICK r \in Reactions(Silent(c), "CMD58", Argument(d, "CMD58", 0)) : Heard(c, "CMD58", o, r)
    BY <1>5
  <2>2. r.ready /\ r.out[1] = "00" /\ Len(r.out) = 5 /\ (r.out[2] = "40" <=> c.kind = "hc")
    BY <1>3, ReactionToCMD58
  <2>3. /\ o.card.ready /\ o.card.busy = 0 /\ o.card.missed = c.missed /\ o.response = r.out[1]
        /\ o.sdhc = (r.out[2] = "40")
    BY <2>1, <2>2 DEF Heard, Hears, Same
  <2> QED
    BY <1>2, <2>2, <2>3 DEF Outlasts
<1> QED
  BY <1>2, <1>4, <1>5

\* A read: what the card sends after a good answer has the sector behind its first token.
LEMMA OutcomeCMD17 ==
  ASSUME NEW c \in CardStates, Settled(c), NEW d, d.sdhc \in BOOLEAN, NEW block,
         NEW o \in SendCommand(d, c, "CMD17", block)
  PROVE  /\ Outlasts(c, d, "CMD17", o)
         /\ o.response = "00" =>
              TokenBefore(o.card.out, c.disk[BlockAt(c, Argument(d, "CMD17", block))])
<1> DEFINE arg == Argument(d, "CMD17", block)
           v   == c.disk[BlockAt(c, arg)]
<1>1. \A x \in CardStates : \A r \in Reactions(x, "CMD17", arg) : Answers(x, r)
  BY ReactionToCMD17
<1>2. /\ o.card \in CardStates /\ Settled(o.card)
      /\ o.card.kind = c.kind /\ o.card.disk = c.disk
      /\ o.sdhc \in BOOLEAN /\ o.sdhc = d.sdhc
      /\ \/ Unheard(c, o)
         \/ \E r \in Reactions(Silent(c), "CMD17", arg) : Heard(c, "CMD17", o, r)
  BY <1>1, Outcome
<1>3. /\ Silent(c) \in CardStates
      /\ BlockAt(Silent(c), arg) = BlockAt(c, arg) /\ Silent(c).disk = c.disk
  BY SilentCard DEF BlockAt
<1> HIDE DEF arg, v
<1>4. CASE Unheard(c, o)
  <2>1. TokenBefore(<<>>, v)
    BY DEF TokenBefore
  <2> QED
    BY <1>2, <1>4, <2>1 DEF Unheard, Outlasts, v, arg
<1>5. CASE \E r \in Reactions(Silent(c), "CMD17", arg) : Heard(c, "CMD17", o, r)
  <2>1. PICK r \in Reactions(Silent(c), "CMD17", arg) : Heard(c, "CMD17", o, r)
    BY <1>5
  <2>2. r.out[1] = "00" => TokenBefore(r.out, v) /\ Len(r.out) > 1 /\ r.out[2] = "ff"
    BY <1>3, ReactionToCMD17 DEF v
  <2>3. o.card.missed = c.missed /\ o.response = r.out[1]
    BY <2>1 DEF Heard, Hears
  <2>4. TokenBefore(r.out, v) /\ Len(r.out) > 1 /\ r.out[2] # "fe" => TokenBefore(o.card.out, v)
    BY <2>1 DEF Heard, Hears
  <2>5. o.response = "00" => TokenBefore(o.card.out, v)
    BY <2>2, <2>3, <2>4
  <2> QED
    BY <1>2, <2>3, <2>5 DEF Outlasts, v, arg
<1> QED
  BY <1>2, <1>4, <1>5

\* A write: after a good answer the card expects the block for that sector, or it was busy.
LEMMA OutcomeCMD24 ==
  ASSUME NEW c \in CardStates, Settled(c), NEW d, d.sdhc \in BOOLEAN, NEW block \in Int,
         NEW o \in SendCommand(d, c, "CMD24", block)
  PROVE  /\ Outlasts(c, d, "CMD24", o)
         /\ o.response = "00" =>
              /\ o.card.out = <<>>
              /\ o.card.target \in {-1, BlockAt(c, Argument(d, "CMD24", block))}
<1> DEFINE arg == Argument(d, "CMD24", block)
           b   == BlockAt(c, arg)
<1>0. arg \in Int
  BY SdAssumption DEF Argument
<1>1. \A x \in CardStates : \A r \in Reactions(x, "CMD24", arg) : Answers(x, r)
  BY <1>0, ReactionToCMD24
<1>2. /\ o.card \in CardStates /\ Settled(o.card)
      /\ o.card.kind = c.kind /\ o.card.disk = c.disk
      /\ o.sdhc \in BOOLEAN /\ o.sdhc = d.sdhc
      /\ \/ Unheard(c, o)
         \/ \E r \in Reactions(Silent(c), "CMD24", arg) : Heard(c, "CMD24", o, r)
  BY <1>1, Outcome
<1>3. Silent(c) \in CardStates /\ BlockAt(Silent(c), arg) = b
  BY SilentCard DEF BlockAt
<1> HIDE DEF arg, b
<1>4. CASE Unheard(c, o)
  BY <1>2, <1>4 DEF Unheard, Outlasts
<1>5. CASE \E r \in Reactions(Silent(c), "CMD24", arg) : Heard(c, "CMD24", o, r)
  <2>1. PICK r \in Reactions(Silent(c), "CMD24", arg) : Heard(c, "CMD24", o, r)
    BY <1>5
  <2>2. Len(r.out) = 1 /\ (r.out[1] = "00" => r.target = b)
    BY <1>0, <1>3, ReactionToCMD24
  <2>3. /\ o.card.missed = c.missed /\ o.response = r.out[1] /\ o.card.target = r.target
        /\ Len(r.out) = 1 => o.card.out = <<>>
    BY <2>1 DEF Heard, Hears, Same
  <2> QED
    BY <1>2, <2>2, <2>3 DEF Outlasts, b, arg
<1> QED
  BY <1>2, <1>4, <1>5 DEF b, arg
-------------------------------------------------------------------------------
(* Initialisation. *)

InitPlaces == {"again", "down", "CMD0", "CMD8", "CMD55", "ACMD41", "CMD58"}

\* A field of the driver's state that is changed.
LEMMA DriverWith ==
  ASSUME NEW d \in DriverStates
  PROVE  /\ \A x \in Places  : [d EXCEPT !.pc = x] \in DriverStates
         /\ \A x \in Int     : [d EXCEPT !.try = x] \in DriverStates
         /\ \A x \in Nat     : [d EXCEPT !.retries = x] \in DriverStates
         /\ \A x \in Int     : [d EXCEPT !.version = x] \in DriverStates
         /\ \A x \in BOOLEAN : [d EXCEPT !.sdhc = x] \in DriverStates
         /\ \A x \in Calls   : [d EXCEPT !.call = x] \in DriverStates
         /\ \A x \in Nat     : [d EXCEPT !.done = x] \in DriverStates
         /\ \A x \in Seq(Sent) : [d EXCEPT !.buffer = x] \in DriverStates
         /\ \A x \in BOOLEAN : [d EXCEPT !.ok = x] \in DriverStates
<1> USE DEF DriverStates
<1>1. ASSUME NEW x \in Places PROVE [d EXCEPT !.pc = x] \in DriverStates
  OBVIOUS
<1>2. ASSUME NEW x \in Int PROVE [d EXCEPT !.try = x] \in DriverStates
  OBVIOUS
<1>3. ASSUME NEW x \in Nat PROVE [d EXCEPT !.retries = x] \in DriverStates
  OBVIOUS
<1>4. ASSUME NEW x \in Int PROVE [d EXCEPT !.version = x] \in DriverStates
  OBVIOUS
<1>5. ASSUME NEW x \in BOOLEAN PROVE [d EXCEPT !.sdhc = x] \in DriverStates
  OBVIOUS
<1>6. ASSUME NEW x \in Calls PROVE [d EXCEPT !.call = x] \in DriverStates
  OBVIOUS
<1>7. ASSUME NEW x \in Nat PROVE [d EXCEPT !.done = x] \in DriverStates
  OBVIOUS
<1>8. ASSUME NEW x \in Seq(Sent) PROVE [d EXCEPT !.buffer = x] \in DriverStates
  OBVIOUS
<1>9. ASSUME NEW x \in BOOLEAN PROVE [d EXCEPT !.ok = x] \in DriverStates
  OBVIOUS
<1> HIDE DEF DriverStates
<1> QED
  BY <1>1, <1>2, <1>3, <1>4, <1>5, <1>6, <1>7, <1>8, <1>9

\* No call is made while the card is initialised.
LEMMA NoCall ==
  ASSUME SdInv, driver.pc \in InitPlaces
  PROVE  driver.call = None
BY DEF SdInv, CallFits, InitPlaces, ReadPlaces, WritePlaces

\* What a step of the initialisation has to keep.
LEMMA InitialStep ==
  ASSUME SdInv, UNCHANGED before,
         driver' \in DriverStates, driver'.call = None, card' \in CardStates, Settled(card'),
         driver'.pc \in InitPlaces \cup {"up"}, Learnt',
         driver'.pc = "up" => AddressesRight' \/ card'.missed > RETRIES
  PROVE  SdInv'
<1>1. before' \in [Blocks -> Value]
  BY DEF SdInv
<1>2. None.op = "none"
  BY DEF None
<1>3. driver'.pc \notin ReadPlaces \cup WritePlaces \cup {"token", "block", "data", "busy", "settled"}
  BY DEF InitPlaces, ReadPlaces, WritePlaces
<1>4. CallFits'
  BY <1>2, <1>3 DEF CallFits
<1>5. Reading' /\ Writing'
  BY <1>2 DEF Reading, Writing
<1>6. driver'.pc \in {"up"} \cup ReadPlaces \cup WritePlaces /\ card'.missed <= RETRIES =>
          AddressesRight'
  <2>1. card'.missed \in Nat /\ RETRIES \in Nat
    BY SdAssumption DEF CardStates
  <2> QED
    BY <1>3, <2>1
<1> QED
  BY <1>1, <1>4, <1>5, <1>6 DEF SdInv

\* Clocks preserves SdInv.
LEMMA ClocksStep ==
  ASSUME SdInv, Clocks
  PROVE  SdInv'
<1>1. driver.call = None /\ driver \in DriverStates /\ card \in CardStates /\ Settled(card)
  BY NoCall DEF SdInv, Clocks, InitPlaces
<1>2. driver' = [driver EXCEPT !.pc = "CMD0", !.try = driver.try + 1, !.retries = 0, !.call = None]
  BY DEF Clocks, Starting
<1>3. driver' \in DriverStates
  <2> DEFINE d1 == [driver EXCEPT !.pc = "CMD0"]
             d2 == [d1 EXCEPT !.try = driver.try + 1]
             d3 == [d2 EXCEPT !.retries = 0]
  <2>1. "CMD0" \in Places /\ driver.try + 1 \in Int /\ 0 \in Nat /\ None \in Calls
    BY <1>1 DEF Places, DriverStates, Calls
  <2>2. d1 \in DriverStates
    BY <1>1, <2>1, DriverWith
  <2>3. d2 \in DriverStates
    BY <2>1, <2>2, DriverWith
  <2>4. d3 \in DriverStates
    BY <2>1, <2>3, DriverWith
  <2>5. [d3 EXCEPT !.call = None] \in DriverStates
    BY <2>1, <2>4, DriverWith
  <2> QED
    BY <1>2, <2>5
<1>10. driver'.pc = "CMD0" /\ driver'.call = None
  BY <1>1, <1>2 DEF DriverStates
<1> DEFINE c == [card EXCEPT !.out = <<>>, !.target = -1, !.app = FALSE]
<1>4. c \in CardStates /\ c.out = <<>> /\ c.target = -1 /\ c.kind = card.kind /\ c.busy = card.busy
  <2>1. <<>> \in Seq(Sent) /\ -1 \in Int
    OBVIOUS
  <2>2. c = [[[card EXCEPT !.out = <<>>] EXCEPT !.target = -1] EXCEPT !.app = FALSE]
    OBVIOUS
  <2> HIDE DEF c
  <2> QED
    BY <1>1, <2>1, <2>2 DEF CardStates
<1>5. card' = After(c, 25)
  BY DEF Clocks, Deselected
<1> HIDE DEF c
<1>6. /\ card' \in CardStates /\ Same(c, card') /\ card'.out = <<>>
      /\ card'.busy = IF c.busy > 25 - Len(c.out) THEN c.busy - (25 - Len(c.out)) ELSE 0
  <2>1. 25 \in Nat /\ 25 >= Len(c.out)
    BY <1>4
  <2> QED
    BY <1>4, <1>5, <2>1, AfterBytes
<1>7. Settled(card')
  <2>1. card'.kind = "none" => card'.busy = 0
    BY <1>1, <1>4, <1>6 DEF Settled, Same
  <2> QED
    BY <1>4, <1>6, <2>1 DEF Settled, Same
<1>8. Learnt'
  BY <1>10 DEF Learnt
<1>9. UNCHANGED before
  BY DEF Clocks
<1> QED
  BY <1>3, <1>6, <1>7, <1>8, <1>9, <1>10, InitialStep DEF InitPlaces

\* GoIdleState preserves SdInv.
LEMMA GoIdleStep ==
  ASSUME SdInv, GoIdleState
  PROVE  SdInv'
<1>1. /\ driver.call = None /\ driver \in DriverStates /\ card \in CardStates /\ Settled(card)
      /\ driver.pc = "CMD0"
  BY NoCall DEF SdInv, GoIdleState, InitPlaces
<1>2. PICK o \in SendCommand(driver, card, "CMD0", 0) :
          /\ card' = o.card
          /\ driver' = Loop(driver, o.response, "01", driver, At(driver, "CMD8"), GoesWrong(driver))
          /\ UNCHANGED before
  BY DEF GoIdleState, Command
<1>3. driver.sdhc \in BOOLEAN
  BY <1>1 DEF DriverStates
<1>4. /\ Outlasts(card, driver, "CMD0", o)
      /\ o.response = "01" => card.kind # "none" /\ ~o.card.ready /\ o.card.busy = 0
  BY <1>1, <1>3, OutcomeCMD0
<1>5. card' \in CardStates /\ Settled(card') /\ card'.kind = card.kind
  BY <1>2, <1>4 DEF Outlasts
<1>6. \/ driver' \in {[driver EXCEPT !.pc = "down"], [driver EXCEPT !.pc = "again"],
                     [driver EXCEPT !.retries = @ + 1]}
      \/ o.response = "01" /\ driver' = [[driver EXCEPT !.pc = "CMD8"] EXCEPT !.retries = 0]
  BY <1>2 DEF Loop, GoesWrong, At
<1>10. driver' \in DriverStates
  <2>1. driver.retries + 1 \in Nat /\ 0 \in Nat /\ {"down", "again", "CMD8"} \subseteq Places
    BY <1>1 DEF DriverStates, Places
  <2>2. \A x \in {"down", "again", "CMD8"} : [driver EXCEPT !.pc = x] \in DriverStates
    BY <1>1, <2>1, DriverWith
  <2>3. [[driver EXCEPT !.pc = "CMD8"] EXCEPT !.retries = 0] \in DriverStates
    BY <2>1, <2>2, DriverWith
  <2>4. [driver EXCEPT !.retries = driver.retries + 1] \in DriverStates
    BY <1>1, <2>1, DriverWith
  <2> QED
    BY <1>6, <2>2, <2>3, <2>4
<1>7. /\ driver'.call = None
      /\ \/ driver'.pc \in {"down", "again", "CMD0"}
         \/ driver'.pc = "CMD8" /\ driver'.retries = 0 /\ o.response = "01"
  BY <1>1, <1>6 DEF DriverStates
<1>8. card'.missed \in Nat
  BY <1>5 DEF CardStates
<1>9. Learnt'
  BY <1>2, <1>4, <1>5, <1>7, <1>8 DEF Learnt
<1> QED
  BY <1>2, <1>5, <1>7, <1>9, <1>10, InitialStep DEF InitPlaces

\* SendIfCond preserves SdInv: a version that is taken wrongly takes RETRIES + 1 misses.
LEMMA SendIfCondStep ==
  ASSUME SdInv, SendIfCond
  PROVE  SdInv'
<1>1. /\ driver.call = None /\ driver \in DriverStates /\ card \in CardStates /\ Settled(card)
      /\ driver.pc = "CMD8"
  BY NoCall DEF SdInv, SendIfCond, InitPlaces
<1>2. /\ card.kind # "none" /\ card.busy = 0 /\ ~card.ready
      /\ card.kind # "v1" => driver.retries <= card.missed
  BY <1>1 DEF SdInv, Learnt
<1> DEFINE next == [At(driver, "CMD55") EXCEPT !.version = 2]
<1>3. PICK o \in SendCommand(driver, card, "CMD8", 0) :
          /\ card' = o.card
          /\ driver' = Loop(driver, o.response, "01", driver, next,
                            [next EXCEPT !.version = 1, !.retries = 0])
          /\ UNCHANGED before
  BY DEF SendIfCond, Command
<1>4. driver.sdhc \in BOOLEAN /\ driver.retries \in Nat /\ card.missed \in Nat /\ RETRIES \in Nat
  BY <1>1, SdAssumption DEF DriverStates, CardStates
<1>5. /\ Outlasts(card, driver, "CMD8", o) /\ o.card.busy = 0 /\ ~o.card.ready
      /\ card.kind = "v1" => o.response # "01"
      /\ card.kind # "v1" /\ o.response # "01" => o.card.missed = card.missed + 1
  BY <1>1, <1>2, <1>4, OutcomeCMD8
<1>6. /\ card' \in CardStates /\ Settled(card') /\ card'.kind = card.kind
      /\ card'.missed \in {card.missed, card.missed + 1}
  BY <1>3, <1>5 DEF Outlasts
<1>7. \/ /\ driver.retries > RETRIES
         /\ driver' = [[[[driver EXCEPT !.pc = "CMD55"] EXCEPT !.version = 2] EXCEPT !.version = 1]
                         EXCEPT !.retries = 0]
      \/ driver' = [[[driver EXCEPT !.pc = "CMD55"] EXCEPT !.version = 2] EXCEPT !.retries = 0]
      \/ o.response # "01" /\ driver' = [driver EXCEPT !.retries = @ + 1]
  BY <1>3 DEF Loop, At, OutOfTries
<1>12. driver' \in DriverStates
  <2> DEFINE d1 == [driver EXCEPT !.pc = "CMD55"]
             d2 == [d1 EXCEPT !.version = 2]
             d3 == [d2 EXCEPT !.version = 1]
  <2>1. driver.retries + 1 \in Nat /\ 0 \in Nat /\ 1 \in Int /\ 2 \in Int /\ "CMD55" \in Places
    BY <1>1 DEF DriverStates, Places
  <2>2. d1 \in DriverStates
    BY <1>1, <2>1, DriverWith
  <2>3. d2 \in DriverStates
    BY <2>1, <2>2, DriverWith
  <2>4. d3 \in DriverStates
    BY <2>1, <2>3, DriverWith
  <2>5. [d2 EXCEPT !.retries = 0] \in DriverStates
    BY <2>1, <2>3, DriverWith
  <2>6. [d3 EXCEPT !.retries = 0] \in DriverStates
    BY <2>1, <2>4, DriverWith
  <2>7. [driver EXCEPT !.retries = driver.retries + 1] \in DriverStates
    BY <1>1, <2>1, DriverWith
  <2> QED
    BY <1>7, <2>5, <2>6, <2>7
<1>8. /\ driver'.call = None
      /\ \/ driver'.pc = "CMD55" /\ driver.retries > RETRIES
         \/ driver'.pc = "CMD55" /\ driver'.version = 2
         \/ o.response # "01" /\ driver'.pc = "CMD8" /\ driver'.retries = driver.retries + 1
  BY <1>1, <1>7 DEF DriverStates
<1>9. CASE driver'.pc = "CMD55" /\ driver.retries > RETRIES
  <2>1. card'.kind # "hc" \/ card'.missed > RETRIES
    BY <1>2, <1>4, <1>6, <1>9
  <2>2. Learnt'
    BY <1>2, <1>3, <1>5, <1>6, <1>9, <2>1 DEF Learnt
  <2> QED
    BY <1>3, <1>6, <1>8, <1>12, <1>9, <2>2, InitialStep DEF InitPlaces
<1>10. CASE driver'.pc = "CMD55" /\ driver'.version = 2
  <2>1. Learnt'
    BY <1>2, <1>3, <1>5, <1>6, <1>10 DEF Learnt
  <2> QED
    BY <1>3, <1>6, <1>8, <1>12, <1>10, <2>1, InitialStep DEF InitPlaces
<1>11. CASE o.response # "01" /\ driver'.pc = "CMD8" /\ driver'.retries = driver.retries + 1
  <2>1. card'.kind # "v1" => driver'.retries <= card'.missed
    BY <1>2, <1>3, <1>4, <1>5, <1>6, <1>11
  <2>2. Learnt'
    BY <1>2, <1>3, <1>5, <1>6, <1>11, <2>1 DEF Learnt
  <2> QED
    BY <1>3, <1>6, <1>8, <1>12, <1>11, <2>2, InitialStep DEF InitPlaces
<1> QED
  BY <1>8, <1>9, <1>10, <1>11

\* AppCmd preserves SdInv.
LEMMA AppCmdStep ==
  ASSUME SdInv, AppCmd
  PROVE  SdInv'
<1>1. /\ driver.call = None /\ driver \in DriverStates /\ card \in CardStates /\ Settled(card)
      /\ driver.pc = "CMD55"
  BY NoCall DEF SdInv, AppCmd, InitPlaces
<1>2. /\ card.kind # "none" /\ card.busy = 0
      /\ driver.version = 2 \/ card.kind # "hc" \/ card.missed > RETRIES
  BY <1>1 DEF SdInv, Learnt
<1>3. PICK o \in SendCommand(driver, card, "CMD55", 0) :
          /\ card' = o.card
          /\ driver' = [driver EXCEPT !.pc = "ACMD41"]
          /\ UNCHANGED before
  BY DEF AppCmd, Command, At
<1>4. driver.sdhc \in BOOLEAN /\ card.missed \in Nat /\ RETRIES \in Nat
  BY <1>1, SdAssumption DEF DriverStates, CardStates
<1>5. Outlasts(card, driver, "CMD55", o) /\ o.card.busy = 0
  BY <1>1, <1>2, <1>4, OutcomeCMD55
<1>6. /\ card' \in CardStates /\ Settled(card') /\ card'.kind = card.kind
      /\ card'.missed \in {card.missed, card.missed + 1}
  BY <1>3, <1>5 DEF Outlasts
<1>10. driver' \in DriverStates
  <2>1. "ACMD41" \in Places
    BY DEF Places
  <2> QED
    BY <1>1, <1>3, <2>1, DriverWith
<1>7. /\ driver'.call = None /\ driver'.pc = "ACMD41"
      /\ driver'.version = driver.version
  BY <1>1, <1>3 DEF DriverStates
<1>8. driver'.version = 2 \/ card'.kind # "hc" \/ card'.missed > RETRIES
  BY <1>2, <1>4, <1>6, <1>7
<1>9. Learnt'
  BY <1>2, <1>3, <1>5, <1>6, <1>7, <1>8 DEF Learnt
<1> QED
  BY <1>3, <1>6, <1>7, <1>9, <1>10, InitialStep DEF InitPlaces

\* SendOpCond preserves SdInv: a card of version 1 is never SDHC.
LEMMA SendOpCondStep ==
  ASSUME SdInv, SendOpCond
  PROVE  SdInv'
<1>1. /\ driver.call = None /\ driver \in DriverStates /\ card \in CardStates /\ Settled(card)
      /\ driver.pc = "ACMD41"
  BY NoCall DEF SdInv, SendOpCond, InitPlaces
<1>2. /\ card.kind # "none" /\ card.busy = 0
      /\ driver.version = 2 \/ card.kind # "hc" \/ card.missed > RETRIES
  BY <1>1 DEF SdInv, Learnt
<1> DEFINE up == IF driver.version = 2 THEN At(driver, "CMD58")
                 ELSE [At(driver, "up") EXCEPT !.sdhc = FALSE]
<1>3. PICK o \in SendCommand(driver, card, "ACMD41", 0) :
          /\ card' = o.card
          /\ driver' = Loop(driver, o.response, "00", At(driver, "CMD55"), up, GoesWrong(driver))
          /\ UNCHANGED before
  BY DEF SendOpCond, Command
<1>4. driver.sdhc \in BOOLEAN /\ driver.retries \in Nat /\ card.missed \in Nat /\ RETRIES \in Nat
  BY <1>1, SdAssumption DEF DriverStates, CardStates
<1>5. /\ Outlasts(card, driver, "ACMD41", o) /\ o.card.busy = 0
      /\ o.response = "00" => o.card.ready
  BY <1>1, <1>2, <1>4, OutcomeACMD41
<1>6. /\ card' \in CardStates /\ Settled(card') /\ card'.kind = card.kind
      /\ card'.missed \in {card.missed, card.missed + 1} /\ card'.missed \in Nat
  BY <1>3, <1>5 DEF Outlasts, CardStates
<1>7. \/ driver' \in {[driver EXCEPT !.pc = "down"], [driver EXCEPT !.pc = "again"]}
      \/ driver' = [[driver EXCEPT !.pc = "CMD55"] EXCEPT !.retries = @ + 1]
      \/ /\ driver.version = 2 /\ o.response = "00"
         /\ driver' = [[driver EXCEPT !.pc = "CMD58"] EXCEPT !.retries = 0]
      \/ /\ driver.version # 2
         /\ driver' = [[[driver EXCEPT !.pc = "up"] EXCEPT !.sdhc = FALSE] EXCEPT !.retries = 0]
  BY <1>3 DEF Loop, GoesWrong, At
<1>12. driver' \in DriverStates
  <2> DEFINE up1 == [driver EXCEPT !.pc = "up"]
             up2 == [up1 EXCEPT !.sdhc = FALSE]
  <2>1. /\ driver.retries + 1 \in Nat /\ 0 \in Nat /\ FALSE \in BOOLEAN
        /\ {"down", "again", "CMD55", "CMD58", "up"} \subseteq Places
    BY <1>1 DEF DriverStates, Places
  <2>2. \A x \in {"down", "again", "CMD55", "CMD58", "up"} : [driver EXCEPT !.pc = x] \in DriverStates
    BY <1>1, <2>1, DriverWith
  <2>3. [[driver EXCEPT !.pc = "CMD58"] EXCEPT !.retries = 0] \in DriverStates
    BY <2>1, <2>2, DriverWith
  <2>4. up2 \in DriverStates
    BY <2>1, <2>2, DriverWith
  <2>5. [up2 EXCEPT !.retries = 0] \in DriverStates
    BY <2>1, <2>4, DriverWith
  <2>6. [driver EXCEPT !.pc = "CMD55"].retries = driver.retries
    BY <1>1 DEF DriverStates
  <2>7. [[driver EXCEPT !.pc = "CMD55"] EXCEPT !.retries = @ + 1] \in DriverStates
    <3>1. PICK d : d = [driver EXCEPT !.pc = "CMD55"]
      OBVIOUS
    <3>2. d \in DriverStates /\ d.retries + 1 \in Nat
      BY <2>1, <2>2, <2>6, <3>1
    <3> QED
      BY <3>1, <3>2, DriverWith
  <2> QED
    BY <1>7, <2>2, <2>3, <2>5, <2>7
<1>8. /\ driver'.call = None
      /\ \/ driver'.pc \in {"down", "again"}
         \/ driver'.pc = "CMD55" /\ driver'.version = driver.version
         \/ driver'.pc = "CMD58" /\ driver'.retries = 0 /\ o.response = "00"
         \/ driver'.pc = "up" /\ driver.version # 2 /\ driver'.sdhc = FALSE
  BY <1>1, <1>7 DEF DriverStates
<1>9. driver.version = 2 \/ card'.kind # "hc" \/ card'.missed > RETRIES
  BY <1>2, <1>4, <1>6
<1>10. Learnt'
  BY <1>2, <1>3, <1>5, <1>6, <1>8, <1>9 DEF Learnt
<1>11. driver'.pc = "up" => AddressesRight' \/ card'.missed > RETRIES
  BY <1>8, <1>9 DEF AddressesRight
<1> QED
  BY <1>3, <1>6, <1>8, <1>10, <1>11, <1>12, InitialStep DEF InitPlaces

\* ReadOcr preserves SdInv: sdhc_card is left as it was only after RETRIES + 1 misses.
LEMMA ReadOcrStep ==
  ASSUME SdInv, ReadOcr
  PROVE  SdInv'
<1>1. /\ driver.call = None /\ driver \in DriverStates /\ card \in CardStates /\ Settled(card)
      /\ driver.pc = "CMD58"
  BY NoCall DEF SdInv, ReadOcr, InitPlaces
<1>2. card.kind # "none" /\ card.busy = 0 /\ card.ready /\ driver.retries <= card.missed
  BY <1>1 DEF SdInv, Learnt
<1>3. PICK o \in SendCommand(driver, card, "CMD58", 0) :
          /\ card' = o.card
          /\ LET d == [driver EXCEPT !.sdhc = o.sdhc]
             IN  driver' = Loop(driver, o.response, "00", d, At(d, "up"), At(d, "up"))
          /\ UNCHANGED before
  BY DEF ReadOcr, Command
<1>4. driver.sdhc \in BOOLEAN /\ driver.retries \in Nat /\ card.missed \in Nat /\ RETRIES \in Nat
  BY <1>1, SdAssumption DEF DriverStates, CardStates
<1>5. /\ Outlasts(card, driver, "CMD58", o) /\ o.card.busy = 0 /\ o.card.ready
      /\ o.response = "00" => (o.sdhc <=> card.kind = "hc")
      /\ o.response # "00" => o.card.missed = card.missed + 1
  BY <1>1, <1>2, <1>4, OutcomeCMD58
<1>6. /\ card' \in CardStates /\ Settled(card') /\ card'.kind = card.kind
      /\ card'.missed \in {card.missed, card.missed + 1} /\ card'.missed \in Nat
      /\ o.sdhc \in BOOLEAN
  BY <1>3, <1>5 DEF Outlasts, CardStates
<1>7. \/ /\ driver.retries > RETRIES
         /\ driver' = [[driver EXCEPT !.sdhc = o.sdhc] EXCEPT !.pc = "up"]
      \/ /\ o.response = "00"
         /\ driver' = [[[driver EXCEPT !.sdhc = o.sdhc] EXCEPT !.pc = "up"] EXCEPT !.retries = 0]
      \/ /\ o.response # "00"
         /\ driver' = [[driver EXCEPT !.sdhc = o.sdhc] EXCEPT !.retries = @ + 1]
  BY <1>3 DEF Loop, At, OutOfTries
<1>13. driver' \in DriverStates
  <2>1. PICK d : d = [driver EXCEPT !.sdhc = o.sdhc]
    OBVIOUS
  <2>2. d \in DriverStates
    BY <1>1, <1>6, <2>1, DriverWith
  <2>3. d.retries + 1 \in Nat /\ 0 \in Nat /\ "up" \in Places
    BY <2>2 DEF DriverStates, Places
  <2>4. [d EXCEPT !.retries = @ + 1] \in DriverStates
    BY <2>2, <2>3, DriverWith
  <2>5. [d EXCEPT !.pc = "up"] \in DriverStates
    BY <2>2, <2>3, DriverWith
  <2>6. [[d EXCEPT !.pc = "up"] EXCEPT !.retries = 0] \in DriverStates
    BY <2>3, <2>5, DriverWith
  <2> QED
    BY <1>7, <2>1, <2>4, <2>5, <2>6
<1>8. /\ driver'.call = None
      /\ \/ driver'.pc = "up" /\ driver.retries > RETRIES
         \/ driver'.pc = "up" /\ o.response = "00" /\ (driver'.sdhc <=> o.sdhc)
         \/ driver'.pc = "CMD58" /\ driver'.retries = driver.retries + 1 /\ o.response # "00"
  BY <1>1, <1>6, <1>7 DEF DriverStates
<1>9. driver'.pc = "CMD58" => driver'.retries <= card'.missed
  BY <1>2, <1>3, <1>4, <1>5, <1>8
<1>10. Learnt'
  BY <1>2, <1>3, <1>5, <1>6, <1>8, <1>9 DEF Learnt
<1>11. driver.retries > RETRIES => card'.missed > RETRIES
  BY <1>2, <1>4, <1>6
<1>12. driver'.pc = "up" => AddressesRight' \/ card'.missed > RETRIES
  BY <1>5, <1>6, <1>8, <1>11 DEF AddressesRight
<1> QED
  BY <1>3, <1>6, <1>8, <1>10, <1>12, <1>13, InitialStep DEF InitPlaces
-------------------------------------------------------------------------------
(* Transfers. *)

\* The call that is being served.
LEMMA CallServed ==
  ASSUME SdInv, driver.pc \in ReadPlaces \cup WritePlaces
  PROVE  /\ driver \in DriverStates /\ card \in CardStates /\ Settled(card)
         /\ driver.call.op \in {"read", "write"} /\ driver.call # None
         /\ driver.pc \in ReadPlaces => driver.call.op = "read"
         /\ driver.pc \in WritePlaces => driver.call.op = "write"
         /\ driver.call.at \in Blocks /\ driver.call.count \in Nat
         /\ driver.call.at + driver.call.count <= BLOCKS
         /\ driver.call.op = "write" => /\ driver.call.data \in Seq(Value)
                                        /\ Len(driver.call.data) = driver.call.count
         /\ driver.done \in Nat /\ driver.done <= driver.call.count
<1>1. driver \in DriverStates /\ card \in CardStates /\ Settled(card) /\ CallFits
  BY DEF SdInv
<1>2. /\ driver.pc \in ReadPlaces => driver.call.op = "read"
      /\ driver.pc \in WritePlaces => driver.call.op = "write"
      /\ driver.done <= driver.call.count
  BY <1>1 DEF CallFits
<1>3. driver.call.op \in {"read", "write"}
  BY <1>2
<1>4. None.op = "none"
  BY DEF None
<1>5. driver.call # None /\ driver.call.op # "none"
  BY <1>3, <1>4
<1>6. driver.call \in Calls /\ driver.done \in Nat
  BY <1>1 DEF DriverStates
<1>7. driver.call.at \in Blocks /\ driver.call.count \in Nat
  BY <1>5, <1>6 DEF Calls
<1>8. driver.call.op = "write" => driver.call.data \in Seq(Value)
  BY <1>5, <1>6 DEF Calls
<1>9. /\ driver.call.at + driver.call.count <= BLOCKS
      /\ driver.call.op = "write" => Len(driver.call.data) = driver.call.count
  BY <1>1, <1>5 DEF CallFits
<1> QED
  BY <1>1, <1>2, <1>3, <1>5, <1>6, <1>7, <1>8, <1>9

\* A step of a transfer: the call goes on or has returned, and the card is the same one.
GoesOn ==
    /\ driver' \in DriverStates /\ driver'.call = driver.call /\ driver'.sdhc = driver.sdhc
    /\ \/ driver'.pc = "up"
       \/ driver'.pc \in ReadPlaces /\ driver.call.op = "read"
       \/ driver'.pc \in WritePlaces /\ driver.call.op = "write"
    /\ driver'.pc # "up" => driver'.done <= driver.call.count
    /\ driver'.pc \in {"token", "block", "data", "busy", "settled"} => driver'.done < driver.call.count

StaysIn ==
    /\ card' \in CardStates /\ Settled(card') /\ card'.kind = card.kind
    /\ card'.missed \in {card.missed, card.missed + 1}

\* What a step of a transfer has to keep.
LEMMA TransferStep ==
  ASSUME SdInv, driver.pc \in ReadPlaces \cup WritePlaces, UNCHANGED before,
         GoesOn, StaysIn,
         card.missed <= RETRIES => Reading',
         card.missed <= RETRIES => Writing'
  PROVE  SdInv'
<1>1. before' \in [Blocks -> Value] /\ CallFits
  BY DEF SdInv
<1>2. driver.call # None /\ driver.call.op \in {"read", "write"}
  BY CallServed
<1>11. /\ driver' \in DriverStates /\ driver'.call = driver.call /\ driver'.sdhc = driver.sdhc
       /\ card' \in CardStates /\ Settled(card') /\ card'.kind = card.kind
       /\ card'.missed \in {card.missed, card.missed + 1}
  BY DEF GoesOn, StaysIn
<1>3. driver'.pc \in {"up"} \cup ReadPlaces \cup WritePlaces
  BY DEF GoesOn
<1>4. Learnt'
  BY <1>3 DEF Learnt, ReadPlaces, WritePlaces
<1>5. "up" \notin ReadPlaces \cup WritePlaces /\ ReadPlaces \cap WritePlaces = {}
  BY DEF ReadPlaces, WritePlaces
<1>6. CallFits'
  BY <1>1, <1>2, <1>3, <1>5, <1>11 DEF CallFits, GoesOn
<1>7. card.missed \in Nat /\ RETRIES \in Nat
  BY SdAssumption DEF SdInv, CardStates
<1>8. card'.missed <= RETRIES => card.missed <= RETRIES
  BY <1>7, <1>11
<1>9. card'.missed <= RETRIES => AddressesRight'
  BY <1>2, <1>8, <1>11 DEF SdInv, AddressesRight
<1>10. card'.missed <= RETRIES => Reading' /\ Writing'
  BY <1>8
<1> HIDE DEF Reading, Writing, Learnt, CallFits
<1> QED
  BY <1>1, <1>4, <1>6, <1>9, <1>10, <1>11 DEF SdInv

\* A number of a byte that is one of the first of a sector.
LEMMA Quotient ==
  ASSUME NEW b \in Nat, NEW f \in Nat \ {0}
  PROVE  (b * f) \div f = b
BY SMTT(30)

\* The card finds the sector that is meant.
LEMMA SectorFound ==
  ASSUME NEW c, NEW d, d.sdhc <=> c.kind = "hc", NEW b \in Nat, NEW cmd \in {"CMD17", "CMD24"}
  PROVE  BlockAt(c, Argument(d, cmd, b)) = b
<1>1. FACTOR \in Nat \ {0}
  BY SdAssumption
<1>2. CASE d.sdhc
  BY <1>2 DEF BlockAt, Argument
<1>3. CASE ~d.sdhc
  <2>1. BlockAt(c, Argument(d, cmd, b)) = (b * FACTOR) \div FACTOR
    BY <1>3 DEF BlockAt, Argument
  <2> QED
    BY <1>1, <2>1, Quotient
<1> QED
  BY <1>2, <1>3

\* The driver that returns from a call.
LEMMA ReturnsIs ==
  ASSUME NEW d \in DriverStates, NEW ok \in BOOLEAN
  PROVE  /\ Returns(d, ok) \in DriverStates
         /\ Returns(d, ok).pc = "up" /\ (Returns(d, ok).ok <=> ok)
         /\ Returns(d, ok).call = d.call /\ Returns(d, ok).sdhc = d.sdhc
         /\ Returns(d, ok).done = d.done /\ Returns(d, ok).buffer = d.buffer
<1> DEFINE e == [d EXCEPT !.pc = "up"]
<1>1. "up" \in Places
  BY DEF Places
<1>2. e \in DriverStates
  BY <1>1, DriverWith
<1>3. [e EXCEPT !.ok = ok] \in DriverStates
  BY <1>2, DriverWith
<1>4. Returns(d, ok) = [e EXCEPT !.ok = ok]
  BY DEF DriverStates, Returns
<1>5. Returns(d, ok).ok <=> ok
  BY DEF DriverStates, Returns
<1>6. /\ Returns(d, ok).pc = "up"
      /\ Returns(d, ok).call = d.call /\ Returns(d, ok).sdhc = d.sdhc
      /\ Returns(d, ok).done = d.done /\ Returns(d, ok).buffer = d.buffer
  BY DEF DriverStates, Returns
<1> HIDE DEF e
<1> QED
  BY <1>3, <1>4, <1>5, <1>6

\* The driver that goes on elsewhere.
LEMMA AtIs ==
  ASSUME NEW d \in DriverStates, NEW pc \in Places
  PROVE  /\ At(d, pc) \in DriverStates /\ At(d, pc).pc = pc
         /\ At(d, pc).call = d.call /\ At(d, pc).sdhc = d.sdhc /\ At(d, pc).ok = d.ok
         /\ At(d, pc).done = d.done /\ At(d, pc).buffer = d.buffer
<1>1. At(d, pc) \in DriverStates
  BY DriverWith DEF At
<1>2. /\ At(d, pc).pc = pc
      /\ At(d, pc).call = d.call /\ At(d, pc).sdhc = d.sdhc /\ At(d, pc).ok = d.ok
      /\ At(d, pc).done = d.done /\ At(d, pc).buffer = d.buffer
  BY DEF At, DriverStates
<1> QED
  BY <1>1, <1>2

\* A call that fails has only left the disk as it is.
LEMMA FailureStep ==
  ASSUME SdInv, driver.pc \in ReadPlaces \cup WritePlaces, UNCHANGED before,
         driver' = Returns(driver, FALSE),
         card' \in CardStates, Settled(card'), card'.kind = card.kind, card'.disk = card.disk,
         card'.missed \in {card.missed, card.missed + 1},
         card.missed <= RETRIES /\ driver.call.op = "write" =>
             \E k \in 0 .. driver.call.count : card.disk = Stored(k)
  PROVE  SdInv'
<1>1. /\ driver \in DriverStates /\ driver.call.op \in {"read", "write"}
  BY CallServed
<1>2. /\ driver' \in DriverStates /\ driver'.pc = "up" /\ ~driver'.ok
      /\ driver'.call = driver.call /\ driver'.sdhc = driver.sdhc
  BY <1>1, ReturnsIs
<1>3. "up" \notin ReadPlaces \cup WritePlaces
  BY DEF ReadPlaces, WritePlaces
<1>4. ASSUME card.missed <= RETRIES PROVE Reading'
  <2>1. driver.call.op = "read" => card.disk = before
    BY <1>4 DEF SdInv, Reading
  <2> QED
    BY <1>2, <1>3, <2>1 DEF Reading
<1>5. ASSUME card.missed <= RETRIES PROVE Writing'
  <2>1. \A k : Stored(k)' = Stored(k)
    BY <1>2 DEF Stored
  <2>2. driver.call.op = "write" => \E k \in 0 .. driver'.call.count : card'.disk = Stored(k)'
    BY <1>2, <1>5, <2>1
  <2> HIDE DEF Stored
  <2> QED
    BY <1>2, <1>3, <2>2 DEF Writing, Idle
<1>6. GoesOn /\ StaysIn
  BY <1>2 DEF GoesOn, StaysIn
<1> HIDE DEF Reading, Writing
<1> QED
  BY <1>4, <1>5, <1>6, TransferStep

\* ReadCommand preserves SdInv: the sector that comes next is asked for, or all have come.
LEMMA ReadCommandStep ==
  ASSUME SdInv, ReadCommand
  PROVE  SdInv'
<1>1. driver.pc = "CMD17" /\ driver.pc \in ReadPlaces /\ driver.pc \in ReadPlaces \cup WritePlaces
  BY DEF ReadCommand, ReadPlaces
<1>2. /\ driver \in DriverStates /\ card \in CardStates /\ Settled(card)
      /\ driver.call.op = "read" /\ driver.call.at \in Blocks /\ driver.call.count \in Nat
      /\ driver.done \in Nat /\ driver.done <= driver.call.count
  BY <1>1, CallServed
<1>3. /\ card.missed \in Nat /\ driver.sdhc \in BOOLEAN
  BY <1>2 DEF CardStates, DriverStates
<1>4. "up" \notin ReadPlaces \cup WritePlaces
  BY DEF ReadPlaces, WritePlaces
<1>5. ASSUME card.missed <= RETRIES
      PROVE  /\ AddressesRight /\ card.disk = before
             /\ driver.buffer = [i \in 1 .. driver.done |-> card.disk[driver.call.at + i - 1]]
  <2>1. AddressesRight /\ Reading
    BY <1>1, <1>5 DEF SdInv
  <2> QED
    BY <1>1, <1>2, <2>1 DEF Reading
<1>6. CASE driver.done = driver.call.count
  <2> DEFINE ok == driver.call.count > 0
  <2>1. driver' = Returns(driver, ok)
    BY <1>6 DEF ReadCommand
  <2>6. ok \in BOOLEAN
    OBVIOUS
  <2> HIDE DEF ok
  <2>2. UNCHANGED <<card, before>>
    BY <1>6 DEF ReadCommand
  <2>3. /\ driver' \in DriverStates /\ driver'.pc = "up" /\ driver'.call = driver.call
        /\ driver'.sdhc = driver.sdhc /\ driver'.buffer = driver.buffer
    BY <1>2, <2>1, <2>6, ReturnsIs
  <2>4. ASSUME card.missed <= RETRIES PROVE Reading' /\ Writing'
    <3>1. Writing'
      BY <1>2, <2>3 DEF Writing
    <3>2. Reading'
      BY <1>4, <1>5, <1>6, <2>2, <2>3, <2>4 DEF Reading
    <3> QED
      BY <3>1, <3>2
  <2>5. GoesOn /\ StaysIn
    BY <1>2, <2>2, <2>3 DEF GoesOn, StaysIn
  <2> HIDE DEF Reading, Writing
  <2> QED
    BY <1>1, <2>2, <2>4, <2>5, TransferStep
<1>7. CASE driver.done # driver.call.count
  <2>1. PICK o \in SendCommand(driver, card, "CMD17", Sector(driver)) :
            /\ card' = o.card
            /\ driver' = IF o.response = "00" THEN At(driver, "token") ELSE Returns(driver, FALSE)
            /\ UNCHANGED before
    BY <1>7 DEF ReadCommand, Command
  <2>2. /\ Outlasts(card, driver, "CMD17", o)
        /\ o.response = "00" =>
             TokenBefore(o.card.out, card.disk[BlockAt(card, Argument(driver, "CMD17", Sector(driver)))])
    BY <1>2, <1>3, OutcomeCMD17
  <2>3. /\ card' \in CardStates /\ Settled(card') /\ card'.kind = card.kind
        /\ card'.disk = card.disk /\ card'.missed \in {card.missed, card.missed + 1}
    BY <2>1, <2>2 DEF Outlasts
  <2>4. CASE o.response = "00"
    <3>1. "token" \in Places /\ "token" \in ReadPlaces /\ driver' = At(driver, "token")
      BY <2>1, <2>4 DEF Places, ReadPlaces
    <3>2. /\ driver' \in DriverStates /\ driver'.pc = "token" /\ driver'.call = driver.call
          /\ driver'.sdhc = driver.sdhc /\ driver'.buffer = driver.buffer /\ driver'.done = driver.done
      BY <1>2, <3>1, AtIs
    <3>3. driver'.done < driver.call.count
      BY <1>2, <1>7, <3>2
    <3>4. Sector(driver)' = Sector(driver) /\ Sector(driver) \in Nat
      BY <1>2, <3>2, SdAssumption DEF Sector, Blocks
    <3>5. ASSUME card.missed <= RETRIES PROVE Reading' /\ Writing'
      <4>1. BlockAt(card, Argument(driver, "CMD17", Sector(driver))) = Sector(driver)
        <5>1. driver.sdhc <=> card.kind = "hc"
          BY <1>5, <3>5 DEF AddressesRight
        <5> QED
          BY <3>4, <5>1, SectorFound
      <4>2. TokenBefore(card'.out, card'.disk[Sector(driver)'])
        BY <2>1, <2>2, <2>3, <2>4, <3>4, <4>1
      <4>3. driver'.buffer = [i \in 1 .. driver'.done |-> card'.disk[driver'.call.at + i - 1]]
        BY <1>5, <2>3, <3>2, <3>5
      <4>4. card'.disk = before'
        BY <1>5, <2>1, <2>3, <3>5
      <4>5. Reading'
        BY <3>2, <4>2, <4>3, <4>4 DEF Reading, Idle
      <4>6. Writing'
        BY <1>2, <3>2 DEF Writing
      <4> QED
        BY <4>5, <4>6
    <3>6. GoesOn /\ StaysIn
      BY <1>2, <2>3, <3>1, <3>2, <3>3 DEF GoesOn, StaysIn
    <3> HIDE DEF Reading, Writing
    <3> QED
      BY <1>1, <2>1, <3>5, <3>6, TransferStep
  <2>5. CASE o.response # "00"
    BY <1>1, <1>2, <2>1, <2>3, <2>5, FailureStep
  <2> QED
    BY <2>4, <2>5
<1> QED
  BY <1>6, <1>7

\* Some bytes more.
LEMMA AfterKeeps ==
  ASSUME NEW c \in CardStates, Settled(c), NEW n \in Nat
  PROVE  /\ After(c, n) \in CardStates /\ Same(c, After(c, n)) /\ Settled(After(c, n))
         /\ c.out = <<>> => After(c, n).out = <<>>
<1>1. PICK x : x = After(c, n)
  OBVIOUS
<1>2. /\ x \in CardStates /\ Same(c, x)
      /\ n <= Len(c.out) => x.out = SubSeq(c.out, n + 1, Len(c.out)) /\ x.busy = c.busy
      /\ n >= Len(c.out) => /\ x.out = <<>>
                            /\ x.busy = IF c.busy > n - Len(c.out) THEN c.busy - (n - Len(c.out)) ELSE 0
  BY <1>1, AfterBytes
<1>3. Len(c.out) \in Nat /\ (c.out = <<>> <=> Len(c.out) = 0)
  BY LenProperties, EmptySeq DEF CardStates
<1>4. x.kind = c.kind /\ x.target = c.target
  BY <1>2 DEF Same
<1>5. c.out = <<>> => x.out = <<>>
  BY <1>2, <1>3
<1>6. c.busy \in Nat /\ x.busy \in Nat
  BY <1>2 DEF CardStates
<1>7. c.kind = "none" => x.busy = 0
  <2>1. SUFFICES ASSUME c.kind = "none" PROVE x.busy = 0
    OBVIOUS
  <2>2. c.busy = 0 /\ c.out = <<>>
    BY <2>1 DEF Settled
  <2> QED
    BY <1>2, <1>3, <2>2
<1>8. x.busy > 0 => c.busy > 0
  <2>1. CASE n <= Len(c.out)
    BY <1>2, <2>1
  <2>2. CASE n > Len(c.out)
    BY <1>2, <1>3, <1>6, <2>2
  <2> QED
    BY <1>3, <2>1, <2>2
<1>9. Settled(x)
  BY <1>4, <1>5, <1>7, <1>8 DEF Settled
<1> QED
  BY <1>1, <1>2, <1>5, <1>9

\* The same of the card at hand.
LEMMA AfterIs ==
  ASSUME SdInv, NEW n \in Nat, card' = After(card, n)
  PROVE  /\ StaysIn /\ card'.disk = card.disk /\ card'.target = card.target
         /\ card.out = <<>> => card'.out = <<>>
<1>1. card \in CardStates /\ Settled(card)
  BY DEF SdInv
<1>2. /\ card' \in CardStates /\ Same(card, card') /\ Settled(card')
      /\ card.out = <<>> => card'.out = <<>>
  BY <1>1, AfterKeeps
<1>3. /\ card'.kind = card.kind /\ card'.missed = card.missed
      /\ card'.disk = card.disk /\ card'.target = card.target
  BY <1>2 DEF Same
<1> QED
  BY <1>2, <1>3 DEF StaysIn

\* AwaitToken preserves SdInv: after the token, the sector comes next.
LEMMA AwaitTokenStep ==
  ASSUME SdInv, AwaitToken
  PROVE  SdInv'
<1>1. /\ driver.pc = "token" /\ driver.pc \in ReadPlaces /\ driver.pc \in ReadPlaces \cup WritePlaces
      /\ driver.pc \notin WritePlaces
  BY DEF AwaitToken, ReadPlaces, WritePlaces
<1>2. /\ driver \in DriverStates /\ card \in CardStates
      /\ driver.call.op = "read" /\ driver.call.at \in Blocks /\ driver.call.count \in Nat
      /\ driver.done \in Nat /\ driver.done < driver.call.count
  <2>1. driver.done < driver.call.count
    BY <1>1 DEF SdInv, CallFits
  <2> QED
    BY <1>1, <2>1, CallServed
<1>3. /\ StaysIn /\ card'.disk = card.disk
      /\ card'.kind = card.kind /\ card' \in CardStates /\ Settled(card')
      /\ card'.missed \in {card.missed, card.missed + 1}
  <2>1. StaysIn /\ card'.disk = card.disk
    BY AfterIs DEF AwaitToken
  <2> QED
    BY <2>1 DEF StaysIn
<1>4. ASSUME card.missed <= RETRIES
      PROVE  /\ card.disk = before
             /\ driver.buffer = [i \in 1 .. driver.done |-> card.disk[driver.call.at + i - 1]]
             /\ TokenBefore(card.out, card.disk[Sector(driver)])
  <2>1. Reading
    BY <1>4 DEF SdInv
  <2> QED
    BY <1>1, <1>2, <2>1 DEF Reading
<1>5. card.out \in Seq(Sent) /\ Len(card.out) \in Nat /\ DOMAIN card.out = 1 .. Len(card.out)
  BY <1>2, LenProperties DEF CardStates
<1>6. Received(card, 0) = IF 0 < Len(card.out) THEN card.out[1]
                          ELSE IF card.busy > 0 - Len(card.out) THEN "00" ELSE "ff"
  <2>1. 0 \in Nat /\ 0 + 1 = 1
    OBVIOUS
  <2> QED
    BY <1>2, <2>1, ByteAfter
<1>7. card' = After(card, 1) /\ 1 \in Nat
  BY DEF AwaitToken
<1>8. /\ 1 <= Len(card.out) => card'.out = SubSeq(card.out, 2, Len(card.out))
      /\ 1 >= Len(card.out) => card'.out = <<>>
  <2>1. 1 + 1 = 2
    OBVIOUS
  <2> QED
    BY <1>2, <1>7, <2>1, AfterBytes
<1>9. UNCHANGED before
  BY DEF AwaitToken
<1>10. CASE Received(card, 0) = "fe"
  <2>1. "block" \in Places /\ "block" \in ReadPlaces /\ driver' = At(driver, "block")
    BY <1>10 DEF Places, ReadPlaces, AwaitToken
  <2>2. /\ driver' \in DriverStates /\ driver'.pc = "block" /\ driver'.call = driver.call
        /\ driver'.sdhc = driver.sdhc /\ driver'.buffer = driver.buffer /\ driver'.done = driver.done
    BY <1>2, <2>1, AtIs
  <2>3. Len(card.out) > 0 /\ card.out[1] = "fe"
    BY <1>5, <1>6, <1>10
  <2>4. ASSUME card.missed <= RETRIES PROVE Reading'
    <3>1. 1 < Len(card.out) /\ card.out[2] = card.disk[Sector(driver)]
      <4>1. 1 \in DOMAIN card.out /\ (\A j \in 1 .. 1 - 1 : card.out[j] # "fe") /\ 1 + 1 = 2
        BY <1>5, <2>3
      <4>2. TokenBefore(card.out, card.disk[Sector(driver)])
        BY <1>4, <2>4
      <4> QED
        BY <2>3, <4>1, <4>2 DEF TokenBefore
    <3>2. card'.out # <<>> /\ card'.out[1] = card.out[2]
      <4>1. 1 \in 0 .. Len(card.out) /\ 1 + 1 = 2 /\ 1 \in 1 .. Len(card.out) - 1
        BY <1>5, <3>1
      <4>2. /\ Len(SubSeq(card.out, 2, Len(card.out))) = Len(card.out) - 1
            /\ SubSeq(card.out, 2, Len(card.out))[1] = card.out[2]
        BY <1>5, <4>1, Dropped
      <4>3. card'.out = SubSeq(card.out, 2, Len(card.out)) /\ Len(card'.out) # 0 /\ Len(<<>>) = 0
        BY <1>5, <1>8, <3>1, <4>2, EmptySeq
      <4> QED
        BY <4>2, <4>3
    <3>3. Sector(driver)' = Sector(driver)
      BY <2>2 DEF Sector
    <3>4. card'.out[1] = card'.disk[Sector(driver)']
      BY <1>3, <3>1, <3>2, <3>3
    <3>5. driver'.buffer = [i \in 1 .. driver'.done |-> card'.disk[driver'.call.at + i - 1]]
      BY <1>3, <1>4, <2>2, <2>4
    <3>6. card'.disk = before'
      BY <1>3, <1>4, <1>9, <2>4
    <3> QED
      BY <2>2, <3>2, <3>4, <3>5, <3>6 DEF Reading, Idle
  <2>5. Writing'
    BY <1>2, <2>2 DEF Writing
  <2>6. GoesOn
    BY <1>2, <2>1, <2>2 DEF GoesOn
  <2> HIDE DEF Reading, Writing
  <2> QED
    BY <1>1, <1>3, <1>9, <2>4, <2>5, <2>6, TransferStep
<1>11. CASE Received(card, 0) # "fe" /\ TimedOut(driver)
  <2>1. driver' = Returns(driver, FALSE)
    BY <1>11 DEF AwaitToken
  <2> QED
    BY <1>1, <1>2, <1>3, <1>9, <2>1, FailureStep
<1>12. CASE Received(card, 0) # "fe" /\ ~TimedOut(driver)
  <2>1. driver' \in {driver, [driver EXCEPT !.retries = driver.retries + 1]}
    BY <1>12 DEF AwaitToken
  <2>2. driver.retries + 1 \in Nat
    BY <1>2 DEF DriverStates
  <2>3. driver' \in DriverStates
    BY <1>2, <2>1, <2>2, DriverWith
  <2>4. /\ driver'.pc = "token" /\ driver'.call = driver.call
        /\ driver'.sdhc = driver.sdhc /\ driver'.buffer = driver.buffer /\ driver'.done = driver.done
    BY <1>1, <1>2, <2>1 DEF DriverStates
  <2>5. ASSUME card.missed <= RETRIES PROVE Reading'
    <3>1. TokenBefore(card'.out, card.disk[Sector(driver)])
      <4>1. CASE Len(card.out) = 0
        <5>1. card'.out = <<>> /\ DOMAIN <<>> = {}
          BY <1>8, <4>1
        <5> QED
          BY <5>1 DEF TokenBefore
      <4>2. CASE Len(card.out) > 0
        <5>1. card.out[1] # "fe" /\ 1 \in 0 .. Len(card.out) /\ 1 + 1 = 2
          BY <1>5, <1>6, <1>12, <4>2
        <5>2. \A i \in 1 .. 1 : card.out[i] # "fe"
          BY <5>1
        <5>3. card'.out = SubSeq(card.out, 1 + 1, Len(card.out))
          BY <1>5, <1>8, <4>2
        <5>4. TokenBefore(card.out, card.disk[Sector(driver)])
          BY <1>4, <2>5
        <5> QED
          BY <1>5, <5>1, <5>2, <5>3, <5>4, TokenStillComes
      <4> QED
        BY <1>5, <4>1, <4>2
    <3>2. Sector(driver)' = Sector(driver)
      BY <2>4 DEF Sector
    <3>3. TokenBefore(card'.out, card'.disk[Sector(driver)'])
      BY <1>3, <3>1, <3>2
    <3>5. driver'.buffer = [i \in 1 .. driver'.done |-> card'.disk[driver'.call.at + i - 1]]
      BY <1>3, <1>4, <2>4, <2>5
    <3>6. card'.disk = before'
      BY <1>3, <1>4, <1>9, <2>5
    <3> QED
      BY <2>4, <3>3, <3>5, <3>6 DEF Reading, Idle
  <2>6. Writing'
    BY <1>2, <2>4 DEF Writing
  <2>7. GoesOn
    BY <1>1, <1>2, <2>3, <2>4 DEF GoesOn
  <2> HIDE DEF Reading, Writing
  <2> QED
    BY <1>1, <1>3, <1>9, <2>5, <2>6, <2>7, TransferStep
<1> QED
  BY <1>10, <1>11, <1>12

\* ReadBlock preserves SdInv: the buffer has one sector more.
LEMMA ReadBlockStep ==
  ASSUME SdInv, ReadBlock
  PROVE  SdInv'
<1>1. /\ driver.pc = "block" /\ driver.pc \in ReadPlaces /\ driver.pc \in ReadPlaces \cup WritePlaces
  BY DEF ReadBlock, ReadPlaces
<1>2. /\ driver \in DriverStates /\ card \in CardStates
      /\ driver.call.op = "read" /\ driver.call.at \in Blocks /\ driver.call.count \in Nat
      /\ driver.done \in Nat /\ driver.done < driver.call.count
  <2>1. driver.done < driver.call.count
    BY <1>1 DEF SdInv, CallFits
  <2> QED
    BY <1>1, <2>1, CallServed
<1>3. StaysIn /\ card'.disk = card.disk
  BY AfterIs DEF ReadBlock
<1>4. ASSUME card.missed <= RETRIES
      PROVE  /\ card.disk = before
             /\ driver.buffer = [i \in 1 .. driver.done |-> card.disk[driver.call.at + i - 1]]
             /\ card.out # <<>> /\ card.out[1] = card.disk[Sector(driver)]
  <2>1. Reading
    BY <1>4 DEF SdInv
  <2> QED
    BY <1>1, <1>2, <2>1 DEF Reading
<1>5. /\ card.out \in Seq(Sent) /\ Len(card.out) \in Nat /\ (card.out # <<>> <=> Len(card.out) # 0)
      /\ driver.buffer \in Seq(Sent)
  BY <1>2, LenProperties, EmptySeq DEF CardStates, DriverStates
<1>6. Received(card, 0) = IF 0 < Len(card.out) THEN card.out[1]
                          ELSE IF card.busy > 0 - Len(card.out) THEN "00" ELSE "ff"
  <2>1. 0 \in Nat /\ 0 + 1 = 1
    OBVIOUS
  <2> QED
    BY <1>2, <2>1, ByteAfter
<1>7. Received(card, 0) \in Sent
  <2>1. 0 < Len(card.out) => card.out[1] \in Sent
    BY <1>5, ElementOfSeq
  <2> QED
    BY <1>6, <2>1, Bytes
<1>8. UNCHANGED before
  BY DEF ReadBlock
<1>9. PICK e : e = Received(card, 0)
  OBVIOUS
<1>10. driver' = [[[driver EXCEPT !.pc = "CMD17"] EXCEPT !.buffer = Append(driver.buffer, e)]
                     EXCEPT !.done = driver.done + 1]
  BY <1>2, <1>9 DEF ReadBlock, At, DriverStates
<1>11. driver' \in DriverStates
  <2> DEFINE d1 == [driver EXCEPT !.pc = "CMD17"]
             d2 == [d1 EXCEPT !.buffer = Append(driver.buffer, e)]
  <2>1. /\ "CMD17" \in Places /\ driver.done + 1 \in Nat
        /\ Append(driver.buffer, e) \in Seq(Sent)
    BY <1>2, <1>5, <1>7, <1>9, AppendProperties DEF Places, ReadPlaces
  <2>2. d1 \in DriverStates
    BY <1>2, <2>1, DriverWith
  <2>3. d2 \in DriverStates
    BY <2>1, <2>2, DriverWith
  <2>4. [d2 EXCEPT !.done = driver.done + 1] \in DriverStates
    BY <2>1, <2>3, DriverWith
  <2> QED
    BY <1>10, <2>4
<1>12. /\ driver'.pc = "CMD17" /\ driver'.call = driver.call /\ driver'.sdhc = driver.sdhc
       /\ driver'.buffer = Append(driver.buffer, e) /\ driver'.done = driver.done + 1
  BY <1>2, <1>10 DEF DriverStates
<1>13. ASSUME card.missed <= RETRIES PROVE Reading'
  <2>1. e = card.disk[Sector(driver)]
    BY <1>4, <1>5, <1>6, <1>9, <1>13
  <2>2. Sector(driver) = driver.call.at + (driver.done + 1) - 1
    BY <1>2 DEF Sector, Blocks
  <2>3. driver.buffer = [i \in 1 .. driver.done |-> card.disk[driver.call.at + i - 1]]
    BY <1>4, <1>13
  <2> DEFINE f == [i \in 1 .. driver.done + 1 |-> card.disk[driver.call.at + i - 1]]
  <2>4. Append(driver.buffer, e) = f
    <3>1. Len(driver.buffer) = driver.done
      BY <1>2, <1>5, <2>3, LenProperties
    <3>2. /\ DOMAIN Append(driver.buffer, e) = 1 .. driver.done + 1
          /\ \A i \in 1 .. driver.done : Append(driver.buffer, e)[i] = driver.buffer[i]
          /\ Append(driver.buffer, e)[driver.done + 1] = e
          /\ Append(driver.buffer, e) \in Seq(Sent)
      BY <1>2, <1>5, <1>7, <1>9, <3>1, AppendProperties, LenProperties
    <3>3. \A i \in 1 .. driver.done + 1 : Append(driver.buffer, e)[i] = f[i]
      BY <1>2, <2>1, <2>2, <2>3, <3>2
    <3>4. Append(driver.buffer, e) = [i \in 1 .. driver.done + 1 |-> Append(driver.buffer, e)[i]]
      <4>1. Append(driver.buffer, e) \in [1 .. Len(Append(driver.buffer, e)) -> Sent]
        BY <3>2, LenProperties
      <4> QED
        BY <3>2, <4>1
    <3> HIDE DEF f
    <3>5. f = [i \in 1 .. driver.done + 1 |-> f[i]]
      BY DEF f
    <3> QED
      BY <3>3, <3>4, <3>5
  <2>5. driver'.buffer = [i \in 1 .. driver'.done |-> card'.disk[driver'.call.at + i - 1]]
    BY <1>3, <1>12, <2>4
  <2>6. card'.disk = before'
    BY <1>3, <1>4, <1>8, <1>13
  <2> QED
    BY <1>12, <2>5, <2>6 DEF Reading, Idle
<1>14. Writing'
  BY <1>2, <1>12 DEF Writing
<1>15. GoesOn
  <2>1. "CMD17" \in ReadPlaces /\ driver.done + 1 <= driver.call.count
    BY <1>2 DEF ReadPlaces
  <2> QED
    BY <1>2, <1>11, <1>12, <2>1 DEF GoesOn
<1> HIDE DEF Reading, Writing
<1> QED
  BY <1>1, <1>3, <1>8, <1>13, <1>14, <1>15, TransferStep

\* What is stored is a matter of the call.
LEMMA StoredOf ==
  ASSUME driver'.call = driver.call, UNCHANGED before
  PROVE  /\ \A n : Stored(n)' = Stored(n)
         /\ Stored(driver.call.count)' = Stored(driver.call.count)
         /\ \A n : driver'.done = n => /\ Stored(driver.done)' = Stored(n)
                                     /\ Stored(driver.done + 1)' = Stored(n + 1)
BY DEF Stored

\* WriteCommand preserves SdInv: the card expects the sector that comes next.
LEMMA WriteCommandStep ==
  ASSUME SdInv, WriteCommand
  PROVE  SdInv'
<1>1. driver.pc = "CMD24" /\ driver.pc \in WritePlaces /\ driver.pc \in ReadPlaces \cup WritePlaces
  BY DEF WriteCommand, WritePlaces
<1>2. /\ driver \in DriverStates /\ card \in CardStates /\ Settled(card)
      /\ driver.call.op = "write" /\ driver.call.at \in Blocks /\ driver.call.count \in Nat
      /\ driver.done \in Nat /\ driver.done <= driver.call.count
  BY <1>1, CallServed
<1>3. card.missed \in Nat /\ driver.sdhc \in BOOLEAN
  BY <1>2 DEF CardStates, DriverStates
<1>4. "up" \notin ReadPlaces \cup WritePlaces
  BY DEF ReadPlaces, WritePlaces
<1>5. ASSUME card.missed <= RETRIES
      PROVE  AddressesRight /\ card.disk = Stored(driver.done)
  <2>1. AddressesRight /\ Writing
    BY <1>1, <1>5 DEF SdInv
  <2> QED
    BY <1>1, <1>2, <2>1 DEF Writing
<1>6. CASE driver.done = driver.call.count
  <2>1. driver' = Returns(driver, TRUE)
    BY <1>6 DEF WriteCommand
  <2>2. UNCHANGED <<card, before>>
    BY <1>6 DEF WriteCommand
  <2>3. TRUE \in BOOLEAN
    OBVIOUS
  <2>4. /\ driver' \in DriverStates /\ driver'.pc = "up" /\ driver'.call = driver.call
        /\ driver'.sdhc = driver.sdhc
    BY <1>2, <2>1, <2>3, ReturnsIs
  <2>5. Stored(driver.call.count)' = Stored(driver.call.count)
    BY <2>2, <2>4, StoredOf
  <2>6. ASSUME card.missed <= RETRIES PROVE Writing'
    <3>1. card'.disk = Stored(driver.call.count)'
      BY <1>5, <1>6, <2>2, <2>5, <2>6
    <3>2. \E k \in 0 .. driver'.call.count : card'.disk = Stored(k)'
      <4>1. \A k : Stored(k)' = Stored(k)
        BY <2>2, <2>4, StoredOf
      <4>2. driver.call.count \in 0 .. driver'.call.count
        BY <1>2, <2>4
      <4>3. card'.disk = Stored(driver.call.count)
        BY <2>5, <3>1
      <4> QED
        BY <4>1, <4>2, <4>3
    <3> HIDE DEF Stored
    <3> QED
      BY <1>4, <2>4, <3>1, <3>2 DEF Writing
  <2>7. Reading'
    BY <1>2, <2>4 DEF Reading
  <2>8. GoesOn /\ StaysIn
    BY <1>2, <2>2, <2>4 DEF GoesOn, StaysIn
  <2> HIDE DEF Reading, Writing
  <2> QED
    BY <1>1, <2>2, <2>6, <2>7, <2>8, TransferStep
<1>7. CASE driver.done # driver.call.count
  <2>1. PICK o \in SendCommand(driver, card, "CMD24", Sector(driver)) :
            /\ card' = o.card
            /\ driver' = IF o.response = "00" THEN At(driver, "data") ELSE Returns(driver, FALSE)
            /\ UNCHANGED before
    BY <1>7 DEF WriteCommand, Command
  <2>2. Sector(driver) \in Nat /\ Sector(driver) \in Int
    BY <1>2, SdAssumption DEF Sector, Blocks
  <2>3. /\ Outlasts(card, driver, "CMD24", o)
        /\ o.response = "00" =>
              /\ o.card.out = <<>>
              /\ o.card.target \in {-1, BlockAt(card, Argument(driver, "CMD24", Sector(driver)))}
    BY <1>2, <1>3, <2>2, OutcomeCMD24
  <2>4. StaysIn /\ card'.disk = card.disk
    BY <2>1, <2>3 DEF Outlasts, StaysIn
  <2>5. CASE o.response = "00"
    <3>1. "data" \in Places /\ "data" \in WritePlaces /\ driver' = At(driver, "data")
      BY <2>1, <2>5 DEF Places, WritePlaces
    <3>2. /\ driver' \in DriverStates /\ driver'.pc = "data" /\ driver'.call = driver.call
          /\ driver'.sdhc = driver.sdhc /\ driver'.done = driver.done
      BY <1>2, <3>1, AtIs
    <3>3. driver'.done < driver.call.count
      BY <1>2, <1>7, <3>2
    <3>4. Sector(driver)' = Sector(driver)
      BY <3>2 DEF Sector
    <3>5. Stored(driver.done)' = Stored(driver.done)
      BY <2>1, <3>2, StoredOf
    <3>6. ASSUME card.missed <= RETRIES PROVE Writing'
      <4>1. BlockAt(card, Argument(driver, "CMD24", Sector(driver))) = Sector(driver)
        <5>1. driver.sdhc <=> card.kind = "hc"
          BY <1>5, <3>6 DEF AddressesRight
        <5> QED
          BY <2>2, <5>1, SectorFound
      <4>2. card'.out = <<>> /\ card'.target \in {-1, Sector(driver)'}
        BY <2>1, <2>3, <2>5, <3>4, <4>1
      <4>3. card'.disk = Stored(driver.done)'
        BY <1>5, <2>4, <3>5, <3>6
      <4> HIDE DEF Stored
      <4> QED
        BY <3>2, <4>2, <4>3 DEF Writing, Idle
    <3>7. Reading'
      BY <1>2, <3>2 DEF Reading
    <3>8. GoesOn
      BY <1>2, <3>1, <3>2, <3>3 DEF GoesOn
    <3> HIDE DEF Reading, Writing
    <3> QED
      BY <1>1, <2>1, <2>4, <3>6, <3>7, <3>8, TransferStep
  <2>6. CASE o.response # "00"
    <3>1. card.missed <= RETRIES => \E k \in 0 .. driver.call.count : card.disk = Stored(k)
      BY <1>2, <1>5
    <3>2. /\ card' \in CardStates /\ Settled(card') /\ card'.kind = card.kind
          /\ card'.missed \in {card.missed, card.missed + 1}
      BY <2>4 DEF StaysIn
    <3> QED
      BY <1>1, <2>1, <2>4, <2>6, <3>1, <3>2, FailureStep
  <2> QED
    BY <2>5, <2>6
<1> QED
  BY <1>6, <1>7

\* A card that takes a block answers that it did, and one that does not keeps its disk.
LEMMA BlockTaken ==
  ASSUME NEW c \in CardStates, Settled(c), NEW v \in Value, NEW x \in CardsAfterBlock(c, v)
  PROVE  /\ After(x, 1) \in CardStates /\ Settled(After(x, 1))
         /\ After(x, 1).kind = c.kind /\ After(x, 1).missed = c.missed
         /\ Received(x, 0) # "accepted" => After(x, 1).disk = c.disk
         /\ Received(x, 0) = "accepted" /\ c.out = <<>> =>
               c.target # -1 /\ After(x, 1).disk = [c.disk EXCEPT ![c.target] = v]
<1>1. /\ 0 \in Nat /\ 1 \in Nat /\ 3 \in Nat /\ 0 + 1 = 1 /\ Len(<<>>) = 0
  BY EmptySeq
<1>2. CASE c.target = -1
  <2>1. x = After(c, 3)
    BY <1>2 DEF CardsAfterBlock
  <2>2. x \in CardStates /\ Same(c, x) /\ Settled(x) /\ (c.out = <<>> => x.out = <<>>)
    BY <1>1, <2>1, AfterKeeps
  <2>3. After(x, 1) \in CardStates /\ Same(x, After(x, 1)) /\ Settled(After(x, 1))
    BY <1>1, <2>2, AfterKeeps
  <2>4. c.out = <<>> => Received(x, 0) # "accepted"
    <3>1. Received(x, 0) = IF 0 < Len(x.out) THEN x.out[1]
                           ELSE IF x.busy > 0 - Len(x.out) THEN "00" ELSE "ff"
      BY <1>1, <2>2, ByteAfter
    <3> QED
      BY <1>1, <2>2, <3>1
  <2> QED
    BY <2>2, <2>3, <2>4 DEF Same
<1>3. CASE c.target # -1
  <2>1. c.kind # "none" /\ c.busy = 0 /\ c.busy \in Nat
    <3>1. c.busy \in Nat
      BY DEF CardStates
    <3> QED
      BY <1>3, <3>1 DEF Settled
  <2> DEFINE disk == [c.disk EXCEPT ![c.target] = v]
  <2>2. disk \in [Blocks -> Value] /\ c.disk \in [Blocks -> Value]
    BY DEF CardStates
  <2>3. \/ \E k \in BusyTimes : x = [c EXCEPT !.disk = disk, !.target = -1, !.out = <<"accepted">>, !.busy = k]
        \/ x = [c EXCEPT !.target = -1, !.out = <<"rejected">>]
    BY <1>3 DEF CardsAfterBlock, CardStates
  <2> HIDE DEF disk
  <2>4. /\ <<"accepted">> \in Seq(Sent) /\ <<"rejected">> \in Seq(Sent) /\ -1 \in Int
        /\ Len(<<"accepted">>) = 1 /\ Len(<<"rejected">>) = 1
        /\ <<"accepted">>[1] = "accepted" /\ <<"rejected">>[1] = "rejected"
    BY Bytes
  <2>5. /\ x \in CardStates /\ x.kind = c.kind /\ x.missed = c.missed /\ x.target = -1
        /\ \/ x.disk = disk /\ x.out = <<"accepted">>
           \/ x.disk = c.disk /\ x.out = <<"rejected">>
    <3>1. CASE \E k \in BusyTimes : x = [c EXCEPT !.disk = disk, !.target = -1, !.out = <<"accepted">>, !.busy = k]
      <4>1. PICK k \in BusyTimes : x = [c EXCEPT !.disk = disk, !.target = -1, !.out = <<"accepted">>, !.busy = k]
        BY <3>1
      <4>2. PICK a \in Seq(Sent) : a = <<"accepted">>
        BY <2>4
      <4>3. k \in Nat /\ x = [c EXCEPT !.disk = disk, !.target = -1, !.out = a, !.busy = k]
        BY <4>1, <4>2, SdAssumption
      <4>4. x \in CardStates
        BY <2>2, <2>4, <4>3 DEF CardStates
      <4>5. x.kind = c.kind /\ x.missed = c.missed /\ x.target = -1 /\ x.disk = disk /\ x.out = a
        BY <4>3 DEF CardStates
      <4> QED
        BY <4>2, <4>4, <4>5
    <3>2. CASE x = [c EXCEPT !.target = -1, !.out = <<"rejected">>]
      <4>1. PICK a \in Seq(Sent) : a = <<"rejected">>
        BY <2>4
      <4>2. x = [c EXCEPT !.target = -1, !.out = a]
        BY <3>2, <4>1
      <4>3. x \in CardStates
        BY <2>4, <4>2 DEF CardStates
      <4>4. x.kind = c.kind /\ x.missed = c.missed /\ x.target = -1 /\ x.disk = c.disk /\ x.out = a
        BY <4>2 DEF CardStates
      <4> QED
        BY <4>1, <4>3, <4>4
    <3> QED
      BY <2>3, <3>1, <3>2
  <2>6. Received(x, 0) = x.out[1]
    <3>1. Len(x.out) = 1
      BY <2>4, <2>5
    <3> QED
      BY <1>1, <2>5, <3>1, ByteAfter
  <2>7. /\ After(x, 1) \in CardStates /\ Same(x, After(x, 1)) /\ After(x, 1).out = <<>>
    <3>1. Len(x.out) = 1 /\ 1 >= 1
      BY <2>4, <2>5
    <3> QED
      BY <1>1, <2>5, <3>1, AfterBytes
  <2>8. Settled(After(x, 1))
    BY <2>1, <2>5, <2>7 DEF Settled, Same
  <2>9. /\ Received(x, 0) # "accepted" => x.disk = c.disk
        /\ Received(x, 0) = "accepted" => x.disk = disk
    BY <2>4, <2>5, <2>6
  <2> QED
    BY <1>3, <2>5, <2>7, <2>8, <2>9 DEF Same, disk
<1> QED
  BY <1>2, <1>3

\* One block more is stored.
LEMMA OneMore ==
  ASSUME NEW n \in Nat, driver.call.at \in Blocks, driver.call.at + n \in Blocks
  PROVE  [Stored(n) EXCEPT ![driver.call.at + n] = driver.call.data[n + 1]] = Stored(n + 1)
<1>1. driver.call.at \in Nat /\ BLOCKS \in Nat
  BY SdAssumption DEF Blocks
<1> DEFINE f == [Stored(n) EXCEPT ![driver.call.at + n] = driver.call.data[n + 1]]
<1>2. f = [b \in Blocks |-> IF b = driver.call.at + n THEN driver.call.data[n + 1] ELSE Stored(n)[b]]
  BY DEF Stored
<1>3. ASSUME NEW b \in Blocks
      PROVE  (IF b = driver.call.at + n THEN driver.call.data[n + 1] ELSE Stored(n)[b]) = Stored(n + 1)[b]
  <2>1. b \in Int
    BY <1>1 DEF Blocks
  <2>2. Stored(n)[b] = IF b \in driver.call.at .. driver.call.at + n - 1
                       THEN driver.call.data[b - driver.call.at + 1] ELSE before[b]
    BY DEF Stored
  <2>3. Stored(n + 1)[b] = IF b \in driver.call.at .. driver.call.at + (n + 1) - 1
                           THEN driver.call.data[b - driver.call.at + 1] ELSE before[b]
    BY DEF Stored
  <2>4. CASE b = driver.call.at + n
    <3>1. b \in driver.call.at .. driver.call.at + (n + 1) - 1 /\ b - driver.call.at + 1 = n + 1
      BY <1>1, <2>4
    <3> QED
      BY <2>3, <2>4, <3>1
  <2>5. CASE b # driver.call.at + n
    <3>1. b \in driver.call.at .. driver.call.at + n - 1
            <=> b \in driver.call.at .. driver.call.at + (n + 1) - 1
      BY <1>1, <2>1, <2>5
    <3> QED
      BY <2>2, <2>3, <2>5, <3>1
  <2> QED
    BY <2>4, <2>5
<1>4. Stored(n + 1) = [b \in Blocks |-> Stored(n + 1)[b]]
  BY DEF Stored
<1> HIDE DEF f
<1> QED
  BY <1>2, <1>3, <1>4 DEF f

\* WriteBlock preserves SdInv: one sector more is stored, or none.
LEMMA WriteBlockStep ==
  ASSUME SdInv, WriteBlock
  PROVE  SdInv'
<1>1. driver.pc = "data" /\ driver.pc \in WritePlaces /\ driver.pc \in ReadPlaces \cup WritePlaces
  BY DEF WriteBlock, WritePlaces
<1>2. /\ driver \in DriverStates /\ card \in CardStates /\ Settled(card)
      /\ driver.call.op = "write" /\ driver.call.at \in Blocks /\ driver.call.count \in Nat
      /\ driver.call.at + driver.call.count <= BLOCKS
      /\ driver.call.data \in Seq(Value) /\ Len(driver.call.data) = driver.call.count
      /\ driver.done \in Nat /\ driver.done < driver.call.count
  <2>1. driver.done < driver.call.count
    BY <1>1 DEF SdInv, CallFits
  <2> QED
    BY <1>1, <2>1, CallServed
<1>3. PICK v \in Value : v = driver.call.data[driver.done + 1]
  <2>1. driver.done + 1 \in 1 .. Len(driver.call.data)
    BY <1>2
  <2> QED
    BY <1>2, <2>1, ElementOfSeq
<1>4. PICK x \in CardsAfterBlock(card, v) :
        /\ card' = After(x, 1)
        /\ driver' = IF Received(x, 0) = "accepted" THEN At(driver, "busy") ELSE Returns(driver, FALSE)
        /\ UNCHANGED before
  BY <1>3 DEF WriteBlock
<1>5. /\ card' \in CardStates /\ Settled(card')
      /\ card'.kind = card.kind /\ card'.missed = card.missed
      /\ Received(x, 0) # "accepted" => card'.disk = card.disk
      /\ Received(x, 0) = "accepted" /\ card.out = <<>> =>
            card.target # -1 /\ card'.disk = [card.disk EXCEPT ![card.target] = v]
  BY <1>2, <1>4, BlockTaken
<1>6. StaysIn
  BY <1>5 DEF StaysIn
<1>7. ASSUME card.missed <= RETRIES
      PROVE  /\ card.disk = Stored(driver.done)
             /\ card.out = <<>> /\ card.target \in {-1, Sector(driver)}
  <2>1. Writing
    BY <1>7 DEF SdInv
  <2> HIDE DEF Stored, Sector
  <2> QED
    BY <1>1, <1>2, <2>1 DEF Writing
<1>8. CASE Received(x, 0) = "accepted"
  <2>1. "busy" \in Places /\ "busy" \in WritePlaces /\ driver' = At(driver, "busy")
    BY <1>4, <1>8 DEF Places, WritePlaces
  <2>2. /\ driver' \in DriverStates /\ driver'.pc = "busy" /\ driver'.call = driver.call
        /\ driver'.sdhc = driver.sdhc /\ driver'.done = driver.done
    BY <1>2, <2>1, AtIs
  <2>3. ASSUME card.missed <= RETRIES PROVE Writing'
    <3>1. card'.disk = [card.disk EXCEPT ![Sector(driver)] = v] /\ card.disk = Stored(driver.done)
      BY <1>5, <1>7, <1>8, <2>3
    <3>2. driver.call.at + driver.done \in Blocks
      <4>1. BLOCKS \in Nat /\ driver.call.at \in Nat
        BY <1>2, SdAssumption DEF Blocks
      <4>2. driver.call.at + driver.done \in 0 .. BLOCKS - 1
        BY <1>2, <4>1
      <4> QED
        BY <4>2 DEF Blocks
    <3>3. [Stored(driver.done) EXCEPT ![driver.call.at + driver.done] = driver.call.data[driver.done + 1]]
             = Stored(driver.done + 1)
      BY <1>2, <3>2, OneMore
    <3>4. card'.disk = Stored(driver.done + 1)
      BY <1>3, <3>1, <3>3 DEF Sector
    <3>5. Stored(driver.done + 1)' = Stored(driver.done + 1)
      BY <1>4, <2>2, StoredOf
    <3> HIDE DEF Stored
    <3> QED
      BY <2>2, <3>4, <3>5 DEF Writing, Idle
  <2>4. Reading'
    BY <1>2, <2>2 DEF Reading
  <2>5. GoesOn
    BY <1>2, <2>1, <2>2 DEF GoesOn
  <2> HIDE DEF Reading, Writing
  <2> QED
    BY <1>1, <1>4, <1>6, <2>3, <2>4, <2>5, TransferStep
<1>9. CASE Received(x, 0) # "accepted"
  <2>1. driver' = Returns(driver, FALSE) /\ card'.disk = card.disk
        /\ card'.missed \in {card.missed, card.missed + 1}
    BY <1>4, <1>5, <1>9
  <2>2. card.missed <= RETRIES => \E k \in 0 .. driver.call.count : card.disk = Stored(k)
    <3>1. driver.done \in 0 .. driver.call.count
      BY <1>2
    <3> QED
      BY <1>7, <3>1
  <2> QED
    BY <1>1, <1>4, <1>5, <2>1, <2>2, FailureStep
<1> QED
  BY <1>8, <1>9

\* AwaitWritten preserves SdInv: the disk stays as it is.
LEMMA AwaitWrittenStep ==
  ASSUME SdInv, AwaitWritten
  PROVE  SdInv'
<1>1. /\ driver.pc \in {"busy", "settled"} /\ driver.pc \in WritePlaces
      /\ driver.pc \in ReadPlaces \cup WritePlaces
  BY DEF AwaitWritten, WritePlaces
<1>2. /\ driver \in DriverStates /\ driver.call.op = "write" /\ driver.call.count \in Nat
      /\ driver.done \in Nat /\ driver.done < driver.call.count
  <2>1. driver.done < driver.call.count
    BY <1>1 DEF SdInv, CallFits
  <2> QED
    BY <1>1, <2>1, CallServed
<1>3. StaysIn /\ card'.disk = card.disk
  <2>1. PICK n \in {2, 3} : card' = After(card, n)
    BY DEF AwaitWritten
  <2>2. n \in Nat
    OBVIOUS
  <2> QED
    BY <2>1, <2>2, AfterIs
<1>4. UNCHANGED before
  BY DEF AwaitWritten
<1>5. ASSUME card.missed <= RETRIES PROVE card.disk = Stored(driver.done + 1)
  <2>1. Writing
    BY <1>5 DEF SdInv
  <2> HIDE DEF Stored
  <2> QED
    BY <1>1, <1>2, <2>1 DEF Writing
<1>6. \/ driver' = Returns(driver, FALSE)
      \/ driver' = [[driver EXCEPT !.pc = "settled"] EXCEPT !.retries = 0]
      \/ driver' = [driver EXCEPT !.retries = driver.retries + 1]
      \/ driver' = [[driver EXCEPT !.pc = "CMD24"] EXCEPT !.done = driver.done + 1]
  BY <1>2 DEF AwaitWritten, At, DriverStates
<1>7. /\ driver.retries + 1 \in Nat /\ driver.done + 1 \in Nat /\ 0 \in Nat
      /\ {"settled", "CMD24"} \subseteq Places /\ {"settled", "CMD24"} \subseteq WritePlaces
  BY <1>2 DEF DriverStates, Places, WritePlaces
<1>8. CASE driver' = Returns(driver, FALSE)
  <2>1. card.missed <= RETRIES => \E k \in 0 .. driver.call.count : card.disk = Stored(k)
    <3>1. driver.done + 1 \in 0 .. driver.call.count
      BY <1>2
    <3> QED
      BY <1>5, <3>1
  <2>2. /\ card' \in CardStates /\ Settled(card') /\ card'.kind = card.kind
        /\ card'.missed \in {card.missed, card.missed + 1}
    BY <1>3 DEF StaysIn
  <2> QED
    BY <1>1, <1>3, <1>4, <1>8, <2>1, <2>2, FailureStep
<1>9. CASE \/ driver' = [[driver EXCEPT !.pc = "settled"] EXCEPT !.retries = 0]
           \/ driver' = [driver EXCEPT !.retries = driver.retries + 1]
  <2>1. driver' \in DriverStates
    <3>1. [driver EXCEPT !.pc = "settled"] \in DriverStates
      BY <1>2, <1>7, DriverWith
    <3>2. [[driver EXCEPT !.pc = "settled"] EXCEPT !.retries = 0] \in DriverStates
      BY <1>7, <3>1, DriverWith
    <3>3. [driver EXCEPT !.retries = driver.retries + 1] \in DriverStates
      BY <1>2, <1>7, DriverWith
    <3> QED
      BY <1>9, <3>2, <3>3
  <2>2. /\ driver'.pc \in {"busy", "settled"} /\ driver'.call = driver.call
        /\ driver'.sdhc = driver.sdhc /\ driver'.done = driver.done
    BY <1>1, <1>2, <1>9 DEF DriverStates
  <2>3. ASSUME card.missed <= RETRIES PROVE Writing'
    <3>1. Stored(driver.done + 1)' = Stored(driver.done + 1)
      BY <1>4, <2>2, StoredOf
    <3>2. card'.disk = Stored(driver.done + 1)'
      BY <1>3, <1>5, <2>3, <3>1
    <3> HIDE DEF Stored
    <3> QED
      BY <2>2, <3>2 DEF Writing, Idle
  <2>4. Reading'
    BY <1>2, <2>2 DEF Reading
  <2>5. GoesOn
    BY <1>2, <2>1, <2>2 DEF GoesOn, WritePlaces
  <2> HIDE DEF Reading, Writing
  <2> QED
    BY <1>1, <1>3, <1>4, <2>3, <2>4, <2>5, TransferStep
<1>10. CASE driver' = [[driver EXCEPT !.pc = "CMD24"] EXCEPT !.done = driver.done + 1]
  <2>1. driver' \in DriverStates
    <3>1. [driver EXCEPT !.pc = "CMD24"] \in DriverStates
      BY <1>2, <1>7, DriverWith
    <3> QED
      BY <1>7, <1>10, <3>1, DriverWith
  <2>2. /\ driver'.pc = "CMD24" /\ driver'.call = driver.call
        /\ driver'.sdhc = driver.sdhc /\ driver'.done = driver.done + 1
    BY <1>2, <1>10 DEF DriverStates
  <2>3. ASSUME card.missed <= RETRIES PROVE Writing'
    <3>1. Stored(driver.done)' = Stored(driver.done + 1)
      BY <1>4, <2>2, StoredOf
    <3>2. card'.disk = Stored(driver.done)'
      BY <1>3, <1>5, <2>3, <3>1
    <3> HIDE DEF Stored
    <3> QED
      BY <2>2, <3>2 DEF Writing, Idle
  <2>4. Reading'
    BY <1>2, <2>2 DEF Reading
  <2>5. GoesOn
    <3>1. driver.done + 1 <= driver.call.count
      BY <1>2
    <3> QED
      BY <1>2, <1>7, <2>1, <2>2, <3>1 DEF GoesOn
  <2> HIDE DEF Reading, Writing
  <2> QED
    BY <1>1, <1>3, <1>4, <2>3, <2>4, <2>5, TransferStep
<1> QED
  BY <1>6, <1>8, <1>9, <1>10
-------------------------------------------------------------------------------
(* Calls. *)

\* A call that is made.
LEMMA CalledStep ==
  ASSUME SdInv, NEW call \in Calls, call # None, Called(call),
         call.at + call.count <= BLOCKS,
         call.op = "write" => Len(call.data) = call.count
  PROVE  SdInv'
<1>1. /\ driver \in DriverStates /\ card \in CardStates /\ Settled(card)
      /\ driver.pc = "up" /\ driver.call \in Calls
  BY DEF SdInv, Called, DriverStates
<1>2. /\ call.op \in {"read", "write"} /\ call.at \in Blocks /\ call.count \in Nat
      /\ card.disk \in [Blocks -> Value] /\ card.missed \in Nat /\ RETRIES \in Nat
  <2>1. call.op \in {"read", "write"}
    BY DEF Calls, None
  <2>2. call.at \in Blocks /\ call.count \in Nat
    BY DEF Calls
  <2>3. card.disk \in [Blocks -> Value] /\ card.missed \in Nat
    BY <1>1 DEF CardStates
  <2> QED
    BY <2>1, <2>2, <2>3, SdAssumption
<1>3. card' = card /\ before' = card.disk
  BY DEF Called
<1>4. PICK p \in {"CMD17", "CMD24"} :
        /\ p = IF call.op = "read" THEN "CMD17" ELSE "CMD24"
        /\ driver' = [[[[[[driver EXCEPT !.pc = p] EXCEPT !.retries = 0] EXCEPT !.call = call]
                         EXCEPT !.done = 0] EXCEPT !.buffer = <<>>] EXCEPT !.ok = FALSE]
  BY <1>1 DEF Called, DriverStates
<1>5. driver' \in DriverStates
  <2> DEFINE d1 == [driver EXCEPT !.pc = p]
             d2 == [d1 EXCEPT !.retries = 0]
             d3 == [d2 EXCEPT !.call = call]
             d4 == [d3 EXCEPT !.done = 0]
             d5 == [d4 EXCEPT !.buffer = <<>>]
  <2>1. p \in Places /\ 0 \in Nat /\ <<>> \in Seq(Sent) /\ FALSE \in BOOLEAN
    BY DEF Places, ReadPlaces, WritePlaces
  <2>2. d1 \in DriverStates
    BY <1>1, <2>1, DriverWith
  <2>3. d2 \in DriverStates
    BY <2>1, <2>2, DriverWith
  <2>4. d3 \in DriverStates
    BY <2>3, DriverWith
  <2>5. d4 \in DriverStates
    BY <2>1, <2>4, DriverWith
  <2>6. d5 \in DriverStates
    BY <2>1, <2>5, DriverWith
  <2>7. [d5 EXCEPT !.ok = FALSE] \in DriverStates
    BY <2>1, <2>6, DriverWith
  <2> QED
    BY <1>4, <2>7
<1>6. /\ driver'.pc = p /\ driver'.call = call /\ driver'.done = 0 /\ driver'.buffer = <<>>
      /\ driver'.sdhc = driver.sdhc
  BY <1>1, <1>4 DEF DriverStates
<1>7. Learnt'
  BY <1>4, <1>6 DEF Learnt
<1>8. CallFits'
  BY <1>2, <1>4, <1>6 DEF CallFits, ReadPlaces, WritePlaces
<1>9. card'.missed <= RETRIES => AddressesRight'
  <2>1. card.missed <= RETRIES => AddressesRight
    BY <1>1 DEF SdInv
  <2> QED
    BY <1>3, <1>6, <2>1 DEF AddressesRight
<1>10. Reading'
  <2>1. driver'.buffer = [i \in 1 .. driver'.done |-> card'.disk[driver'.call.at + i - 1]]
    <3>1. 1 .. 0 = {}
      OBVIOUS
    <3>2. <<>> = [i \in 1 .. 0 |-> card'.disk[driver'.call.at + i - 1]]
      BY <3>1
    <3> QED
      BY <1>6, <3>2
  <2>2. driver'.pc \notin {"token", "block", "up"}
    BY <1>4, <1>6
  <2>3. card'.disk = before'
    BY <1>3
  <2> QED
    BY <2>1, <2>2, <2>3 DEF Reading, Idle
<1>11. Writing'
  <2>1. Stored(driver.done)' = card'.disk
    <3>1. Stored(driver.done)' =
            [b \in Blocks |-> IF b \in call.at .. call.at + 0 - 1 THEN call.data[b - call.at + 1]
                              ELSE card.disk[b]]
      BY <1>3, <1>6 DEF Stored
    <3>2. call.at .. call.at + 0 - 1 = {}
      BY <1>2, SdAssumption DEF Blocks
    <3>3. card.disk = [b \in Blocks |-> card.disk[b]]
      BY <1>2
    <3> QED
      BY <1>3, <3>1, <3>2, <3>3
  <2>2. driver'.pc \notin {"data", "busy", "settled", "up"}
    BY <1>4, <1>6
  <2> HIDE DEF Stored
  <2> QED
    BY <2>1, <2>2 DEF Writing, Idle
<1> HIDE DEF Reading, Writing, Learnt, CallFits
<1> QED
  BY <1>1, <1>2, <1>3, <1>5, <1>7, <1>8, <1>9, <1>10, <1>11 DEF SdInv

\* A call of sd_readsector or sd_writesector preserves SdInv.
LEMMA CallSteps ==
  ASSUME SdInv
  PROVE  /\ \A a \in Blocks, n \in 0 .. MAX_SECTORS :
               a + n <= BLOCKS /\ sd_readsector(a, n) => SdInv'
         /\ \A a \in Blocks, values \in SeqOf(Value, MAX_SECTORS) :
               a + Len(values) <= BLOCKS /\ sd_writesector(a, values) => SdInv'
<1>0. None.op = "none"
  BY DEF None
<1>1. ASSUME NEW a \in Blocks, NEW n \in 0 .. MAX_SECTORS, a + n <= BLOCKS, sd_readsector(a, n)
      PROVE  SdInv'
  <2>1. PICK call : call = [op |-> "read", at |-> a, count |-> n]
    OBVIOUS
  <2>2. call \in Calls
    BY <2>1, SdAssumption DEF Calls
  <2>3. call # None /\ call.at + call.count <= BLOCKS /\ call.op # "write"
    BY <1>0, <1>1, <2>1
  <2>4. Called(call)
    BY <1>1, <2>1 DEF sd_readsector
  <2> QED
    BY <2>2, <2>3, <2>4, CalledStep
<1>2. ASSUME NEW a \in Blocks, NEW values \in SeqOf(Value, MAX_SECTORS),
             a + Len(values) <= BLOCKS, sd_writesector(a, values)
      PROVE  SdInv'
  <2>1. PICK call : call = [op |-> "write", at |-> a, count |-> Len(values), data |-> values]
    OBVIOUS
  <2>2. values \in Seq(Value) /\ Len(values) \in Nat
    <3>1. PICK m \in 0 .. MAX_SECTORS : values \in [1 .. m -> Value]
      BY DEF SeqOf
    <3>2. m \in Nat
      BY <3>1, SdAssumption
    <3>3. values \in Seq(Value)
      BY <3>1, <3>2, SeqDef
    <3> QED
      BY <3>3, LenProperties
  <2>3. call \in Calls
    BY <2>1, <2>2 DEF Calls
  <2>4. call # None /\ call.at + call.count <= BLOCKS /\ Len(call.data) = call.count
    BY <1>0, <1>2, <2>1
  <2>5. Called(call)
    BY <1>2, <2>1 DEF sd_writesector
  <2> QED
    BY <2>3, <2>4, <2>5, CalledStep
<1> QED
  BY <1>1, <1>2

-------------------------------------------------------------------------------
(* Resets, and the theorems. *)

\* A card that is put in has not been sent anything.
LEMMA NewCard ==
  ASSUME NEW c \in NewCards
  PROVE  c \in CardStates /\ Settled(c)
<1>1. PICK kind \in Kinds, v \in Value \X Value :
        c = [kind |-> kind, ready |-> FALSE, app |-> FALSE, rounds |-> 0, out |-> <<>>, busy |-> 0,
             target |-> -1, missed |-> 0, disk |-> [b \in Blocks |-> IF b = 0 THEN v[1] ELSE v[2]]]
  BY DEF NewCards
<1>2. [b \in Blocks |-> IF b = 0 THEN v[1] ELSE v[2]] \in [Blocks -> Value]
  <2>1. v[1] \in Value /\ v[2] \in Value
    OBVIOUS
  <2> QED
    BY <2>1
<1>3. <<>> \in Seq(Sent) /\ -1 \in Int /\ 0 \in Nat
  OBVIOUS
<1>4. PICK disk \in [Blocks -> Value] : disk = [b \in Blocks |-> IF b = 0 THEN v[1] ELSE v[2]]
  BY <1>2
<1>5. PICK o \in Seq(Sent) : o = <<>>
  BY <1>3
<1>6. c = [kind |-> kind, ready |-> FALSE, app |-> FALSE, rounds |-> 0, out |-> o, busy |-> 0,
           target |-> -1, missed |-> 0, disk |-> disk]
  BY <1>1, <1>4, <1>5
<1>7. c \in CardStates
  BY <1>3, <1>6 DEF CardStates
<1>8. Settled(c)
  BY <1>5, <1>6 DEF Settled
<1> QED
  BY <1>7, <1>8

\* Before the initialisation no call is made, and nothing is learnt.
LEMMA Afresh ==
  ASSUME driver \in DriverStates, card \in CardStates, before \in [Blocks -> Value], Settled(card),
         driver.pc = "again", driver.call = None
  PROVE  SdInv
<1>1. driver.call.op = "none"
  BY DEF None
<1>2. Learnt
  BY DEF Learnt
<1>3. CallFits
  BY <1>1 DEF CallFits, ReadPlaces, WritePlaces
<1>4. Reading /\ Writing
  BY <1>1 DEF Reading, Writing
<1>5. driver.pc \notin {"up"} \cup ReadPlaces \cup WritePlaces
  BY DEF ReadPlaces, WritePlaces
<1> HIDE DEF Reading, Writing, Learnt, CallFits
<1> QED
  BY <1>2, <1>3, <1>4, <1>5 DEF SdInv

\* SdInv holds at power-up.
LEMMA InitHolds == Init => SdInv
<1> SUFFICES ASSUME Init PROVE SdInv
  OBVIOUS
<1>1. card \in CardStates /\ Settled(card)
  BY NewCard DEF Init
<1>2. before \in [Blocks -> Value]
  BY <1>1 DEF Init, CardStates
<1>3. <<>> \in Seq(Sent) /\ None \in Calls /\ "again" \in Places
  BY DEF Calls, Places
<1>4. PICK o \in Seq(Sent) : o = <<>>
  BY <1>3
<1>5. driver = [pc |-> "again", try |-> 0, retries |-> 0, version |-> 2, sdhc |-> FALSE,
                call |-> None, done |-> 0, buffer |-> o, ok |-> FALSE]
  BY <1>4 DEF Init
<1>6. driver \in DriverStates
  BY <1>3, <1>5 DEF DriverStates
<1>7. driver.pc = "again" /\ driver.call = None
  BY <1>5
<1> QED
  BY <1>1, <1>2, <1>6, <1>7, Afresh

\* Reset preserves SdInv: no call survives it.
LEMMA ResetStep ==
  ASSUME SdInv, Reset
  PROVE  SdInv'
<1>1. /\ driver \in DriverStates /\ card \in CardStates /\ Settled(card)
      /\ before \in [Blocks -> Value]
  BY DEF SdInv
<1>2. driver' \in DriverStates
  <2> DEFINE d1 == [driver EXCEPT !.pc = "again"]
             d2 == [d1 EXCEPT !.try = 0]
  <2>1. "again" \in Places /\ 0 \in Int /\ None \in Calls
    BY DEF Places, Calls
  <2>2. d1 \in DriverStates
    BY <1>1, <2>1, DriverWith
  <2>3. d2 \in DriverStates
    BY <2>1, <2>2, DriverWith
  <2>4. [d2 EXCEPT !.call = None] \in DriverStates
    BY <2>1, <2>3, DriverWith
  <2>5. driver' = [d2 EXCEPT !.call = None]
    BY <1>1 DEF Reset, DriverStates
  <2> QED
    BY <2>4, <2>5
<1>3. driver'.pc = "again" /\ driver'.call = None
  BY <1>1 DEF Reset, DriverStates
<1>4. card' \in CardStates /\ Settled(card') /\ before' \in [Blocks -> Value]
  <2>1. CASE UNCHANGED <<card, before>>
    BY <1>1, <2>1
  <2>2. CASE card' \in NewCards /\ before' = card'.disk
    <3>1. card' \in CardStates /\ Settled(card')
      BY <2>2, NewCard
    <3> QED
      BY <2>2, <3>1 DEF CardStates
  <2> QED
    BY <2>1, <2>2 DEF Reset
<1>5. SdInv'
  <2>1. driver'.call.op = "none"
    BY <1>3 DEF None
  <2>2. Learnt'
    BY <1>3 DEF Learnt
  <2>3. CallFits'
    BY <1>3, <2>1 DEF CallFits, ReadPlaces, WritePlaces
  <2>4. Reading' /\ Writing'
    BY <2>1 DEF Reading, Writing
  <2>5. driver'.pc \notin {"up"} \cup ReadPlaces \cup WritePlaces
    BY <1>3 DEF ReadPlaces, WritePlaces
  <2> HIDE DEF Reading, Writing, Learnt, CallFits
  <2> QED
    BY <1>2, <1>4, <2>2, <2>3, <2>4, <2>5 DEF SdInv
<1> QED
  BY <1>5

\* SdInv is invariant (spi_sd.c: what _sd_init has learnt of the card, and what the
\* transfers of sectors have done so far).
THEOREM SdInvariant == Spec => []SdInv
<1>1. Init => SdInv
  BY InitHolds
<1>2. SdInv /\ [Next]_vars => SdInv'
  <2> SUFFICES ASSUME SdInv, [Next]_vars PROVE SdInv'
    OBVIOUS
  <2>1. CASE Initialises
    BY <2>1, ClocksStep, GoIdleStep, SendIfCondStep, AppCmdStep, SendOpCondStep, ReadOcrStep
       DEF Initialises
  <2>2. CASE Transfers
    BY <2>2, ReadCommandStep, AwaitTokenStep, ReadBlockStep, WriteCommandStep, WriteBlockStep,
       AwaitWrittenStep DEF Transfers
  <2>3. CASE Reset
    BY <2>3, ResetStep
  <2>4. CASE UNCHANGED vars
    <3>1. driver' = driver /\ card' = card /\ before' = before
      BY <2>4 DEF vars
    <3>2. Learnt' = Learnt /\ CallFits' = CallFits
      BY <3>1 DEF Learnt, CallFits
    <3>3. AddressesRight' = AddressesRight
      BY <3>1 DEF AddressesRight
    <3>4. Reading' = Reading
      BY <3>1 DEF Reading, Sector, Idle
    <3>5. Writing' = Writing
      BY <3>1 DEF Writing, Stored, Sector, Idle
    <3> HIDE DEF Learnt, CallFits, AddressesRight, Reading, Writing
    <3> QED
      BY <3>1, <3>2, <3>3, <3>4, <3>5 DEF SdInv
  <2> QED
    BY <2>1, <2>2, <2>3, <2>4, CallSteps DEF Next, Runs
<1> QED
  BY <1>1, <1>2, PTL DEF Spec

\* Once it has initialised a card the driver addresses it by sectors or by bytes as that card
\* does, unless the card has missed as many commands as a loop of _sd_init makes tries.
THEOREM AddressesSectors == Spec => []AddressingIsRight
<1>1. SdInv => AddressingIsRight
  <2> SUFFICES ASSUME SdInv PROVE AddressingIsRight
    OBVIOUS
  <2>1. card.missed \in Nat /\ RETRIES \in Nat
    BY SdAssumption DEF SdInv, CardStates
  <2>2. card.missed <= RETRIES => (Idle => AddressesRight)
    BY DEF SdInv, Idle
  <2> QED
    BY <2>1, <2>2 DEF AddressingIsRight
<1> QED
  BY <1>1, SdInvariant, PTL

\* sd_readsector and sd_writesector: a read that succeeds has the sectors, a write that succeeds
\* has stored them, and one that fails only the first few.
THEOREM CallsAreTruthful == Spec => []CallsTellTheTruth
<1>1. SdInv => CallsTellTheTruth
  <2> SUFFICES ASSUME SdInv, card.missed <= RETRIES PROVE CallsTellTheTruth
    BY DEF CallsTellTheTruth
  <2>1. Reading /\ Writing /\ CallFits /\ driver \in DriverStates
    BY DEF SdInv
  <2>2. driver.call.op = "read" =>
          /\ card.disk = before
          /\ Idle /\ driver.ok =>
               driver.buffer = [i \in 1 .. driver.call.count |-> card.disk[driver.call.at + i - 1]]
    BY <2>1 DEF Reading
  <2>3. driver.call.op = "write" => \E k \in 0 .. driver.call.count : card.disk = Stored(k)
    <3> SUFFICES ASSUME driver.call.op = "write"
                 PROVE  \E k \in 0 .. driver.call.count : card.disk = Stored(k)
      OBVIOUS
    <3>1. driver.call # None /\ driver.call \in Calls
      BY <2>1 DEF None, DriverStates
    <3>2. driver.call.count \in Nat /\ driver.done \in Nat
      BY <2>1, <3>1 DEF Calls, DriverStates
    <3>3. driver.pc \in {"up"} \cup ReadPlaces \cup WritePlaces /\ driver.pc \notin ReadPlaces
      BY <2>1, <3>1 DEF CallFits
    <3>4. CASE driver.pc = "up"
      BY <2>1, <3>4 DEF Writing, Idle
    <3>5. CASE driver.pc \in {"CMD24", "data"}
      <4>1. card.disk = Stored(driver.done)
        BY <2>1, <3>5 DEF Writing
      <4>2. driver.done <= driver.call.count
        BY <2>1, <3>5 DEF CallFits, WritePlaces
      <4> QED
        BY <3>2, <4>1, <4>2
    <3>6. CASE driver.pc \in {"busy", "settled"}
      <4>1. card.disk = Stored(driver.done + 1)
        BY <2>1, <3>6 DEF Writing
      <4>2. driver.done < driver.call.count
        BY <2>1, <3>6 DEF CallFits
      <4>3. driver.done + 1 \in 0 .. driver.call.count
        BY <3>2, <4>2
      <4> QED
        BY <4>1, <4>3
    <3> QED
      BY <3>3, <3>4, <3>5, <3>6 DEF WritePlaces
  <2>4. driver.call.op = "write" /\ Idle /\ driver.ok => card.disk = Stored(driver.call.count)
    BY <2>1 DEF Writing
  <2> QED
    BY <2>2, <2>3, <2>4 DEF CallsTellTheTruth, Stored
<1> QED
  BY <1>1, SdInvariant, PTL

===============================================================================
