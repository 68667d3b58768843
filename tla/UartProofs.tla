----------------------------- MODULE UartProofs -----------------------------
(***************************************************************************)
(* The rings of the UART driver lose and reorder nothing, for every size   *)
(* and every interleaving of the program with the interrupt handler.       *)
(***************************************************************************)
EXTENDS UartRing, SequenceTheorems, TLAPS

\* Quotient and remainder are determined by such a decomposition.
LEMMA DivModUnique ==
    ASSUME NEW P \in Nat \ {0}, NEW q \in Int, NEW r \in 0 .. P - 1
    PROVE  (P * q + r) % P = r /\ (P * q + r) \div P = q
OBVIOUS

\* The remainders the driver computes.
LEMMA Wrap ==
    ASSUME NEW x \in - BUFFER_SIZE .. 2 * BUFFER_SIZE - 1
    PROVE  x % BUFFER_SIZE = IF x < 0 THEN x + BUFFER_SIZE ELSE IF x < BUFFER_SIZE THEN x ELSE x - BUFFER_SIZE
<1>1. BUFFER_SIZE \in Nat \ {0}
  BY UartAssumption
<1>2. CASE x < 0
  <2>1. x + BUFFER_SIZE \in 0 .. BUFFER_SIZE - 1 /\ BUFFER_SIZE * (-1) + (x + BUFFER_SIZE) = x
    BY <1>1, <1>2
  <2> QED
    BY <1>1, <1>2, <2>1, DivModUnique
<1>3. CASE x \in 0 .. BUFFER_SIZE - 1
  <2>1. BUFFER_SIZE * 0 + x = x
    BY <1>1, <1>3
  <2> QED
    BY <1>1, <1>3, <2>1, DivModUnique
<1>4. CASE x >= BUFFER_SIZE
  <2>1. x - BUFFER_SIZE \in 0 .. BUFFER_SIZE - 1 /\ BUFFER_SIZE * 1 + (x - BUFFER_SIZE) = x
    BY <1>1, <1>4
  <2> QED
    BY <1>1, <1>4, <2>1, DivModUnique
<1> QED
  BY <1>1, <1>2, <1>3, <1>4

\* The next slot.
LEMMA SuccIs ==
    ASSUME NEW i \in Index
    PROVE  Succ(i) \in Index /\ Succ(i) = IF i + 1 = BUFFER_SIZE THEN 0 ELSE i + 1
<1>1. BUFFER_SIZE \in Nat \ {0, 1}
  BY UartAssumption
<1>2. i + 1 \in - BUFFER_SIZE .. 2 * BUFFER_SIZE - 1
  BY <1>1 DEF Index
<1> QED
  BY <1>1, <1>2, Wrap DEF Index, Succ

\* How many characters a ring holds, and which slot holds which.
LEMMA RingIs ==
    ASSUME NEW buffer \in [Index -> Char], NEW head \in Index, NEW tail \in Index
    PROVE  LET n == IF head >= tail THEN head - tail ELSE head - tail + BUFFER_SIZE
               c == Contents(buffer, head, tail)
           IN  /\ n \in 0 .. BUFFER_SIZE - 1 /\ c \in Seq(Char) /\ Len(c) = n
               /\ \A i \in 1 .. n :
                    c[i] = buffer[IF tail + i - 1 < BUFFER_SIZE THEN tail + i - 1 ELSE tail + i - 1 - BUFFER_SIZE]
<1> DEFINE n == IF head >= tail THEN head - tail ELSE head - tail + BUFFER_SIZE
           slot(i) == IF tail + i - 1 < BUFFER_SIZE THEN tail + i - 1 ELSE tail + i - 1 - BUFFER_SIZE
           c == Contents(buffer, head, tail)
<1>1. BUFFER_SIZE \in Nat \ {0, 1}
  BY UartAssumption
<1>2. (head - tail) % BUFFER_SIZE = n /\ n \in 0 .. BUFFER_SIZE - 1
  <2>1. head - tail \in - BUFFER_SIZE .. 2 * BUFFER_SIZE - 1
    BY <1>1 DEF Index
  <2> DEFINE x == head - tail
  <2>2. x % BUFFER_SIZE = IF x < 0 THEN x + BUFFER_SIZE ELSE IF x < BUFFER_SIZE THEN x ELSE x - BUFFER_SIZE
    <3> HIDE DEF x
    <3> QED
      BY <2>1, Wrap DEF x
  <2> QED
    BY <1>1, <2>2 DEF Index
<1>3. ASSUME NEW i \in 1 .. n PROVE (tail + i - 1) % BUFFER_SIZE = slot(i) /\ slot(i) \in Index
  <2>1. tail + i - 1 \in 0 .. 2 * BUFFER_SIZE - 1
    BY <1>1, <1>2 DEF Index
  <2>2. tail + i - 1 \in - BUFFER_SIZE .. 2 * BUFFER_SIZE - 1
    BY <1>1, <2>1
  <2>3. (tail + i - 1) % BUFFER_SIZE = slot(i)
    <3> DEFINE x == tail + i - 1
    <3>0. x \in Int /\ x >= 0
      BY <1>1, <2>1
    <3>1. x % BUFFER_SIZE = IF x < 0 THEN x + BUFFER_SIZE ELSE IF x < BUFFER_SIZE THEN x ELSE x - BUFFER_SIZE
      <4> HIDE DEF x
      <4> QED
        BY <2>2, Wrap DEF x
    <3>2. slot(i) = IF x < BUFFER_SIZE THEN x ELSE x - BUFFER_SIZE
      BY <3>0, <1>1, <1>2 DEF Index
    <3> HIDE DEF x, slot
    <3>3. x % BUFFER_SIZE = slot(i)
      BY <3>0, <3>1, <3>2
    <3> QED
      BY <3>3 DEF x
  <2> QED
    BY <1>1, <2>1, <2>3 DEF Index
<1> HIDE DEF n
<1>4. c = [i \in 1 .. n |-> buffer[slot(i)]]
  BY <1>2, <1>3 DEF Contents
<1>5. c \in [1 .. n -> Char]
  BY <1>3, <1>4
<1>6. c \in Seq(Char) /\ Len(c) = n
  <2> HIDE DEF c
  <2> QED
    BY <1>2, <1>5
<1> QED
  BY <1>2, <1>4, <1>6 DEF n

\* A character put into a ring that is not full is the last one.
LEMMA PutRing ==
    ASSUME NEW buffer \in [Index -> Char], NEW head \in Index, NEW tail \in Index, NEW x \in Char,
           Succ(head) # tail
    PROVE  /\ Contents([buffer EXCEPT ![head] = x], Succ(head), tail) = Append(Contents(buffer, head, tail), x)
           /\ Len(Contents(buffer, head, tail)) < BUFFER_SIZE - 1
<1> DEFINE c == Contents(buffer, head, tail)
           b == [buffer EXCEPT ![head] = x]
           d == Contents(b, Succ(head), tail)
           n == IF head >= tail THEN head - tail ELSE head - tail + BUFFER_SIZE
           slot(i) == IF tail + i - 1 < BUFFER_SIZE THEN tail + i - 1 ELSE tail + i - 1 - BUFFER_SIZE
<1>1. BUFFER_SIZE \in Nat \ {0, 1} /\ head \in 0 .. BUFFER_SIZE - 1 /\ tail \in 0 .. BUFFER_SIZE - 1
  BY UartAssumption DEF Index
<1>2. n \in 0 .. BUFFER_SIZE - 1 /\ c \in Seq(Char) /\ Len(c) = n /\ \A i \in 1 .. n : c[i] = buffer[slot(i)]
  BY RingIs
<1>3. Succ(head) \in Index /\ Succ(head) = IF head + 1 = BUFFER_SIZE THEN 0 ELSE head + 1
  BY SuccIs
<1>4. b \in [Index -> Char]
  OBVIOUS
<1> DEFINE m == IF Succ(head) >= tail THEN Succ(head) - tail ELSE Succ(head) - tail + BUFFER_SIZE
<1>5. d \in Seq(Char) /\ Len(d) = m /\ \A i \in 1 .. m : d[i] = b[slot(i)]
  <2> HIDE DEF b
  <2> QED
    BY <1>3, <1>4, RingIs
<1>6. m = n + 1 /\ n < BUFFER_SIZE - 1
  BY <1>1, <1>3
<1>7. ASSUME NEW i \in 1 .. n PROVE slot(i) # head
  BY <1>1, <1>2
<1>8. slot(n + 1) = head
  BY <1>1
<1> HIDE DEF c, d, n, m, slot
<1>9. ASSUME NEW i \in 1 .. n + 1 PROVE d[i] = Append(c, x)[i]
  <2>1. CASE i \in 1 .. n
    BY <1>2, <1>5, <1>6, <1>7, <2>1
  <2>2. CASE i = n + 1
    BY <1>2, <1>5, <1>6, <1>8, <2>2
  <2> QED
    BY <1>2, <2>1, <2>2
<1>10. Append(c, x) \in Seq(Char) /\ Len(Append(c, x)) = n + 1
  BY <1>2
<1>11. d = Append(c, x)
  BY <1>2, <1>5, <1>6, <1>9, <1>10, SeqEqual
<1> QED
  BY <1>2, <1>6, <1>11 DEF c, d

\* Taking from a ring that is not empty takes the first one.
LEMMA TakeRing ==
    ASSUME NEW buffer \in [Index -> Char], NEW head \in Index, NEW tail \in Index, head # tail
    PROVE  /\ Contents(buffer, head, tail) # <<>>
           /\ Contents(buffer, head, Succ(tail)) = Tail(Contents(buffer, head, tail))
<1> DEFINE c == Contents(buffer, head, tail)
           d == Contents(buffer, head, Succ(tail))
           n == IF head >= tail THEN head - tail ELSE head - tail + BUFFER_SIZE
           m == IF head >= Succ(tail) THEN head - Succ(tail) ELSE head - Succ(tail) + BUFFER_SIZE
           slot(t, i) == IF t + i - 1 < BUFFER_SIZE THEN t + i - 1 ELSE t + i - 1 - BUFFER_SIZE
<1>1. BUFFER_SIZE \in Nat \ {0, 1} /\ head \in 0 .. BUFFER_SIZE - 1 /\ tail \in 0 .. BUFFER_SIZE - 1
  BY UartAssumption DEF Index
<1>2. n \in 0 .. BUFFER_SIZE - 1 /\ c \in Seq(Char) /\ Len(c) = n /\ \A i \in 1 .. n : c[i] = buffer[slot(tail, i)]
  BY RingIs
<1>3. Succ(tail) \in Index /\ Succ(tail) = IF tail + 1 = BUFFER_SIZE THEN 0 ELSE tail + 1
  BY SuccIs
<1>4. d \in Seq(Char) /\ Len(d) = m /\ \A i \in 1 .. m : d[i] = buffer[slot(Succ(tail), i)]
  BY <1>3, RingIs
<1>5. n = m + 1 /\ m \in Nat
  BY <1>1, <1>3
<1>6. ASSUME NEW i \in 1 .. m PROVE slot(Succ(tail), i) = slot(tail, i + 1)
  BY <1>1, <1>3, <1>5
<1> HIDE DEF c, d, n, m, slot
<1>7. c # <<>>
  BY <1>2, <1>5
<1>8. Tail(c) \in Seq(Char) /\ Len(Tail(c)) = m /\ \A i \in 1 .. m : Tail(c)[i] = c[i + 1]
  BY <1>2, <1>5, <1>7
<1>9. ASSUME NEW i \in 1 .. m PROVE d[i] = Tail(c)[i]
  <2>1. i + 1 \in 1 .. n
    BY <1>5
  <2> QED
    BY <1>2, <1>4, <1>6, <1>8, <2>1
<1>10. d = Tail(c)
  BY <1>4, <1>8, <1>9, SeqEqual
<1> QED
  BY <1>7, <1>10 DEF c, d

----------------------------------------------------------------------------
(* The driver.                                                             *)

UartTypes ==
    /\ tx_buffer \in [Index -> Char] /\ tx_buffer_head \in Index /\ tx_buffer_tail \in Index
    /\ rx_buffer \in [Index -> Char] /\ rx_buffer_head \in Index /\ rx_buffer_tail \in Index
    /\ rx_fifo \in Seq(Char) /\ ch \in Char

\* Between the test for room and the write there stays room, for the line feed too:
\* the handler only takes characters out.
RoomInv ==
    pc = "write" =>
        /\ Succ(tx_buffer_head) # tx_buffer_tail
        /\ ch = CR => Succ(Succ(tx_buffer_head)) # tx_buffer_tail

UartInv == UartTypes /\ RoomInv

\* Different slots have different successors.
LEMMA SuccInjective == ASSUME NEW i \in Index, NEW j \in Index, Succ(i) = Succ(j) PROVE i = j
<1>1. BUFFER_SIZE \in Nat
  BY UartAssumption
<1> QED
  BY <1>1, SuccIs DEF Index

\* A carriage return that the callers let through finds two free slots.
LEMMA CrRoom ==
    ASSUME NEW head \in Index, NEW tail \in Index, Succ(Succ(head)) = tail
    PROVE  (tail - head - 1) % BUFFER_SIZE = 1
<1>1. BUFFER_SIZE \in Nat \ {0, 1} /\ head \in 0 .. BUFFER_SIZE - 1
  BY UartAssumption DEF Index
<1>2. Succ(head) \in Index /\ Succ(head) = IF head + 1 = BUFFER_SIZE THEN 0 ELSE head + 1
  BY SuccIs
<1>3. tail = IF Succ(head) + 1 = BUFFER_SIZE THEN 0 ELSE Succ(head) + 1
  BY <1>2, SuccIs
<1> DEFINE x == tail - head - 1
<1>4. x = 1 \/ x = 1 - BUFFER_SIZE
  BY <1>1, <1>2, <1>3
<1>5. x \in - BUFFER_SIZE .. 2 * BUFFER_SIZE - 1
  BY <1>1, <1>4
<1> HIDE DEF x
<1>6. x % BUFFER_SIZE = 1
  BY <1>1, <1>4, <1>5, Wrap
<1> QED
  BY <1>6 DEF x

\* The rings start empty.
LEMMA UartInit == Init => UartInv
<1> SUFFICES ASSUME Init PROVE UartInv
  OBVIOUS
<1>1. 0 \in Index /\ LF \in Char
  BY UartAssumption DEF Index
<1>2. <<>> \in Seq(Char)
  OBVIOUS
<1> QED
  BY <1>1, <1>2 DEF Init, UartInv, UartTypes, RoomInv

\* uart_async_getc moves the tail of the receive ring.
LEMMA GetInv == ASSUME UartInv, uart_async_getc PROVE UartInv'
<1>1. rx_buffer_tail' \in Index
  BY SuccIs DEF UartInv, UartTypes, uart_async_getc
<1>2. RoomInv'
  BY DEF UartInv, RoomInv, uart_async_getc, tx
<1> QED
  BY <1>1, <1>2 DEF UartInv, UartTypes, uart_async_getc, tx

\* uart_async_putc goes on to the write only with room.
LEMMA PutInv == ASSUME UartInv, NEW c \in Char, CrFits(c), uart_async_putc(c) PROVE UartInv'
<1>1. UartTypes'
  BY DEF UartInv, UartTypes, uart_async_putc, tx, rx
<1>2. RoomInv'
  <2> SUFFICES ASSUME ~ TxFull
               PROVE  /\ Succ(tx_buffer_head) # tx_buffer_tail
                      /\ c = CR => Succ(Succ(tx_buffer_head)) # tx_buffer_tail
    BY DEF RoomInv, uart_async_putc, tx
  <2> QED
    BY CrRoom DEF TxFull, CrFits, UartInv, UartTypes
<1> QED
  BY <1>1, <1>2 DEF UartInv

\* A write takes one slot.
LEMMA PutWriteInv == ASSUME UartInv, PutWrite PROVE UartInv'
<1>1. CR \in Char /\ LF \in Char /\ CR # LF
  BY UartAssumption
<1>2. Succ(tx_buffer_head) \in Index
  BY SuccIs DEF UartInv, UartTypes
<1>3. UartTypes'
  BY <1>1, <1>2 DEF UartInv, UartTypes, PutWrite, rx
<1>4. RoomInv'
  BY <1>1 DEF UartInv, RoomInv, PutWrite
<1> QED
  BY <1>3, <1>4 DEF UartInv

\* The handler puts a character into the receive ring.
LEMMA RxInv == ASSUME UartInv, uart_irq_rx_handler PROVE UartInv'
<1>1. Succ(rx_buffer_head) \in Index /\ Head(rx_fifo) \in Char /\ Tail(rx_fifo) \in Seq(Char)
  BY SuccIs, HeadTailProperties DEF UartInv, UartTypes, uart_irq_rx_handler
<1>2. rx_buffer' \in [Index -> Char] /\ rx_buffer_head' \in Index /\ rx_fifo' \in Seq(Char)
  BY <1>1 DEF UartInv, UartTypes, uart_irq_rx_handler
<1> QED
  BY <1>2 DEF UartInv, UartTypes, RoomInv, uart_irq_rx_handler, tx

\* The handler makes room in the transmit ring.
LEMMA TxInv == ASSUME UartInv, uart_irq_tx_handler PROVE UartInv'
<1> USE DEF uart_irq_tx_handler, rx
<1>1. CASE tx_buffer_head = tx_buffer_tail
  BY <1>1 DEF UartInv, UartTypes, RoomInv
<1>2. CASE tx_buffer_head # tx_buffer_tail
  <2> DEFINE h == tx_buffer_head t == tx_buffer_tail
  <2>1. h \in Index /\ t \in Index /\ Succ(h) \in Index /\ Succ(t) \in Index /\ tx_buffer_tail' = Succ(t) /\ tx_buffer_head' = h
    BY <1>2, SuccIs DEF UartInv, UartTypes
  <2>2. UartTypes'
    BY <2>1 DEF UartInv, UartTypes
  <2>3. Succ(h) # Succ(t)
    BY <1>2, <2>1, SuccInjective
  <2>4. Succ(h) # t => Succ(Succ(h)) # Succ(t)
    BY <2>1, SuccInjective
  <2>5. RoomInv'
    BY <2>1, <2>3, <2>4 DEF UartInv, RoomInv
  <2> QED
    BY <2>2, <2>5 DEF UartInv
<1> QED
  BY <1>1, <1>2

\* The line fills the hardware's queue.
LEMMA ArriveInv == ASSUME UartInv, NEW c \in Char, Arrive(c) PROVE UartInv'
<1>1. rx_fifo' \in Seq(Char)
  BY DEF UartInv, UartTypes, Arrive
<1> QED
  BY <1>1 DEF UartInv, UartTypes, RoomInv, Arrive, tx, rx

\* Every step keeps the invariant.
LEMMA UartNext == UartInv /\ [Next]_vars => UartInv'
<1> SUFFICES ASSUME UartInv, [Next]_vars PROVE UartInv'
  OBVIOUS
<1>1. CASE UNCHANGED vars
  BY <1>1 DEF vars, tx, rx, UartInv, UartTypes, RoomInv
<1>2. CASE EnableTx \/ EnableStore
  BY <1>2 DEF EnableTx, EnableStore, tx, rx, UartInv, UartTypes, RoomInv
<1>3. CASE uart_async_getc \/ PutWrite
  BY <1>3, GetInv, PutWriteInv
<1>4. CASE \E c \in Char : CrFits(c) /\ uart_async_putc(c)
  BY <1>4, PutInv
<1>5. CASE uart_irq_rx_handler \/ uart_irq_tx_handler
  BY <1>5, RxInv, TxInv
<1>6. CASE \E c \in Char : Arrive(c)
  BY <1>6, ArriveInv
<1> QED
  BY <1>1, <1>2, <1>3, <1>4, <1>5, <1>6 DEF Next, Program

\* The inductive invariant holds in every state.
THEOREM UartInvariance == Spec => []UartInv
  BY UartInit, UartNext, PTL DEF Spec

----------------------------------------------------------------------------
(* The refinement.                                                         *)

\* What a step does to the transmit ring is a step of a queue.
LEMMA TransmitStep ==
    ASSUME UartInv, [Next]_vars
    PROVE  [Transmit!Put \/ Transmit!Take]_TxContents
<1>1. CASE UNCHANGED tx
  BY <1>1 DEF tx, TxContents, Contents
<1>2. CASE PutWrite
  <2>1. TxContents' = Append(TxContents, ch) /\ Len(TxContents) < BUFFER_SIZE - 1 /\ ch \in Char
    BY <1>2, PutRing DEF PutWrite, TxContents, UartInv, UartTypes, RoomInv
  <2> QED
    BY <2>1 DEF Transmit!Put
<1>3. CASE uart_irq_tx_handler /\ tx_buffer_head # tx_buffer_tail
  <2>1. TxContents # <<>> /\ TxContents' = Tail(TxContents)
    BY <1>3, TakeRing DEF uart_irq_tx_handler, TxContents, UartInv, UartTypes
  <2> QED
    BY <2>1 DEF Transmit!Take
<1> QED
  BY <1>1, <1>2, <1>3
     DEF Next, Program, vars, uart_async_getc, uart_async_putc, EnableTx, EnableStore,
         uart_irq_rx_handler, uart_irq_tx_handler, Arrive, tx

\* What a step does to the receive ring is a step of a queue.
LEMMA ReceiveStep ==
    ASSUME UartInv, [Next]_vars
    PROVE  [Receive!Put \/ Receive!Take]_RxContents
<1>1. CASE UNCHANGED rx
  BY <1>1 DEF rx, RxContents, Contents
<1>2. CASE uart_async_getc /\ rx_buffer_head # rx_buffer_tail
  <2>1. RxContents # <<>> /\ RxContents' = Tail(RxContents)
    BY <1>2, TakeRing DEF uart_async_getc, RxContents, UartInv, UartTypes
  <2> QED
    BY <2>1 DEF Receive!Take
<1>3. CASE uart_irq_rx_handler /\ Succ(rx_buffer_head) # rx_buffer_tail
  <2>1. Head(rx_fifo) \in Char
    BY <1>3, HeadTailProperties DEF uart_irq_rx_handler, UartInv, UartTypes
  <2>2. RxContents' = Append(RxContents, Head(rx_fifo)) /\ Len(RxContents) < BUFFER_SIZE - 1
    <3>1. /\ rx_buffer' = [rx_buffer EXCEPT ![rx_buffer_head] = Head(rx_fifo)]
          /\ rx_buffer_head' = Succ(rx_buffer_head) /\ rx_buffer_tail' = rx_buffer_tail
      BY <1>3 DEF uart_irq_rx_handler
    <3> DEFINE c == Head(rx_fifo)
    <3>2. c \in Char
      BY <2>1
    <3> HIDE DEF c
    <3>3. /\ Contents([rx_buffer EXCEPT ![rx_buffer_head] = c], Succ(rx_buffer_head), rx_buffer_tail)
               = Append(Contents(rx_buffer, rx_buffer_head, rx_buffer_tail), c)
          /\ Len(Contents(rx_buffer, rx_buffer_head, rx_buffer_tail)) < BUFFER_SIZE - 1
      BY <1>3, <3>2, PutRing DEF UartInv, UartTypes
    <3> QED
      BY <3>1, <3>3 DEF RxContents, c
  <2> QED
    BY <2>1, <2>2 DEF Receive!Put
<1> QED
  BY <1>1, <1>2, <1>3
     DEF Next, Program, vars, uart_async_getc, uart_async_putc, PutWrite, EnableTx, EnableStore,
         uart_irq_rx_handler, uart_irq_tx_handler, Arrive, rx

\* An empty ring has no characters.
LEMMA EmptyRing == ASSUME Init PROVE TxContents = <<>> /\ RxContents = <<>>
<1>1. 0 - 0 \in - BUFFER_SIZE .. 2 * BUFFER_SIZE - 1 /\ 0 - 0 = 0 /\ BUFFER_SIZE > 0
  BY UartAssumption
<1>2. (0 - 0) % BUFFER_SIZE = 0
  BY <1>1, Wrap
<1> QED
  BY <1>2 DEF Init, TxContents, RxContents, Contents

\* Both rings are queues: whatever the program and the interrupt handler do between
\* each other's steps, no character is lost, doubled or overtaken, if a carriage
\* return is only put where two slots are free.
THEOREM RingsAreQueues == Spec => Transmit!Lossless /\ Receive!Lossless
<1>1. Init => Transmit!FInit /\ Receive!FInit
  BY EmptyRing DEF Transmit!FInit, Receive!FInit
<1>2. UartInv /\ [Next]_vars => [Transmit!Put \/ Transmit!Take]_TxContents /\ [Receive!Put \/ Receive!Take]_RxContents
  BY TransmitStep, ReceiveStep
<1> QED
  BY <1>1, <1>2, UartInvariance, PTL DEF Spec, Transmit!Lossless, Receive!Lossless
=============================================================================
