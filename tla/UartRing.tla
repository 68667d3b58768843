------------------------------ MODULE UartRing ------------------------------
(***************************************************************************)
(* The asynchronous half of the UART driver (uart.c): the receive and the  *)
(* transmit ring between a program and the interrupt handler, which may    *)
(* run between any two steps of the program.                               *)
(***************************************************************************)
EXTENDS Integers, Sequences

CONSTANTS BUFFER_SIZE,
          Char,             \* what the program writes and the line delivers
          CR, LF,
          RX_FIFO           \* the characters the hardware holds

ASSUME UartAssumption == BUFFER_SIZE \in Nat \ {0, 1} /\ RX_FIFO \in Nat \ {0} /\ {CR, LF} \subseteq Char /\ CR # LF

VARIABLES tx_buffer, tx_buffer_head, tx_buffer_tail,
          rx_buffer, rx_buffer_head, rx_buffer_tail,
          ier,              \* the interrupts enabled in AUX_MU_IER_REG
          rx_fifo,
          pc, ch,           \* of uart_async_putc
          loaded            \* AUX_MU_IER_REG as the program read it

tx == <<tx_buffer, tx_buffer_head, tx_buffer_tail>>
rx == <<rx_buffer, rx_buffer_head, rx_buffer_tail>>
vars == <<tx, rx, ier, rx_fifo, pc, ch, loaded>>

Succ(i) == (i + 1) % BUFFER_SIZE
Index == 0 .. BUFFER_SIZE - 1

\* The characters from tail to head.
Contents(buffer, head, tail) ==
    [i \in 1 .. (head - tail) % BUFFER_SIZE |-> buffer[(tail + i - 1) % BUFFER_SIZE]]
TxContents == Contents(tx_buffer, tx_buffer_head, tx_buffer_tail)
RxContents == Contents(rx_buffer, rx_buffer_head, rx_buffer_tail)

----------------------------------------------------------------------------
(* The program.                                                            *)

\* uart_async_getc.  On an empty ring it enables the receive interrupt.
uart_async_getc ==
    /\ pc = "idle"
    /\ IF rx_buffer_head = rx_buffer_tail
       THEN pc' = "enable_rx" /\ loaded' = ier /\ UNCHANGED rx_buffer_tail
       ELSE rx_buffer_tail' = Succ(rx_buffer_tail) /\ UNCHANGED <<pc, loaded>>
    /\ UNCHANGED <<tx, rx_buffer, rx_buffer_head, ier, rx_fifo, ch>>

\* Mutant: the test for room is off by one.
NeverFull == tx_buffer_head + 1 = tx_buffer_tail

TxFull == Succ(tx_buffer_head) = tx_buffer_tail

\* uart_async_putc.
uart_async_putc(c) ==
    /\ pc = "idle"
    /\ ch' = c
    /\ pc' = IF TxFull THEN "enable_tx" ELSE "write"
    /\ UNCHANGED <<tx, rx, ier, rx_fifo, loaded>>

\* One character into the ring.  A carriage return is followed by a line feed.
PutWrite ==
    /\ pc = "write"
    /\ tx_buffer' = [tx_buffer EXCEPT ![tx_buffer_head] = ch]
    /\ tx_buffer_head' = Succ(tx_buffer_head)
    /\ IF ch = CR THEN ch' = LF /\ UNCHANGED pc ELSE pc' = "enable_tx" /\ UNCHANGED ch
    /\ UNCHANGED <<tx_buffer_tail, rx, ier, rx_fifo, loaded>>

\* uart_enable_tx_irq reads the register, and writes it in a later step.
EnableTx ==
    /\ pc = "enable_tx"
    /\ loaded' = ier
    /\ pc' = "store_tx"
    /\ UNCHANGED <<tx, rx, ier, rx_fifo, ch>>

EnableStore ==
    /\ pc \in {"store_tx", "enable_rx"}
    /\ ier' = loaded \union (IF pc = "store_tx" THEN {"tx"} ELSE {"rx"})
    /\ pc' = "idle"
    /\ UNCHANGED <<tx, rx, rx_fifo, ch, loaded>>

----------------------------------------------------------------------------
(* The interrupt handler and the line.                                     *)

\* uart_irq_rx_handler.
uart_irq_rx_handler ==
    /\ "rx" \in ier /\ rx_fifo # <<>>
    /\ IF Succ(rx_buffer_head) = rx_buffer_tail
       THEN ier' = ier \ {"rx"} /\ UNCHANGED <<rx_buffer, rx_buffer_head, rx_fifo>>
       ELSE /\ rx_buffer' = [rx_buffer EXCEPT ![rx_buffer_head] = Head(rx_fifo)]
            /\ rx_buffer_head' = Succ(rx_buffer_head)
            /\ rx_fifo' = Tail(rx_fifo)
            /\ UNCHANGED ier
    /\ UNCHANGED <<tx, rx_buffer_tail, pc, ch, loaded>>

\* uart_irq_tx_handler; the transmitter is ready.
uart_irq_tx_handler ==
    /\ "tx" \in ier
    /\ IF tx_buffer_head = tx_buffer_tail
       THEN ier' = ier \ {"tx"} /\ UNCHANGED tx_buffer_tail
       ELSE tx_buffer_tail' = Succ(tx_buffer_tail) /\ UNCHANGED ier
    /\ UNCHANGED <<tx_buffer, tx_buffer_head, rx, rx_fifo, pc, ch, loaded>>

\* A character arrives; what the hardware has no room for is lost.
Arrive(c) ==
    /\ Len(rx_fifo) < RX_FIFO
    /\ rx_fifo' = Append(rx_fifo, c)
    /\ UNCHANGED <<tx, rx, ier, pc, ch, loaded>>

----------------------------------------------------------------------------
Init ==
    /\ tx_buffer = [i \in Index |-> LF] /\ tx_buffer_head = 0 /\ tx_buffer_tail = 0
    /\ rx_buffer = [i \in Index |-> LF] /\ rx_buffer_head = 0 /\ rx_buffer_tail = 0
    /\ ier = {"rx"} /\ loaded = {}
    /\ rx_fifo = <<>>
    /\ pc = "idle" /\ ch = LF

\* What the callers must see to: a carriage return takes two slots, and
\* uart_async_putc looks for one.
CrFits(c) == c = CR => (tx_buffer_tail - tx_buffer_head - 1) % BUFFER_SIZE # 1

Program ==
    \/ uart_async_getc \/ PutWrite \/ EnableTx \/ EnableStore
    \/ \E c \in Char : CrFits(c) /\ uart_async_putc(c)

Next == Program \/ uart_irq_rx_handler \/ uart_irq_tx_handler \/ \E c \in Char : Arrive(c)

Spec == Init /\ [][Next]_vars

\* Interrupts that are asked for are taken, and a call of the program ends.
FairSpec ==
    /\ Spec
    /\ WF_vars(uart_irq_tx_handler) /\ WF_vars(uart_irq_rx_handler)
    /\ WF_vars(PutWrite \/ EnableTx \/ EnableStore)

----------------------------------------------------------------------------
(* Properties.                                                             *)

Transmit == INSTANCE Fifo WITH Capacity <- BUFFER_SIZE - 1, q <- TxContents
Receive == INSTANCE Fifo WITH Capacity <- BUFFER_SIZE - 1, q <- RxContents

\* However the handler and the program interleave, both rings are queues that
\* lose and reorder nothing, and what the program put into the transmit ring
\* is sent: no character is left in it with the interrupt disabled.
ImplementsFifo == Transmit!FSpec /\ Receive!Lossless
=============================================================================
