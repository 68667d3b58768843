---------------------------- MODULE SignalProofs ----------------------------
(***************************************************************************)
(* The safety properties of Signal, for every number of threads and        *)
(* signals, all handlers they install and every bound on what is counted.  *)
(***************************************************************************)
EXTENDS Signal, WellFoundedInduction, TLAPS

\* A set of natural numbers with an element has a smallest one.
LEMMA Smallest ==
    ASSUME NEW D \in SUBSET Nat, D # {}
    PROVE  \E n \in D : \A m \in D : n <= m
<1>1. PICK n \in D : \A m \in D : <<m, n>> \notin OpToRel(<, Nat)
  BY NatLessThanWellFounded, WFMin, Zenon
<1>2. \A m \in D : ~ (m < n)
  BY <1>1 DEF OpToRel
<1> QED
  BY <1>2

\* A thread that a step does not touch keeps its part of the invariant.
LEMMA Untouched ==
    ASSUME NEW t \in Thread, ThreadInv(t),
           t \in live <=> t \in live', UNCHANGED <<ctx[t], sig_frame[t], intact[t], disturbed[t]>>,
           UNCHANGED <<interrupted[t], pc[t]>>, fp'[t] => fp[t],
           misfreed \/ stacks'[t] = stacks[t], misfreed => misfreed'
    PROVE  ThreadInv(t)'
  BY Zenon DEF ThreadInv, NestedInv, FrameInv, StackInv, DeadInv, InHandler, Nested

\* Only live threads are in check_pending_signals.
LEMMA CheckingIsLive ==
    ASSUME SigInv, Checking
    PROVE  current \in live
  BY DEF SigInv, TypeInv, ThreadInv, DeadInv, Checking

\* The invariant holds at the start.
LEMMA InitInv == Init => SigInv
<1> SUFFICES ASSUME Init PROVE SigInv
  OBVIOUS
<1>1. Start \in Context /\ Start.of = NONE
  BY DEF Start, Context
<1>2. DefaultHandlers \in [Sig -> {"kill", "custom", "print"}]
  BY DEF DefaultHandlers
<1>3. TypeInv
  <2>1. current \in Thread /\ live \subseteq Thread
    BY DEF Init
  <2>2. /\ ctx \in [Thread -> Context] /\ sig_frame \in [Thread -> Context]
        /\ sig_handlers \in [Thread -> [Sig -> {"kill", "custom", "print"}]]
        /\ interrupted \in [Thread -> Context \union {NONE}]
    BY <1>1, <1>2 DEF Init
  <2>3. /\ pending_sig \in [Thread -> SUBSET Sig] /\ owed \in [Thread -> SUBSET Sig]
        /\ stacks \in [Thread -> Int] /\ fp \in [Thread -> BOOLEAN]
        /\ intact \in [Thread -> BOOLEAN] /\ disturbed \in [Thread -> BOOLEAN]
    BY DEF Init
  <2>4. misfreed \in BOOLEAN /\ panic \in BOOLEAN /\ sig \in [Thread -> Nat]
    BY DEF Init
  <2>5. pc \in [Thread -> {"user", "call", "check", "kcheck"}]
    BY DEF Init
  <2> QED
    BY <2>1, <2>2, <2>3, <2>4, <2>5 DEF TypeInv
<1>4. ASSUME NEW t \in Thread PROVE ThreadInv(t)
  BY <1>1 DEF Init, ThreadInv, NestedInv, FrameInv, StackInv, DeadInv, InHandler, Nested
<1> QED
  BY <1>3, <1>4 DEF SigInv

\* A context keeps its type when its step or its origin changes.
LEMMA ContextFields ==
    ASSUME NEW c \in Context
    PROVE  /\ [c EXCEPT !.step = 1 - @] \in Context
           /\ \A b \in BOOLEAN : [c EXCEPT !.whole = @ /\ b] \in Context
           /\ \A m \in {"user", "kernel"} : [c EXCEPT !.in = m] \in Context
<1>1. c.step \in {0, 1} /\ 1 - c.step \in {0, 1}
  BY DEF Context
<1>2. c = [of |-> c.of, step |-> c.step, whole |-> c.whole, in |-> c.in]
  BY DEF Context
<1>3. c.of \in Sig \union {NONE} /\ c.whole \in BOOLEAN /\ c.in \in {"user", "kernel"}
  BY DEF Context
<1>4. [c EXCEPT !.step = 1 - @] = [of |-> c.of, step |-> 1 - c.step, whole |-> c.whole, in |-> c.in]
  BY <1>2
<1>5. ASSUME NEW b \in BOOLEAN PROVE [c EXCEPT !.whole = @ /\ b] \in Context
  <2>1. [c EXCEPT !.whole = @ /\ b] = [of |-> c.of, step |-> c.step, whole |-> c.whole /\ b, in |-> c.in]
    BY <1>2
  <2>2. (c.whole /\ b) \in BOOLEAN
    OBVIOUS
  <2> QED
    BY <1>1, <1>3, <2>1, <2>2 DEF Context
<1>6. ASSUME NEW m \in {"user", "kernel"} PROVE [c EXCEPT !.in = m] \in Context
  <2>1. [c EXCEPT !.in = m] = [of |-> c.of, step |-> c.step, whole |-> c.whole, in |-> m]
    BY <1>2
  <2> QED
    BY <1>1, <1>3, <2>1 DEF Context
<1> QED
  BY <1>1, <1>3, <1>4, <1>5, <1>6 DEF Context

\* The program's own steps change no signal state.
LEMMA WorkInv == ASSUME SigInv, Work PROVE SigInv'
<1>1. TypeInv'
  <2>1. ctx[current] \in Context
    BY DEF SigInv, TypeInv
  <2>2. ctx' \in [Thread -> Context]
    BY <2>1, ContextFields DEF SigInv, TypeInv, Work
  <2> QED
    BY <2>2 DEF SigInv, TypeInv, Work, task, history
<1>2. ASSUME NEW t \in Thread PROVE ThreadInv(t)'
  <2>1. ctx'[t].of = ctx[t].of
    BY DEF SigInv, TypeInv, Work, Context
  <2> QED
    BY <2>1 DEF SigInv, Work, task, history, ThreadInv, NestedInv, FrameInv, StackInv, DeadInv, InHandler, Nested
<1> QED
  BY <1>1, <1>2 DEF SigInv

\* A call that changes neither contexts nor stacks keeps every thread's part of the
\* invariant.
LEMMA EnteredInv ==
    ASSUME SigInv, User, Entered,
           UNCHANGED <<live, ctx, sig_frame, intact, fp, stacks, interrupted, disturbed, misfreed>>
    PROVE  \A t \in Thread : ThreadInv(t)'
  BY DEF SigInv, TypeInv, User, Entered, ThreadInv, NestedInv, FrameInv, StackInv, DeadInv, InHandler, Nested

\* sys_signal changes one handler.
LEMMA SignalInv ==
    ASSUME SigInv, NEW s \in Sig, NEW h \in {"print", "custom", "kill"}, sys_signal(s, h)
    PROVE  SigInv'
<1>1. TypeInv'
  BY DEF SigInv, TypeInv, sys_signal, User, Entered, history
<1> QED
  BY <1>1, EnteredInv DEF SigInv, sys_signal, history

\* sys_sigkill marks the signal and counts it.
LEMMA SigkillInv ==
    ASSUME SigInv, NEW u \in Thread, NEW s \in Sig, sys_sigkill(u, s)
    PROVE  SigInv'
<1>1. pending_sig' \in [Thread -> SUBSET Sig] /\ owed' \in [Thread -> SUBSET Sig]
  <2>1. CASE u \in live
    <3>1. pending_sig[u] \union {s} \in SUBSET Sig /\ owed[u] \union {s} \in SUBSET Sig
      BY DEF SigInv, TypeInv
    <3>2. /\ pending_sig' = [pending_sig EXCEPT ![u] = @ \union {s}]
          /\ owed' = [owed EXCEPT ![u] = @ \union {s}]
      BY <2>1 DEF sys_sigkill
    <3> QED
      BY <3>1, <3>2 DEF SigInv, TypeInv
  <2>2. CASE u \notin live
    BY <2>2 DEF SigInv, TypeInv, sys_sigkill
  <2> QED
    BY <2>1, <2>2
<1>2. TypeInv'
  BY <1>1 DEF SigInv, TypeInv, sys_sigkill, User, Entered, task
<1> QED
  BY <1>2, EnteredInv DEF SigInv, sys_sigkill, task

\* A file system call disturbs the saved registers, and says so.
LEMMA FileCallInv == ASSUME SigInv, file_call PROVE SigInv'
<1> USE DEF SigInv, TypeInv, file_call, User, Entered
<1>1. TypeInv'
  OBVIOUS
<1>2. ASSUME NEW t \in Thread PROVE ThreadInv(t)'
  <2>1. CASE t # current
    BY <2>1, Untouched
  <2>2. CASE t = current
    BY <2>2 DEF ThreadInv, NestedInv, FrameInv, StackInv, DeadInv, InHandler, Nested
  <2> QED
    BY <2>1, <2>2
<1> QED
  BY <1>1, <1>2

\* sys_sigreturn leaves the one handler, or goes from a handler to a handler.
LEMMA SigreturnInv == ASSUME SigInv, sys_sigreturn PROVE SigInv'
<1> USE DEF SigInv, TypeInv, sys_sigreturn, User
<1>1. /\ stacks' \in [Thread -> Int] /\ fp' \in [Thread -> BOOLEAN] /\ misfreed' \in BOOLEAN
      /\ \A t \in Thread : fp'[t] => fp[t]
      /\ misfreed => misfreed'
      /\ \A t \in Thread : t # current => misfreed' \/ stacks'[t] = stacks[t]
      /\ misfreed' \/ (stacks'[current] = stacks[current] - 1 /\ ~ fp'[current])
      /\ ~ fp'[current]
  <2>1. CASE fp[current]
    <3>1. /\ stacks' = [stacks EXCEPT ![current] = @ - 1]
          /\ fp' = [fp EXCEPT ![current] = FALSE]
          /\ misfreed' = misfreed
      BY <2>1 DEF FreeStack
    <3> QED
      BY <3>1
  <2>2. CASE ~ fp[current]
    <3>1. misfreed' = TRUE
      BY <2>2 DEF FreeStack
    <3>2. CASE UNCHANGED <<stacks, fp>>
      BY <2>2, <3>1, <3>2
    <3>3. CASE \E u \in Thread, top \in BOOLEAN :
                  /\ stacks[u] > 0
                  /\ stacks' = [stacks EXCEPT ![u] = @ - 1]
                  /\ fp' = [fp EXCEPT ![u] = @ /\ ~ top /\ stacks[u] > 1]
      <4>1. PICK u \in Thread, top \in BOOLEAN :
                  /\ stacks' = [stacks EXCEPT ![u] = @ - 1]
                  /\ fp' = [fp EXCEPT ![u] = @ /\ ~ top /\ stacks[u] > 1]
        BY <3>3
      <4>2. (fp[u] /\ ~ top /\ stacks[u] > 1) \in BOOLEAN
        OBVIOUS
      <4>3. stacks' \in [Thread -> Int] /\ fp' \in [Thread -> BOOLEAN]
        BY <4>1, <4>2
      <4>4. \A t \in Thread : fp'[t] => fp[t]
        BY <4>1
      <4> QED
        BY <2>2, <3>1, <4>3, <4>4
    <3> QED
      BY <2>2, <3>2, <3>3 DEF FreeStack
  <2> QED
    BY <2>1, <2>2
<1>2. Restored(current) \in Context /\ Restored(current).of = sig_frame[current].of
  <2>1. Restored(current) \in Context
    BY ContextFields DEF Restored
  <2>2. Restored(current).of = sig_frame[current].of
    BY DEF Restored, Context
  <2> QED
    BY <2>1, <2>2
<1>3. Start \in Context
  BY DEF Start, Context
<1>4. sig_frame' \in [Thread -> Context] /\ intact' \in [Thread -> BOOLEAN]
  <2>1. CASE sig_frame[current].of = NONE
    <3>1. /\ sig_frame' = [sig_frame EXCEPT ![current] = Start]
          /\ intact' = [intact EXCEPT ![current] = FALSE]
      BY <2>1
    <3> QED
      BY <1>3, <3>1
  <2>2. CASE sig_frame[current].of # NONE
    BY <2>2
  <2> QED
    BY <2>1, <2>2
<1>5. TypeInv'
  BY <1>1, <1>2, <1>4
<1>6. \A t \in Thread : t # current => sig_frame'[t] = sig_frame[t] /\ intact'[t] = intact[t]
  OBVIOUS
<1>7. ASSUME NEW t \in Thread PROVE ThreadInv(t)'
  <2>1. CASE t # current
    <3>1. CASE misfreed'
      BY <2>1, <1>1, <1>6, <3>1
         DEF ThreadInv, NestedInv, FrameInv, StackInv, DeadInv, InHandler, Nested
    <3>2. CASE ~ misfreed'
      BY <2>1, <1>1, <1>6, <3>2, Untouched
    <3> QED
      BY <3>1, <3>2
  <2>2. CASE t = current
    <3>1. t \in live /\ t \in live' /\ InHandler(t) /\ ThreadInv(t)
      BY <2>2
    <3>2. ctx'[t].of = sig_frame[t].of /\ interrupted'[t] = NONE
      BY <2>2, <1>2
    <3>3. sig_frame[t].of # NONE => sig_frame'[t] = sig_frame[t]
      BY <2>2
    <3>4. CASE Nested(t)
      BY <2>2, <1>1, <3>1, <3>2, <3>3, <3>4
         DEF ThreadInv, NestedInv, FrameInv, StackInv, DeadInv, InHandler, Nested
    <3>5. CASE ~ Nested(t)
      <4>1. sig_frame[t].of = NONE
        BY <3>1, <3>5 DEF ThreadInv, FrameInv, Nested
      <4>2. ~ misfreed' => stacks'[t] = 0
        BY <2>2, <1>1, <3>1, <3>5 DEF ThreadInv, StackInv
      <4> QED
        BY <2>2, <1>1, <3>1, <3>2, <4>1, <4>2
           DEF ThreadInv, NestedInv, FrameInv, StackInv, DeadInv, InHandler, Nested
    <3> QED
      BY <3>4, <3>5
  <2> QED
    BY <2>1, <2>2
<1> QED
  BY <1>5, <1>7

\* The child starts with its parent's mask, in the program.
LEMMA ForkInv == ASSUME SigInv, NEW u \in Thread, sys_fork(u) PROVE SigInv'
<1> USE DEF SigInv, TypeInv, sys_fork, User
<1>1. TypeInv'
  OBVIOUS
<1>2. current \in live /\ ~ InHandler(current) /\ u # current
  OBVIOUS
<1>3. ASSUME NEW t \in Thread PROVE ThreadInv(t)'
  <2>1. CASE t # current /\ t # u
    BY <2>1, Untouched
  <2>2. CASE t = current
    BY <2>2, <1>2 DEF ThreadInv, NestedInv, FrameInv, StackInv, DeadInv, InHandler, Nested
  <2>3. CASE t = u
    <3>1. ctx'[u].of = NONE /\ ~ fp'[u]
      BY <1>2 DEF ThreadInv, FrameInv, InHandler
    <3> QED
      BY <2>3, <1>2, <3>1 DEF ThreadInv, NestedInv, FrameInv, StackInv, DeadInv, InHandler, Nested
  <2> QED
    BY <2>1, <2>2, <2>3
<1> QED
  BY <1>1, <1>3

\* A call that returns comes to check_pending_signals.
LEMMA CallDoneInv == ASSUME SigInv, CallDone PROVE SigInv'
<1> USE DEF SigInv, TypeInv, CallDone, task, history
<1>1. TypeInv'
  OBVIOUS
<1>2. ASSUME NEW t \in Thread PROVE ThreadInv(t)'
  BY DEF ThreadInv, NestedInv, FrameInv, StackInv, DeadInv, InHandler, Nested
<1> QED
  BY <1>1, <1>2

\* A custom handler starts: on a program, or (nested) on a handler.
LEMMA DeliverInv ==
    ASSUME SigInv, Checking, UNCHANGED panic, NEW s \in Sig, Deliver(s), Clear(s)
    PROVE  SigInv'
<1> USE DEF SigInv, TypeInv, Deliver, Saved
<1> DEFINE c == [of |-> s, step |-> 0, whole |-> TRUE, in |-> "user"]
<1>1. c \in Context
  BY DEF Context
<1>2. Frame(current) \in Context /\ Frame(current).of = ctx[current].of
  <2>1. ctx[current] \in Context
    OBVIOUS
  <2>2. Frame(current) \in Context
    BY <2>1, ContextFields DEF Frame
  <2>3. Frame(current).of = ctx[current].of
    BY <2>1 DEF Frame, Context
  <2> QED
    BY <2>2, <2>3
<1>3. TypeInv'
  BY <1>1, <1>2 DEF Clear, Cleared
<1>4. ASSUME NEW t \in Thread PROVE ThreadInv(t)'
  <2>1. CASE t # current
    BY <2>1, Untouched
  <2>2. CASE t = current
    <3>1. t \in live /\ t \in live' /\ ThreadInv(t)
      BY <2>2, CheckingIsLive
    <3>2. ctx'[t].of = s /\ s # NONE
      BY <2>2, SignalAssumption
    <3>3. sig_frame'[t] = Frame(t) /\ Frame(t).of = ctx[t].of /\ intact'[t] /\ fp'[t] /\ Frame(t) # NONE
      BY <2>2, <1>2, SignalAssumption
    <3>4. interrupted'[t] = IF InHandler(t) THEN NONE ELSE Frame(t)
      BY <2>2
    <3>5. CASE InHandler(t)
      BY <3>1, <3>2, <3>3, <3>4, <3>5
         DEF ThreadInv, NestedInv, FrameInv, StackInv, DeadInv, InHandler, Nested
    <3>6. CASE ~ InHandler(t)
      <4>1. ~ misfreed => stacks[t] = 0
        BY <3>1, <3>6 DEF ThreadInv, StackInv, Nested
      <4>2. ~ misfreed' => stacks'[t] = 1
        BY <2>2, <4>1, SignalAssumption
      <4> QED
        BY <3>1, <3>2, <3>3, <3>4, <3>6, <4>2
           DEF ThreadInv, NestedInv, FrameInv, StackInv, DeadInv, InHandler, Nested
    <3> QED
      BY <3>5, <3>6
  <2> QED
    BY <2>1, <2>2
<1> QED
  BY <1>3, <1>4

\* A thread that dies leaves a cleared structure.
LEMMA ExitInv == ASSUME SigInv, ExitCurrent, UNCHANGED panic PROVE SigInv'
<1> USE DEF SigInv, TypeInv, ExitCurrent
<1>1. Start \in Context /\ Start.of = NONE
  BY DEF Start, Context
<1>2. DefaultHandlers \in [Sig -> {"kill", "custom", "print"}]
  BY DEF DefaultHandlers
<1>3. TypeInv'
  BY <1>1, <1>2
<1>4. ASSUME NEW t \in Thread PROVE ThreadInv(t)'
  <2>1. CASE t # current
    BY <2>1, Untouched
  <2>2. CASE t = current
    BY <2>2, <1>1 DEF ThreadInv, NestedInv, FrameInv, StackInv, DeadInv, InHandler, Nested
  <2> QED
    BY <2>1, <2>2
<1> QED
  BY <1>3, <1>4

\* A signal without a handler is cleared.
LEMMA IgnoreInv ==
    ASSUME SigInv, UNCHANGED panic, NEW s \in Sig, Ignore(s), Clear(s)
    PROVE  SigInv'
<1> USE DEF SigInv, TypeInv, Ignore, Clear, Cleared, task
<1>1. s + 1 \in Nat
  BY SignalAssumption DEF Sig
<1>2. TypeInv'
  BY <1>1
<1>3. ASSUME NEW t \in Thread PROVE ThreadInv(t)'
  BY Untouched
<1> QED
  BY <1>2, <1>3

\* check_pending_signals takes the lowest due signal and does one of the three.
LEMMA CheckInv == ASSUME SigInv, check_pending_signals PROVE SigInv'
<1>1. Due \subseteq Sig
  BY DEF Due, SigInv, TypeInv
<1>2. PICK s \in Due : \A r \in Due : s <= r
  <2>1. Due # {} /\ Due \in SUBSET Nat
    BY <1>1, SignalAssumption DEF check_pending_signals, Sig
  <2> QED
    BY <2>1, Smallest
<1> DEFINE c == CHOOSE x \in Due : \A r \in Due : x <= r
<1>3. c \in Sig
  BY <1>1, <1>2
<1> HIDE DEF c
<1>4. CASE Deliver(c) /\ Clear(c)
  BY <1>3, <1>4, DeliverInv DEF check_pending_signals
<1>5. CASE ExitCurrent
  BY <1>5, ExitInv DEF check_pending_signals
<1>6. CASE Ignore(c) /\ Clear(c)
  BY <1>3, <1>6, IgnoreInv DEF check_pending_signals
<1> QED
  BY <1>4, <1>5, <1>6 DEF check_pending_signals, c

\* The loop of check_pending_signals ends.
LEMMA CheckDoneInv == ASSUME SigInv, CheckDone PROVE SigInv'
<1> USE DEF SigInv, TypeInv, CheckDone, task, history
<1>1. TypeInv'
  OBVIOUS
<1>2. current \in live
  BY CheckingIsLive
<1>3. ASSUME NEW t \in Thread PROVE ThreadInv(t)'
  BY <1>2 DEF ThreadInv, NestedInv, FrameInv, StackInv, DeadInv, InHandler, Nested
<1> QED
  BY <1>1, <1>3

\* The switch takes the stack's address and the saved registers from a thread in a
\* handler, and says so.
LEMMA IrqInv == ASSUME SigInv, NEW u \in Thread, irq_entry(u) PROVE SigInv'
<1> USE DEF SigInv, TypeInv, irq_entry, SwitchTo
<1>1. TypeInv'
  OBVIOUS
<1>2. ASSUME NEW t \in Thread PROVE ThreadInv(t)'
  <2>1. CASE t # current
    BY <2>1, Untouched
  <2>2. CASE t = current
    <3>1. /\ t \in live /\ t \in live' /\ ThreadInv(t)
          /\ fp'[t] = (fp[t] /\ u = t)
          /\ intact'[t] = (intact[t] /\ u = t)
          /\ disturbed'[t] = (disturbed[t] \/ (u # t /\ interrupted[t] # NONE))
      BY <2>2
    <3> QED
      BY <3>1 DEF ThreadInv, NestedInv, FrameInv, StackInv, DeadInv, InHandler, Nested
  <2> QED
    BY <2>1, <2>2
<1> QED
  BY <1>1, <1>2

\* Every step keeps the invariant.
LEMMA NextInv == SigInv /\ [Next]_vars => SigInv'
<1> SUFFICES ASSUME SigInv, [Next]_vars PROVE SigInv'
  OBVIOUS
<1>1. CASE UNCHANGED vars
  BY <1>1 DEF vars, task, history, SigInv, TypeInv, ThreadInv, NestedInv, FrameInv, StackInv, DeadInv, InHandler, Nested
<1>2. CASE Work
  BY <1>2, WorkInv
<1>3. CASE file_call
  BY <1>3, FileCallInv
<1>4. CASE sys_sigreturn
  BY <1>4, SigreturnInv
<1>5. CASE CallDone
  BY <1>5, CallDoneInv
<1>6. CASE check_pending_signals
  BY <1>6, CheckInv
<1>7. CASE CheckDone
  BY <1>7, CheckDoneInv
<1>8. CASE idle
  BY <1>8, <1>1 DEF idle
<1>9. CASE \E i \in Installs : sys_signal(i[1], i[2])
  <2>1. PICK i \in Installs : sys_signal(i[1], i[2])
    BY <1>9
  <2>2. i[1] \in Sig /\ i[2] \in {"print", "custom", "kill"}
    BY SignalAssumption
  <2> QED
    BY <2>1, <2>2, SignalInv
<1>10. CASE \E u \in Thread : sys_fork(u)
  BY <1>10, ForkInv
<1>11. CASE \E u \in Thread : irq_entry(u)
  BY <1>11, IrqInv
<1>12. CASE \E u \in Thread : \E s \in Sig : sys_sigkill(u, s)
  BY <1>12, SigkillInv
<1> QED
  BY <1>1, <1>2, <1>3, <1>4, <1>5, <1>6, <1>7, <1>8, <1>9, <1>10, <1>11, <1>12 DEF Next

\* The inductive invariant holds in every state.
THEOREM Invariance == Spec => []SigInv
  BY InitInv, NextInv, PTL DEF Spec

----------------------------------------------------------------------------
\* However many threads, signals, switches and calls there are, and whatever handlers
\* they install, a handler that no signal interrupted goes back to the context it
\* interrupted, in user mode or in the kernel; with the registers that cwd, fd_table
\* and next hold meanwhile if it kept the processor and made no file system call.
THEOREM ReturnsToInterrupted == Spec => []ResumesInterrupted
<1>1. SigInv => ResumesInterrupted
  <2> SUFFICES ASSUME SigInv, NEW t \in live, interrupted[t] # NONE
               PROVE  /\ Restored(t).of = interrupted[t].of /\ Restored(t).step = interrupted[t].step
                      /\ Restored(t).in = interrupted[t].in
                      /\ disturbed[t] \/ Restored(t).whole = interrupted[t].whole
    BY DEF ResumesInterrupted
  <2>1. interrupted[t] = sig_frame[t] /\ (disturbed[t] \/ intact[t]) /\ sig_frame[t] \in Context
    BY DEF SigInv, TypeInv, ThreadInv, FrameInv
  <2>2. /\ Restored(t).of = sig_frame[t].of /\ Restored(t).step = sig_frame[t].step
        /\ Restored(t).in = sig_frame[t].in
    BY <2>1 DEF Restored, Context
  <2>3. intact[t] => Restored(t).whole = sig_frame[t].whole
    BY <2>1 DEF Restored, Context
  <2> QED
    BY <2>1, <2>2, <2>3
<1> QED
  BY <1>1, Invariance, PTL

\* As long as no sys_sigreturn freed a block that is not its handler's stack, it frees
\* exactly what handle_signal allocated: a thread that is in one handler has one
\* stack, and a thread in its program has none.
THEOREM StacksReturned == Spec => []HandlerStacksFreed
<1>1. SigInv => HandlerStacksFreed
  BY DEF SigInv, TypeInv, HandlerStacksFreed, ThreadInv, StackInv
<1> QED
  BY <1>1, Invariance, PTL
=============================================================================
