------------------------------- MODULE Signal -------------------------------
(***************************************************************************)
(* Signals: sys_signal, sys_sigkill, sys_sigreturn and the delivery at the *)
(* end of el0_sync_entry and irq_entry (signal.c).                         *)
(*                                                                         *)
(* ctx[t] is the context thread t runs in outside the kernel: of is NONE   *)
(* for the program or the signal whose handler runs, step stands for how   *)
(* far the program has come, whole tells whether x1 to x18 are the         *)
(* program's own, and in is "kernel" for a context that an interrupt found *)
(* in the middle of a system call.  A call takes its effect at once and    *)
(* can be interrupted until it returns; one whose effect is lost by the    *)
(* interrupt is a call without effect (sys_signal with the old handler).   *)
(*                                                                         *)
(* handle_signal copies the trap frame over sig_frame and the fields       *)
(* behind it: x0 lands in sig_frame, x1 in cwd, x2 to x17 in fd_table, x18 *)
(* in next and the rest behind the structure, where nobody writes.         *)
(* intact[t] tells that cwd, fd_table and next are as the copy left them.  *)
(*                                                                         *)
(* interrupted, owed, disturbed and misfreed are history variables: the    *)
(* context that the handler of a thread interrupted (NONE once another     *)
(* signal interrupted the handler), the signals that were sent and whose   *)
(* handler has not been called, whether that handler lost the processor or *)
(* made a file system call, and whether any thread freed something else    *)
(* than its handler's stack.                                               *)
(***************************************************************************)
EXTENDS Integers, Sequences, FiniteSets, SequencesExt

CONSTANTS Thread, SIG_NUM, SIGKILL, NONE,
          Installs,         \* the handlers <<signal, kind>> that programs install
          MaxStacks         \* bounds the stacks that are counted

Sig == 0 .. SIG_NUM - 1
Context == [of : Sig \union {NONE}, step : {0, 1}, whole : BOOLEAN, in : {"user", "kernel"}]

ASSUME SignalAssumption ==
    SIG_NUM \in Nat \ {0} /\ SIGKILL \in Sig /\ NONE \notin Sig \union Context /\ MaxStacks \in Nat \ {0}
    /\ Installs \subseteq Sig \X {"kill", "custom", "print"}

VARIABLES current, live,
          sig_handlers,     \* "kill", "custom", or "print" for NULL and default_handler
          pending_sig,
          ctx,
          sig_frame,        \* the saved context
          intact,
          fp,               \* cpu_context.fp is the top of an allocated handler stack
          stacks,           \* how many handler stacks of the thread are allocated
          pc,               \* "user"; "call" in a system call, "check" at its end or an
                            \* interrupt's; "kcheck" at the end of an interrupt of a call
          sig,              \* the loop variable of check_pending_signals, 0 outside
          panic,            \* kernel code goes on with a wrong stack pointer
          interrupted, owed, disturbed, misfreed

task == <<sig_handlers, sig_frame, intact, fp, stacks>>
history == <<interrupted, owed, disturbed, misfreed>>
vars == <<current, live, pending_sig, ctx, pc, sig, panic, task, history>>

Start == [of |-> NONE, step |-> 0, whole |-> TRUE, in |-> "user"]
DefaultHandlers == [s \in Sig |-> IF s = SIGKILL THEN "kill" ELSE "print"]

\* The current thread runs in user mode, in its program or in a handler.
User == ~ panic /\ current \in live /\ pc[current] = "user"
Checking == ~ panic /\ pc[current] \in {"check", "kcheck"}
InHandler(t) == ctx[t].of # NONE

\* The handler of t was itself interrupted by a signal.
Nested(t) == InHandler(t) /\ interrupted[t] = NONE

\* The effect of a call is done; it can be interrupted before it returns.
Entered == pc' = [pc EXCEPT ![current] = "call"] /\ UNCHANGED <<sig, panic>>

----------------------------------------------------------------------------
(* System calls.                                                           *)

\* Anything else a program does.
Work ==
    /\ User /\ ~ InHandler(current)
    /\ ctx' = [ctx EXCEPT ![current].step = 1 - @]
    /\ UNCHANGED <<current, live, pending_sig, pc, sig, panic, task, history>>

\* Any handler for any signal: the old one, which the call returns, can be put back
\* for another.
sys_signal(s, handler) ==
    /\ User
    /\ sig_handlers' = [sig_handlers EXCEPT ![current][s] = handler]
    /\ Entered
    /\ UNCHANGED <<current, live, pending_sig, ctx, sig_frame, intact, fp, stacks, history>>

\* get_thread_task_by_id finds threads in the queues, not the current one.
sys_sigkill(u, s) ==
    /\ User /\ u # current
    /\ IF u \in live
       THEN /\ pending_sig' = [pending_sig EXCEPT ![u] = @ \union {s}]
            /\ owed' = [owed EXCEPT ![u] = @ \union {s}]
       ELSE UNCHANGED <<pending_sig, owed>>
    /\ Entered
    /\ UNCHANGED <<current, live, ctx, task, interrupted, disturbed, misfreed>>

\* sys_open, sys_close and sys_chdir write fd_table or cwd.
file_call ==
    /\ User
    /\ intact' = [intact EXCEPT ![current] = FALSE]
    /\ disturbed' = [disturbed EXCEPT ![current] = interrupted[current] # NONE]
    /\ Entered
    /\ UNCHANGED <<current, live, pending_sig, ctx, sig_handlers, sig_frame, fp, stacks,
                   interrupted, owed, misfreed>>

\* Mutant: the handler's stack is kept.
FreeNothing(t) == UNCHANGED <<stacks, fp, misfreed>>

\* "Free the handler stack": the page below cpu_context.fp.  After a switch that is
\* the page below some frame on the thread's kernel stack, whoever owns it: another
\* thread's handler stack, or memory of no concern here.
FreeStack(t) ==
    IF fp[t]
    THEN /\ stacks' = [stacks EXCEPT ![t] = @ - 1]
         /\ fp' = [fp EXCEPT ![t] = FALSE]
         /\ UNCHANGED misfreed
    ELSE /\ misfreed' = TRUE
         /\ \/ UNCHANGED <<stacks, fp>>
            \/ \E u \in Thread, top \in BOOLEAN :
                  /\ stacks[u] > 0
                  /\ stacks' = [stacks EXCEPT ![u] = @ - 1]
                  /\ fp' = [fp EXCEPT ![u] = @ /\ ~ top /\ stacks[u] > 1]

\* The registers sys_sigreturn copies back.
Restored(t) == [sig_frame[t] EXCEPT !.whole = @ /\ intact[t]]

\* sys_sigreturn, called by sighander_user_wrapper after the handler.  A context in
\* the kernel gets its registers back, but the stack pointer of this call.  In the
\* program nobody reads what is left in the structure, so it is dropped here.
sys_sigreturn ==
    /\ User /\ InHandler(current)
    /\ FreeStack(current)
    /\ ctx' = [ctx EXCEPT ![current] = Restored(current)]
    /\ panic' = (sig_frame[current].in = "kernel")
    /\ pc' = [pc EXCEPT ![current] = "call"]
    /\ IF sig_frame[current].of = NONE
       THEN /\ sig_frame' = [sig_frame EXCEPT ![current] = Start]
            /\ intact' = [intact EXCEPT ![current] = FALSE]
       ELSE UNCHANGED <<sig_frame, intact>>
    /\ interrupted' = [interrupted EXCEPT ![current] = NONE]
    /\ disturbed' = [disturbed EXCEPT ![current] = FALSE]
    /\ UNCHANGED <<current, live, pending_sig, sig_handlers, sig, owed>>

\* sys_fork copies the mask and the handlers.  Only programs fork: a child of a
\* handler would have no stack.
sys_fork(u) ==
    /\ User /\ ~ InHandler(current) /\ u \notin live
    /\ live' = live \union {u}
    /\ pending_sig' = [pending_sig EXCEPT ![u] = pending_sig[current]]
    /\ owed' = [owed EXCEPT ![u] = pending_sig[current]]
    /\ sig_handlers' = [sig_handlers EXCEPT ![u] = sig_handlers[current]]
    /\ ctx' = [ctx EXCEPT ![u] = ctx[current]]
    /\ fp' = [fp EXCEPT ![u] = fp[current]]
    /\ pc' = [pc EXCEPT ![u] = "check", ![current] = "call"]
    /\ UNCHANGED <<current, sig, panic, sig_frame, intact, stacks, interrupted, disturbed, misfreed>>

\* The call returns, through check_pending_signals.
CallDone ==
    /\ ~ panic /\ current \in live /\ pc[current] = "call"
    /\ pc' = [pc EXCEPT ![current] = "check"]
    /\ UNCHANGED <<current, live, pending_sig, ctx, sig, panic, task, history>>

----------------------------------------------------------------------------
(* check_pending_signals and handle_signal.                                *)

\* Mutant: the whole mask is cleared.
ClearedAll(t, s) == [pending_sig EXCEPT ![t] = {}]

\* "Clear the signal".
Cleared(t, s) == [pending_sig EXCEPT ![t] = @ \ {s}]

\* The context an exception interrupted.
Frame(t) == [ctx[t] EXCEPT !.in = IF pc[t] = "kcheck" THEN "kernel" ELSE "user"]

\* Mutant: the copy goes the wrong way.
SavedSwapped(t) == sig_frame[t]

\* The context the copy of the trap frame saves.
Saved(t) == Frame(t)

\* The custom handler, in user mode on a new stack.  The eret leaves the rest of
\* irq_entry or of the call behind.
Deliver(s) ==
    /\ sig_frame' = [sig_frame EXCEPT ![current] = Saved(current)]
    /\ intact' = [intact EXCEPT ![current] = TRUE]
    /\ ctx' = [ctx EXCEPT ![current] = [of |-> s, step |-> 0, whole |-> TRUE, in |-> "user"]]
    /\ stacks' = [stacks EXCEPT ![current] = IF @ < MaxStacks THEN @ + 1 ELSE @]
    /\ fp' = [fp EXCEPT ![current] = TRUE]
    /\ pc' = [pc EXCEPT ![current] = "user"]
    /\ interrupted' = [interrupted EXCEPT ![current] = IF InHandler(current) THEN NONE ELSE Frame(current)]
    /\ disturbed' = [disturbed EXCEPT ![current] = FALSE]
    /\ sig' = [sig EXCEPT ![current] = 0]
    /\ UNCHANGED <<current, live, sig_handlers, misfreed>>

\* default_sigkill_handler: _exit.  Another thread runs.  What the structure of a
\* dead thread holds no longer matters; the stacks of its handlers are lost.
ExitCurrent ==
    /\ live' = live \ {current}
    /\ \E u \in live : current' = u /\ (u = current => live = {current})
    /\ pc' = [pc EXCEPT ![current] = "user"]
    /\ ctx' = [ctx EXCEPT ![current] = Start]
    /\ sig_frame' = [sig_frame EXCEPT ![current] = Start]
    /\ intact' = [intact EXCEPT ![current] = FALSE]
    /\ fp' = [fp EXCEPT ![current] = FALSE]
    /\ stacks' = [stacks EXCEPT ![current] = 0]
    /\ interrupted' = [interrupted EXCEPT ![current] = NONE]
    /\ disturbed' = [disturbed EXCEPT ![current] = FALSE]
    /\ sig' = [sig EXCEPT ![current] = 0]
    /\ sig_handlers' = [sig_handlers EXCEPT ![current] = DefaultHandlers]
    /\ pending_sig' = [pending_sig EXCEPT ![current] = {}]
    /\ owed' = [owed EXCEPT ![current] = {}]
    /\ UNCHANGED misfreed

\* default_handler, or no handler: the loop goes on.
Ignore(s) ==
    /\ sig' = [sig EXCEPT ![current] = s + 1]
    /\ UNCHANGED <<current, live, ctx, pc, task, interrupted, disturbed, misfreed>>

Clear(s) ==
    /\ pending_sig' = Cleared(current, s)
    /\ owed' = [owed EXCEPT ![current] = @ \ {s}]

Due == {s \in pending_sig[current] : s >= sig[current]}

check_pending_signals ==
    /\ Checking /\ Due # {} /\ UNCHANGED panic
    /\ LET s == CHOOSE s \in Due : \A r \in Due : s <= r
           h == sig_handlers[current][s]
       IN  \/ h = "custom" /\ Deliver(s) /\ Clear(s)
           \/ h = "kill" /\ ExitCurrent
           \/ h = "print" /\ Ignore(s) /\ Clear(s)

\* The end of the loop: back to where the exception came from.
CheckDone ==
    /\ Checking /\ Due = {}
    /\ pc' = [pc EXCEPT ![current] = IF @ = "kcheck" THEN "call" ELSE "user"]
    /\ sig' = [sig EXCEPT ![current] = 0]
    /\ UNCHANGED <<current, live, pending_sig, ctx, panic, task, history>>

\* cpu_switch_to stores the frame pointer of the kernel into cpu_context, and
\* add_thread_task clears next.
SwitchTo(u) ==
    /\ current' = u
    /\ fp' = [fp EXCEPT ![current] = @ /\ u = current]
    /\ intact' = [intact EXCEPT ![current] = @ /\ u = current]
    /\ disturbed' = [disturbed EXCEPT ![current] = @ \/ (u # current /\ interrupted[current] # NONE)]

\* The timer interrupt, in user mode or in a system call, and the switch.  The
\* thread checks its signals when it returns from irq_entry.
irq_entry(u) ==
    /\ ~ panic /\ current \in live /\ pc[current] \in {"user", "call"} /\ u \in live
    /\ SwitchTo(u)
    /\ pc' = [pc EXCEPT ![current] = IF @ = "call" THEN "kcheck" ELSE "check"]
    /\ UNCHANGED <<live, pending_sig, ctx, sig, panic, sig_handlers, sig_frame, stacks,
                   interrupted, owed, misfreed>>

\* Only idle is left, which has no signals; or the kernel has gone astray, and what
\* it does is no longer modelled.
idle == (live = {} \/ panic) /\ UNCHANGED vars

----------------------------------------------------------------------------
Init ==
    /\ live \in {{t} : t \in Thread}
    /\ current \in live
    /\ sig_handlers = [t \in Thread |-> DefaultHandlers]
    /\ pending_sig = [t \in Thread |-> {}]
    /\ ctx = [t \in Thread |-> Start]
    /\ sig_frame = [t \in Thread |-> Start]
    /\ intact = [t \in Thread |-> FALSE]
    /\ fp = [t \in Thread |-> FALSE]
    /\ stacks = [t \in Thread |-> 0]
    /\ pc = [t \in Thread |-> "user"]
    /\ sig = [t \in Thread |-> 0]
    /\ panic = FALSE
    /\ interrupted = [t \in Thread |-> NONE]
    /\ owed = [t \in Thread |-> {}]
    /\ disturbed = [t \in Thread |-> FALSE]
    /\ misfreed = FALSE

Next ==
    \/ Work \/ file_call \/ sys_sigreturn \/ CallDone \/ check_pending_signals \/ CheckDone \/ idle
    \/ \E i \in Installs : sys_signal(i[1], i[2])
    \/ \E u \in Thread : sys_fork(u) \/ irq_entry(u) \/ \E s \in Sig : sys_sigkill(u, s)

Spec == Init /\ [][Next]_vars

\* The kernel's code goes on, and the timer comes again and again and gives every
\* thread its turn (Timer, KeepsScheduling; Sched, EveryThreadRuns).
FairSpec ==
    /\ Spec
    /\ WF_vars(check_pending_signals \/ CheckDone)
    /\ \A u \in Thread : SF_vars(irq_entry(u))

----------------------------------------------------------------------------
(* Properties.                                                             *)

\* sigreturn goes back to where the handler interrupted the thread, in the program
\* or in a system call, unless another signal came before it returned: there is one
\* sig_frame.  x1 to x18 are as they were if the handler neither lost the processor
\* nor made a file system call.
ResumesInterrupted ==
    \A t \in live : interrupted[t] # NONE =>
        LET r == Restored(t)
            c == interrupted[t]
        IN  r.of = c.of /\ r.step = c.step /\ r.in = c.in /\ (disturbed[t] \/ r.whole = c.whole)

\* A signal that was sent to a thread is handled: its handler is called once the
\* thread comes back from an exception, unless the thread dies, or lower signals
\* come again and again (the loop starts from 0, and a custom handler ends it).
PendingIsHandled ==
    \A t \in Thread, s \in Sig :
        \/ []<>(\E r \in owed[t] : r < s)
        \/ s \in owed[t] ~> (s \notin owed[t] \/ t \notin live \/ panic)

\* Until a sys_sigreturn frees what is not its handler's stack, a thread has one
\* handler stack while it is in a handler, and none outside: sys_sigreturn frees
\* what handle_signal allocated, if no handler was interrupted by a signal.
HandlerStacksFreed ==
    \A t \in live : ~ misfreed /\ ~ Nested(t) => stacks[t] = IF InHandler(t) THEN 1 ELSE 0

----------------------------------------------------------------------------
(***************************************************************************)
(* The inductive invariant (proved in SignalProofs).                       *)
(***************************************************************************)
TypeInv ==
    /\ current \in Thread /\ live \subseteq Thread
    /\ ctx \in [Thread -> Context] /\ sig_frame \in [Thread -> Context]
    /\ pending_sig \in [Thread -> SUBSET Sig] /\ owed \in [Thread -> SUBSET Sig]
    /\ stacks \in [Thread -> Int] /\ fp \in [Thread -> BOOLEAN]
    /\ intact \in [Thread -> BOOLEAN]
    /\ disturbed \in [Thread -> BOOLEAN] /\ misfreed \in BOOLEAN /\ panic \in BOOLEAN
    /\ interrupted \in [Thread -> Context \union {NONE}]
    /\ sig_handlers \in [Thread -> [Sig -> {"kill", "custom", "print"}]]
    /\ pc \in [Thread -> {"user", "call", "check", "kcheck"}] /\ sig \in [Thread -> Nat]

\* Once a handler was interrupted by a signal the thread never leaves handlers.
NestedInv(t) == Nested(t) => t \in live /\ sig_frame[t].of # NONE

\* Before that, it is in one handler, which interrupted the program, or in none.
FrameInv(t) ==
    /\ interrupted[t] # NONE =>
          /\ InHandler(t) /\ interrupted[t] = sig_frame[t] /\ sig_frame[t].of = NONE
          /\ disturbed[t] \/ intact[t]
    /\ ~ InHandler(t) => ~ fp[t]

\* If besides every sys_sigreturn so far freed its handler's stack, there is no other.
StackInv(t) ==
    ~ Nested(t) /\ ~ misfreed => stacks[t] = IF InHandler(t) THEN 1 ELSE 0

\* A structure that is not in use was cleared.
DeadInv(t) == t \notin live => ~ InHandler(t) /\ pc[t] = "user"

ThreadInv(t) == NestedInv(t) /\ FrameInv(t) /\ StackInv(t) /\ DeadInv(t)

SigInv == TypeInv /\ \A t \in Thread : ThreadInv(t)
=============================================================================
