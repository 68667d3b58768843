------------------------------- MODULE Timer -------------------------------
(***************************************************************************)
(* The timer list (timer.c), the timer interrupt with its deferred task    *)
(* (irq_entry, tasks.c) and the calls of schedule that it makes.           *)
(*                                                                         *)
(* All times are relative to now: a timer that expires in 3 ticks has      *)
(* at = 3, and when time passes everything moves down.  cval is how long   *)
(* the hardware timer still has to run; at 0 it raises its interrupt for   *)
(* as long as it is enabled.                                               *)
(*                                                                         *)
(* frames[t] is what thread t has on its stack: calls of add_timer and     *)
(* core_timer_handler, the innermost last.  A thread with no frames runs a *)
(* program.  The handler enables interrupts, so it can be interrupted; if  *)
(* Nested, by the timer too.                                               *)
(*                                                                         *)
(* Only one task is ever in the task list, because irq_entry executes the  *)
(* task it adds before it enables interrupts.                              *)
(***************************************************************************)
EXTENDS Integers, Sequences, FiniteSets, SequencesExt

CONSTANTS Thread,
          SLICE,            \* get_freq() >> 8
          FIRST,            \* get_freq() >> 5
          Timeouts,         \* delays that set_timeout is called with
          MaxTimeouts,      \* bounds the timeouts pending at a time
          MEM,              \* blocks of memory for timers and tasks
          MaxLate,          \* bounds how late a timer or a stale tick count is
          MaxHandler,       \* bounds how long a handler takes
          Nested            \* the timer may interrupt its own handler

ASSUME TimerAssumption ==
    /\ SLICE \in Nat \ {0} /\ FIRST \in Nat \ {0} /\ Timeouts \subseteq Nat
    /\ MEM \in Nat \ {0} /\ MaxHandler \in Nat \ {0} /\ MaxLate \in Nat /\ MaxHandler < MaxLate

VARIABLES list,             \* timer_head and its successors
          cval, enabled,    \* the hardware timer, and whether it may interrupt
          irq,              \* interrupts are enabled at the processor
          need_schedule,
          mem,              \* free blocks
          current, frames,
          panic,            \* execute_task followed a NULL task_head
          starved,          \* history: keep_schedule found no memory
          lost              \* history: blocks that killed threads had in use

vars == <<list, cval, enabled, irq, need_schedule, mem, current, frames, panic, starved, lost>>
history == <<starved, lost>>

----------------------------------------------------------------------------
(* Frames.                                                                 *)

\* A call of add_timer that has read the tick count.
Add(cb, delay) == [pc |-> "add", cb |-> cb, delay |-> delay, tick |-> 0, removed |-> FALSE]

\* core_timer_handler, its tick count read.
Handler == [pc |-> "loop", cb |-> "", delay |-> 0, tick |-> 0, removed |-> FALSE]

top == Last(frames[current])
At(pc) == ~ panic /\ frames[current] # <<>> /\ top.pc = pc
Replace(f) == frames' = [frames EXCEPT ![current] = Append(Front(@), f)]
Push(f) == frames' = [frames EXCEPT ![current] = Append(@, f)]
Leave == frames' = [frames EXCEPT ![current] = Front(@)]

\* The handler is between its first and its last instruction that matters here.
InHandler(f) == f.pc \in {"loop", "call", "called", "free"}
Handling(t) == \E i \in DOMAIN frames[t] : InHandler(frames[t][i])

----------------------------------------------------------------------------
(* add_timer.                                                              *)

\* Mutant: a new timer goes to the end of the list.
InsertLast(q, x) == Append(q, x)

\* Before the first timer that does not expire earlier.
Insert(q, x) ==
    LET later == {i \in DOMAIN q : x.at <= q[i].at}
    IN  InsertAt(q, IF later = {} THEN Len(q) + 1 ELSE Min(later), x)

\* The allocation.  Without memory there is no timer.
add_timer(cb, delay) ==
    IF mem = 0 THEN UNCHANGED <<mem, frames>> ELSE mem' = mem - 1 /\ Push(Add(cb, delay))

\* From timer_disable_irq to timer_enable_irq.  The hardware timer is set when
\* the new timer is the first, to the time from the tick count that was read.
add_timer_insert ==
    /\ At("add")
    /\ LET x == [at |-> top.tick + top.delay, cb |-> top.cb]
           reset == list = <<>> \/ Head(list).at >= x.at
       IN  /\ list' = Insert(list, x)
           /\ cval' = IF reset THEN top.delay ELSE cval
    /\ enabled' = TRUE
    /\ Leave
    /\ UNCHANGED <<irq, need_schedule, mem, current, panic, history>>

Pending == Len(SelectSeq(list, LAMBDA x : x.cb = "msg"))

\* A program's thread calls set_timeout.
set_timeout(delay) ==
    /\ ~ panic /\ frames[current] = <<>> /\ Pending < MaxTimeouts
    /\ add_timer("msg", delay)
    /\ UNCHANGED <<list, cval, enabled, irq, need_schedule, current, panic, history>>

----------------------------------------------------------------------------
(* The interrupt.                                                          *)

\* irq_entry, add_task, execute_task and core_timer_handler up to its loop.
\* Without memory for the task execute_task finds no task.
irq_entry ==
    /\ ~ panic /\ irq /\ enabled /\ cval = 0
    /\ Nested \/ \A i \in DOMAIN frames[current] : frames[current][i].pc = "add"
    /\ IF mem = 0
       THEN panic' = TRUE /\ UNCHANGED <<mem, frames, enabled>>
       ELSE panic' = FALSE /\ mem' = mem - 1 /\ Push(Handler) /\ enabled' = FALSE
    /\ UNCHANGED <<list, cval, irq, need_schedule, current, history>>

\* Takes the first timer off the list if it has expired.
HandlerPop ==
    /\ At("loop") /\ list # <<>> /\ Head(list).at <= top.tick
    /\ list' = Tail(list)
    /\ Replace([top EXCEPT !.pc = "call", !.cb = Head(list).cb, !.removed = TRUE])
    /\ UNCHANGED <<cval, enabled, irq, need_schedule, mem, current, panic, history>>

\* keep_schedule calls add_timer, and sets need_schedule after that.
CallKeep ==
    /\ At("call") /\ top.cb = "keep"
    /\ LET back == [top EXCEPT !.pc = "called"]
       IN  IF mem = 0
           THEN starved' = TRUE /\ Replace(back) /\ UNCHANGED mem
           ELSE /\ mem' = mem - 1
                /\ frames' = [frames EXCEPT ![current] = Front(@) \o <<back, Add("keep", SLICE)>>]
                /\ UNCHANGED starved
    /\ UNCHANGED <<list, cval, enabled, irq, need_schedule, current, panic, lost>>

KeepNeeds ==
    /\ At("called")
    /\ need_schedule' = TRUE
    /\ Replace([top EXCEPT !.pc = "free"])
    /\ UNCHANGED <<list, cval, enabled, irq, mem, current, panic, history>>

\* print_msg.
CallMsg ==
    /\ At("call") /\ top.cb = "msg"
    /\ Replace([top EXCEPT !.pc = "free"])
    /\ UNCHANGED <<list, cval, enabled, irq, need_schedule, mem, current, panic, history>>

HandlerFree ==
    /\ At("free")
    /\ mem' = mem + 1
    /\ Replace([top EXCEPT !.pc = "loop", !.cb = ""])
    /\ UNCHANGED <<list, cval, enabled, irq, need_schedule, current, panic, history>>

\* Mutant: the timer is set for the next timer, but not enabled.
ResetOnly(f) ==
    /\ cval' = IF f.removed /\ list # <<>> THEN Head(list).at - f.tick ELSE cval
    /\ UNCHANGED enabled

\* "Reset the timer".
Reset(f) ==
    IF f.removed /\ list # <<>>
    THEN cval' = Head(list).at - f.tick /\ enabled' = TRUE
    ELSE UNCHANGED <<cval, enabled>>

HandlerReset ==
    /\ At("loop") /\ (list # <<>> => Head(list).at > top.tick)
    /\ Reset(top)
    /\ Replace([top EXCEPT !.pc = "sched", !.tick = 0])
    /\ UNCHANGED <<list, irq, need_schedule, mem, current, panic, history>>

\* schedule.  It switches with interrupts disabled: a thread that was
\* preempted enables them on its way out of irq_entry, a new one starts with
\* them enabled.
schedule(u) ==
    /\ current' = u
    /\ enabled' = TRUE
    /\ irq' = (u = current \/ frames[u] = <<>>)

HandlerSchedule ==
    /\ At("sched")
    /\ IF need_schedule
       THEN need_schedule' = FALSE /\ \E u \in Thread : schedule(u)
       ELSE UNCHANGED <<need_schedule, current, enabled, irq>>
    /\ Replace([top EXCEPT !.pc = "exit", !.removed = FALSE])
    /\ UNCHANGED <<list, cval, mem, panic, history>>

\* Mutant: the task is not freed.
NoFree == UNCHANGED mem

\* "Free the completed task".
FreeTask == mem' = mem + 1

\* The end of execute_task and of irq_entry.
HandlerExit ==
    /\ At("exit")
    /\ FreeTask
    /\ irq' = TRUE
    /\ Leave
    /\ UNCHANGED <<list, cval, enabled, need_schedule, current, panic, history>>

\* A thread calls schedule in idle or as it exits.
Yield ==
    /\ ~ panic /\ frames[current] = <<>>
    /\ \E u \in Thread : schedule(u)
    /\ UNCHANGED <<list, cval, need_schedule, mem, frames, panic, history>>

\* The blocks that the calls on t's stack have in use: add_timer its new timer,
\* the handler its task, and the timer that it has taken off the list.
BlocksOn(t, stack) ==
    LET taken == {i \in DOMAIN stack : stack[i].pc \in {"call", "called", "free"}}
    IN  {t} \X (((DOMAIN stack) \X {"own"}) \cup (taken \X {"taken"}))
InUse == UNION {BlocksOn(t, frames[t]) : t \in Thread}

\* The current thread kills another one: its kernel stack is freed, what the
\* calls on it would have freed is not.
Kill(u) ==
    /\ ~ panic /\ u # current /\ frames[current] = <<>> /\ frames[u] # <<>>
    /\ frames' = [frames EXCEPT ![u] = <<>>]
    /\ lost' = lost + Cardinality(BlocksOn(u, frames[u]))
    /\ UNCHANGED <<list, cval, enabled, irq, need_schedule, mem, current, panic, starved>>

----------------------------------------------------------------------------
Down(x) == IF x > - MaxLate THEN x - 1 ELSE x

\* One tick.  A handler takes less than MaxHandler ticks.
Tick ==
    /\ ~ panic
    /\ \A t \in Thread : \A i \in DOMAIN frames[t] : InHandler(frames[t][i]) => frames[t][i].tick > 1 - MaxHandler
    /\ list' = [i \in DOMAIN list |-> [list[i] EXCEPT !.at = Down(@)]]
    /\ cval' = IF cval > 0 THEN cval - 1 ELSE 0
    /\ frames' = [t \in Thread |-> [i \in DOMAIN frames[t] |->
                    IF frames[t][i].pc \in {"sched", "exit"} THEN frames[t][i]
                    ELSE [frames[t][i] EXCEPT !.tick = Down(@)]]]
    /\ UNCHANGED <<enabled, irq, need_schedule, mem, current, panic, history>>

\* The kernel has followed a NULL pointer: anything may happen.
Halted == panic /\ UNCHANGED vars

\* timer_init has run.
Init ==
    /\ list = <<[at |-> FIRST, cb |-> "keep"]>>
    /\ cval = FIRST /\ enabled = TRUE /\ irq = TRUE /\ need_schedule = FALSE
    /\ mem = MEM - 1
    /\ current \in Thread
    /\ frames = [t \in Thread |-> <<>>]
    /\ panic = FALSE /\ starved = FALSE /\ lost = 0

HandlerStep ==
    \/ HandlerPop \/ CallKeep \/ KeepNeeds \/ CallMsg \/ HandlerFree
    \/ HandlerReset \/ HandlerSchedule \/ HandlerExit

Next ==
    \/ irq_entry \/ HandlerStep \/ add_timer_insert
    \/ \E delay \in Timeouts : set_timeout(delay)
    \/ Yield \/ (\E u \in Thread : Kill(u))
    \/ Tick \/ Halted

Spec == Init /\ [][Next]_vars

\* The processor goes on with the code it is in, takes the interrupts it is
\* asked to take, and time passes.
FairSpec ==
    Spec /\ WF_vars(HandlerStep) /\ WF_vars(add_timer_insert) /\ WF_vars(irq_entry) /\ WF_vars(Tick)

----------------------------------------------------------------------------
(* Properties.                                                             *)

\* Outside the handler the hardware timer is enabled whenever there is a timer,
\* and not due before the earliest one: an interrupt that came early would find
\* nothing to remove, and core_timer_handler would leave the timer disabled.
Armed ==
    (\A t \in Thread : ~ Handling(t)) /\ list # <<>> =>
        enabled /\ \A i \in DOMAIN list : Head(list).at <= list[i].at /\ Head(list).at <= cval

\* Every block is free, a timer of the list, in use by a call on a stack, or was
\* in use by a thread when it was killed: execute_task frees "the completed
\* task" and core_timer_handler the timer, once, however they nest.
BlocksConserved == mem + Len(list) + lost + Cardinality(InUse) = MEM

\* Preemption goes on: keep_schedule runs again and again, unless memory ran out.
KeepsScheduling == []<>(need_schedule \/ starved \/ panic)

\* core_timer_handler says "No timer to reset" only when there is no timer.
NoTimerToReset == [][HandlerReset /\ ~ top.removed => list = <<>>]_vars
=============================================================================
