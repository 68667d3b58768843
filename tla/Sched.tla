-------------------------------- MODULE Sched --------------------------------
(***************************************************************************)
(* The scheduler: src/src/sched.c, the _exec of src/src/exec.c, sys_fork,  *)
(* the start of the shell in src/src/main.c, and the timer tick that calls *)
(* schedule.                                                               *)
(*                                                                         *)
(* One processor runs the thread named by `current` (tpidr_el1).  pc[t] is *)
(* where thread t is in the kernel code, or where it will resume:          *)
(*                                                                         *)
(*   "boot"   the rest of main(), before create_shell_thread               *)
(*   "user"   user mode, where it may be interrupted or call the kernel    *)
(*   "enter"  _exec or create_shell_thread, before tpidr_el1 is switched   *)
(*   "fresh"  its program's first instruction, in kernel mode: the context *)
(*            of a thread of thread_create that was never switched out     *)
(*   "exit", "marked"           _exit: off the ready queue, then EXITED    *)
(*   "found", "removed"         _kill: the task found, then off the queue  *)
(*   "reap", "free", "sched"    idle: kill_zombies, a zombie in hand, the  *)
(*                              call of schedule                           *)
(*   "switched"  idle inside schedule, after cpu_switch_to                 *)
(*   "gone"   never resumes: it exited, or _exec put another in its place  *)
(*                                                                         *)
(* A system call runs with interrupts enabled.  Windows is the set of the  *)
(* places inside a system call at which the timer may strike; on the       *)
(* hardware it is all of them.  A single operation on a queue is atomic    *)
(* here.  wait_queue and TASK_BLOCKED are left out: no code blocks.        *)
(***************************************************************************)
EXTENDS Integers, Sequences, FiniteSets, Functions

CONSTANTS Task,       \* the memory for task structures
          NULL,       \* no task
          BootTask,   \* the structure sched_init gives to main()
          Idle,       \* the first one thread_create makes
          MaxThreads, \* bound on thread_cnt
          Windows,    \* where in a system call the timer may strike
          Killable,   \* the pids the threads pass to kill
          EarlyExec   \* a thread may call exec before the timer first interrupts it

KernelPoints == {"enter", "exit", "marked", "found", "removed"}

ASSUME TaskAssumption ==
    /\ BootTask \in Task /\ Idle \in Task /\ BootTask # Idle
    /\ NULL \notin Task
    /\ MaxThreads \in Nat \ {0}
    /\ Windows \subseteq KernelPoints
    /\ Killable \subseteq Nat
    /\ EarlyExec \in BOOLEAN

VARIABLES ready_queue, zombie_queue,
          current,      \* tpidr_el1
          state,        \* task->state
          id,           \* task->id
          live,         \* task is allocated
          pc, arg,      \* where a thread is; the task it works on there
          thread_cnt,
          irq           \* interrupts are enabled at the processor

queues == <<ready_queue, zombie_queue>>
vars == <<ready_queue, zombie_queue, current, state, id, live, pc, arg, thread_cnt, irq>>

TaskStates == {"READY", "RUNNING", "EXITED"}
Points == {"boot", "user", "fresh", "reap", "free", "sched", "switched", "gone"}
          \cup KernelPoints

-----------------------------------------------------------------------------
(* The queues *)

\* Mutant: the task goes to the second place.
add_thread_task_second(q, t) ==
    IF q = <<>> THEN <<t>> ELSE <<Head(q), t>> \o Tail(q)

\* The task goes to the end.
add_thread_task(q, t) == Append(q, t)

\* Mutant: removing the first task clears the queue.
rm_thread_task_clears(q, t) ==
    IF q # <<>> /\ Head(q) = t THEN <<>> ELSE SelectSeq(q, LAMBDA u : u # t)

\* The first entry that is the task is unlinked.
rm_thread_task(q, t) ==
    IF t \notin Range(q) THEN q
    ELSE LET i == CHOOSE i \in DOMAIN q : q[i] = t /\ \A j \in 1 .. i - 1 : q[j] # t
         IN [j \in 1 .. Len(q) - 1 |-> IF j < i THEN q[j] ELSE q[j + 1]]

\* The tasks of the ready queue with this pid; get_thread_task_by_id returns the
\* first one.
get_thread_task_by_id(pid) ==
    {t \in Range(ready_queue) : id[t] = pid /\
        \E i \in DOMAIN ready_queue :
            ready_queue[i] = t /\ \A j \in 1 .. i - 1 : id[ready_queue[j]] # pid}

-----------------------------------------------------------------------------
(* sched_init: main() runs as BootTask, idle waits in the ready queue *)

Init ==
    /\ ready_queue = <<Idle>> /\ zombie_queue = <<>>
    /\ current = BootTask
    /\ state = [t \in Task |-> IF t = BootTask THEN "RUNNING" ELSE "READY"]
    /\ id = [t \in Task |-> 0]
    /\ live = {BootTask, Idle}
    /\ pc = [t \in Task |-> CASE t = BootTask -> "boot" [] t = Idle -> "switched"
                              [] OTHER -> "gone"]
    /\ arg = [t \in Task |-> NULL]
    /\ thread_cnt = 1
    /\ irq = TRUE

-----------------------------------------------------------------------------
(* schedule() *)

\* There is a thread to switch to.
OtherReady == ready_queue # <<>> /\ Head(ready_queue) # current

\* The switch to the head of the queue, from a thread that resumes at `saved`;
\* `queued` is the ready queue once that thread has taken its place, `on` says whether
\* interrupts are enabled when the other one goes on.
switch(saved, queued, on) ==
    LET next == Head(ready_queue)
        was  == state[current]
    IN /\ OtherReady
       /\ ready_queue' = Tail(queued)
       /\ zombie_queue' = IF was = "EXITED" THEN add_thread_task(zombie_queue, current)
                          ELSE zombie_queue
       /\ state' = [state EXCEPT ![current] = IF was = "RUNNING" THEN "READY" ELSE was,
                                 ![next] = "RUNNING"]
       /\ current' = next
       /\ pc' = [pc EXCEPT ![current] = saved,
                           ![next] = IF @ = "switched" THEN "reap" ELSE @]
       /\ irq' = on

\* schedule returns at once, to `back`.
stay(back) ==
    /\ ~ OtherReady
    /\ pc' = [pc EXCEPT ![current] = back]
    /\ irq' = TRUE
    /\ UNCHANGED <<queues, current, state>>

\* A RUNNING thread queues up again, a READY one is queued already.
Requeued == IF state[current] = "RUNNING" THEN add_thread_task(ready_queue, current)
            ELSE ready_queue

\* cpu_switch_to does not restore the interrupt mask: it stays set until the
\* resumed thread clears it, as every path does but the one back into idle and
\* the start of a new thread.
Unmasks == pc[Head(ready_queue)] \notin {"switched", "fresh"}

\* Mutants: a READY thread is queued again; it moves to the end; nobody is queued;
\* interrupts are enabled before the switch.
schedule_twice(saved, back) ==
    stay(back) \/ switch(saved, add_thread_task(ready_queue, current), Unmasks)
schedule_to_end(saved, back) ==
    stay(back) \/ switch(saved, add_thread_task(rm_thread_task(ready_queue, current), current),
                         Unmasks)
schedule_drops(saved, back) ==
    stay(back) \/ switch(saved, ready_queue, Unmasks)
schedule_unmasked(saved, back) ==
    stay(back) \/ switch(saved, Requeued, TRUE)

\* Called by the current thread, which goes on at `back` if there is nobody to
\* switch to and else resumes at `saved`.
schedule(saved, back) ==
    \/ stay(back)
    \/ switch(saved, Requeued, Unmasks)

\* The timer interrupt: core_timer_handler calls schedule.
Tick ==
    /\ irq
    /\ pc[current] \notin KernelPoints \ Windows
    /\ schedule(pc[current], pc[current])
    /\ UNCHANGED <<id, live, arg, thread_cnt>>

-----------------------------------------------------------------------------
(* Threads come *)

\* What thread_create and sys_fork do with a new task structure.
create(t, where) ==
    /\ id' = [id EXCEPT ![t] = thread_cnt]
    /\ thread_cnt' = thread_cnt + 1
    /\ live' = live \cup {t}
    /\ state' = [state EXCEPT ![t] = "READY"]
    /\ pc' = [where EXCEPT ![t] = IF where[current] = "enter" THEN "fresh" ELSE "user"]
    /\ ready_queue' = add_thread_task(ready_queue, t)

\* sys_fork: the child returns from the system call when it is first scheduled.
Fork(t) ==
    /\ pc[current] = "user"
    /\ thread_cnt < MaxThreads
    /\ t \notin live
    /\ create(t, pc)
    /\ arg' = [arg EXCEPT ![t] = NULL]
    /\ UNCHANGED <<zombie_queue, current, irq>>

\* No memory for the stacks: the structure is freed, the pid is used up.
ForkFails ==
    /\ pc[current] = "user"
    /\ thread_cnt < MaxThreads
    /\ thread_cnt' = thread_cnt + 1
    /\ UNCHANGED <<queues, current, state, id, live, pc, arg, irq>>

\* _exec, and create_shell_thread for main(): the new thread is put on the ready
\* queue by thread_create ...
ExecCreate(t) ==
    /\ pc[current] \in {"user", "boot"}
    /\ state[current] = "READY" => EarlyExec
    /\ thread_cnt < MaxThreads
    /\ t \notin live
    /\ create(t, [pc EXCEPT ![current] = "enter"])
    /\ arg' = [arg EXCEPT ![current] = t, ![t] = NULL]
    /\ UNCHANGED <<zombie_queue, current, irq>>

\* Mutant: tpidr_el1 is not switched, the program runs as the caller's thread.
ExecEnterUnswitched ==
    /\ pc[current] = "enter"
    /\ pc' = [pc EXCEPT ![current] = "user"]
    /\ arg' = [arg EXCEPT ![current] = NULL]
    /\ UNCHANGED <<queues, current, state, id, live, thread_cnt, irq>>

\* ... and entered at once: it is now current, READY and queued.  The caller is
\* forgotten, unless it was still queued itself: then it starts over.
ExecEnter ==
    /\ pc[current] = "enter"
    /\ current' = arg[current]
    /\ pc' = [pc EXCEPT ![current] = IF current \in Range(ready_queue) THEN "fresh" ELSE "gone",
                        ![arg[current]] = "user"]
    /\ arg' = [arg EXCEPT ![current] = NULL]
    /\ UNCHANGED <<queues, state, id, live, thread_cnt, irq>>

-----------------------------------------------------------------------------
(* Threads go *)

\* Mutant: the thread stays in the ready queue.
ExitQueued ==
    /\ pc[current] = "user"
    /\ pc' = [pc EXCEPT ![current] = "exit"]
    /\ UNCHANGED <<queues, current, state, id, live, arg, thread_cnt, irq>>

\* _exit, up to the removal from the queue, ...
Exit ==
    /\ pc[current] = "user"
    /\ ready_queue' = rm_thread_task(ready_queue, current)
    /\ pc' = [pc EXCEPT ![current] = "exit"]
    /\ UNCHANGED <<zombie_queue, current, state, id, live, arg, thread_cnt, irq>>

\* Mutant: the thread is marked blocked.
ExitMarkBlocked ==
    /\ pc[current] = "exit"
    /\ state' = [state EXCEPT ![current] = "BLOCKED"]
    /\ pc' = [pc EXCEPT ![current] = "marked"]
    /\ UNCHANGED <<queues, current, id, live, arg, thread_cnt, irq>>

\* ... `curr->state = TASK_EXITED` ...
ExitMark ==
    /\ pc[current] = "exit"
    /\ state' = [state EXCEPT ![current] = "EXITED"]
    /\ pc' = [pc EXCEPT ![current] = "marked"]
    /\ UNCHANGED <<queues, current, id, live, arg, thread_cnt, irq>>

\* ... and the call of schedule, which must not return.
ExitSchedule ==
    /\ pc[current] = "marked"
    /\ schedule("gone", "user")
    /\ UNCHANGED <<id, live, arg, thread_cnt>>

\* _kill finds the task, ...
Kill(pid) ==
    /\ pc[current] = "user"
    /\ \E t \in get_thread_task_by_id(pid) : arg' = [arg EXCEPT ![current] = t]
    /\ pc' = [pc EXCEPT ![current] = "found"]
    /\ UNCHANGED <<queues, current, state, id, live, thread_cnt, irq>>

\* ... takes it off the ready queue ...
KillRemove ==
    /\ pc[current] = "found"
    /\ ready_queue' = rm_thread_task(ready_queue, arg[current])
    /\ pc' = [pc EXCEPT ![current] = "removed"]
    /\ UNCHANGED <<zombie_queue, current, state, id, live, arg, thread_cnt, irq>>

\* Mutant: a thread that kills itself is a zombie at once, while it runs.
KillMarkAlways ==
    /\ pc[current] = "removed"
    /\ state' = [state EXCEPT ![arg[current]] = "EXITED"]
    /\ pc' = [pc EXCEPT ![current] = IF arg[current] = current THEN "marked" ELSE "user"]
    /\ zombie_queue' = add_thread_task(zombie_queue, arg[current])
    /\ arg' = [arg EXCEPT ![current] = NULL]
    /\ UNCHANGED <<ready_queue, current, id, live, thread_cnt, irq>>

\* ... and marks it.  A thread that killed itself calls schedule next, any other
\* victim becomes a zombie here.
KillMark ==
    /\ pc[current] = "removed"
    /\ state' = [state EXCEPT ![arg[current]] = "EXITED"]
    /\ IF arg[current] = current
       THEN /\ pc' = [pc EXCEPT ![current] = "marked"]
            /\ zombie_queue' = zombie_queue
       ELSE /\ pc' = [pc EXCEPT ![current] = "user"]
            /\ zombie_queue' = add_thread_task(zombie_queue, arg[current])
    /\ arg' = [arg EXCEPT ![current] = NULL]
    /\ UNCHANGED <<ready_queue, current, id, live, thread_cnt, irq>>

-----------------------------------------------------------------------------
(* idle: `while (1) { kill_zombies(); schedule(); }` *)

\* kill_zombies takes a zombie off its queue ...
Reap ==
    /\ pc[current] = "reap" /\ zombie_queue # <<>>
    /\ arg' = [arg EXCEPT ![current] = Head(zombie_queue)]
    /\ zombie_queue' = Tail(zombie_queue)
    /\ pc' = [pc EXCEPT ![current] = "free"]
    /\ UNCHANGED <<ready_queue, current, state, id, live, thread_cnt, irq>>

\* Mutant: only the stacks are freed.
FreeZombieStacks ==
    /\ pc[current] = "free"
    /\ pc' = [pc EXCEPT ![current] = "reap"]
    /\ arg' = [arg EXCEPT ![current] = NULL]
    /\ UNCHANGED <<queues, current, state, id, live, thread_cnt, irq>>

\* ... and frees its stacks and its structure.
FreeZombie ==
    /\ pc[current] = "free"
    /\ live' = live \ {arg[current]}
    /\ pc' = [pc EXCEPT ![current] = "reap"]
    /\ arg' = [arg EXCEPT ![current] = NULL]
    /\ UNCHANGED <<queues, current, state, id, thread_cnt, irq>>

\* No zombie is left.
ReapDone ==
    /\ pc[current] = "reap" /\ zombie_queue = <<>>
    /\ pc' = [pc EXCEPT ![current] = "sched"]
    /\ UNCHANGED <<queues, current, state, id, live, arg, thread_cnt, irq>>

IdleSchedule ==
    /\ pc[current] = "sched"
    /\ schedule("switched", "reap")
    /\ UNCHANGED <<id, live, arg, thread_cnt>>

-----------------------------------------------------------------------------
\* The rest of a system call, and the loop of idle.
Step == \/ ExecEnter \/ ExitMark \/ ExitSchedule \/ KillRemove \/ KillMark
        \/ Reap \/ FreeZombie \/ ReapDone \/ IdleSchedule

\* What a thread may ask for, and main()'s start of the shell.
Call == \/ \E t \in Task : Fork(t) \/ ExecCreate(t)
        \/ ForkFails \/ Exit
        \/ \E pid \in Killable : Kill(pid)

Next == Tick \/ Step \/ Call

Spec == Init /\ [][Next]_vars

\* Code that runs goes on, and a timer interrupt stays pending until it is taken.
FairSpec == Spec /\ WF_vars(Step) /\ SF_vars(Tick)

-----------------------------------------------------------------------------
(* Properties *)

\* The task idle has taken off the zombie queue and not freed yet.
InHand == IF pc[Idle] = "free" THEN {arg[Idle]} ELSE {}

\* The tasks that are about to be killed.
Victims == {arg[t] : t \in {u \in live : pc[u] = "removed"}}

\* The types; thread_cnt stays within its bound.
TypeOK ==
    /\ ready_queue \in Seq(Task) /\ zombie_queue \in Seq(Task)
    /\ current \in Task
    /\ state \in [Task -> TaskStates]
    /\ id \in [Task -> Nat]
    /\ live \subseteq Task
    /\ pc \in [Task -> Points]
    /\ arg \in [Task -> Task \cup {NULL}]
    /\ thread_cnt \in 1 .. MaxThreads
    /\ irq \in BOOLEAN

\* A task is linked once: it has one next pointer, so being on a queue twice, or
\* on two queues, would cut both.
LinkedOnce ==
    /\ IsInjective(ready_queue) /\ IsInjective(zombie_queue)
    /\ Range(ready_queue) \cap Range(zombie_queue) = {}
    /\ InHand \cap (Range(ready_queue) \cup Range(zombie_queue)) = {}

\* The running thread, every thread that will be resumed and every zombie still
\* has its structure and stacks; what idle frees was not freed before and is
\* not the stack it, or anybody else, runs on.
NoUseAfterFree ==
    /\ current \in live
    /\ Range(ready_queue) \subseteq live
    /\ Range(zombie_queue) \cup InHand \subseteq live \ {current}

\* A thread in user mode or in the middle of a system call is the current one or
\* in the ready queue, unless it has been killed: none is forgotten.
NoThreadLost ==
    \A t \in live : pc[t] # "gone" =>
        t \in {current} \cup Range(ready_queue) \cup Range(zombie_queue) \cup InHand \cup Victims

\* schedule() decides by the state alone whether to queue the thread it leaves:
\* READY must mean queued already, whoever made it current.
StateMatchesQueue ==
    /\ \A t \in Range(ready_queue) : state[t] = "READY"
    /\ \A t \in Range(zombie_queue) \cup InHand : state[t] = "EXITED"
    /\ pc[current] \notin {"exit", "marked", "removed"} =>
          (state[current] = "READY") = (current \in Range(ready_queue))

\* A thread that has exited or was killed never runs again.
ExitedNeverRuns ==
    state[current] = "EXITED" => pc[current] = "marked"

\* idle is always there to switch to, so that the schedule() of _exit finds a
\* thread and zombies are freed.
IdleAvailable == current = Idle \/ Idle \in Range(ready_queue)

\* kill_zombies does not protect its queue; it never has to, because idle runs
\* with interrupts masked whenever anything is queued.
ReapIsMasked ==
    current = Idle /\ irq => zombie_queue = <<>> /\ ready_queue = <<>> /\ pc[Idle] # "free"

\* A program is entered in user mode by the call that created its thread; the
\* scheduler never starts it in kernel mode, and never resumes a thread that
\* another one has replaced.
RunsInUserMode == pc[current] \notin {"fresh", "gone"}

\* The ready queue is first in, first out: two threads that wait never change
\* places.
NoOvertaking ==
    [][\A a, b \in Task :
         \A i, j \in DOMAIN ready_queue :
           /\ i < j /\ ready_queue[i] = a /\ ready_queue[j] = b
           /\ a \in Range(ready_queue')
           /\ b \in Range(ready_queue')
           => \E k, m \in DOMAIN ready_queue' :
                k < m /\ ready_queue'[k] = a /\ ready_queue'[m] = b]_vars

\* Every thread that waits for the processor gets it, or is killed.
EveryThreadRuns ==
    \A t \in Task : (t \in Range(ready_queue)) ~> (t = current \/ state[t] = "EXITED")

\* The memory of a zombie is freed by idle.
ZombiesReaped ==
    \A t \in Task : (t \in Range(zombie_queue)) ~> (t \notin live)

-----------------------------------------------------------------------------
(***************************************************************************)
(* The inductive invariant (proved in SchedProofs).  It holds if the timer *)
(* strikes inside no system call but _exit, nobody kills idle, and no      *)
(* thread calls exec before it was interrupted once.                       *)
(***************************************************************************)
Guarded == Windows \subseteq {"exit", "marked"} /\ 0 \notin Killable /\ ~ EarlyExec

IdlePoints == {"reap", "free", "sched"}

\* idle is in its loop exactly when it is current, and is never a victim.
IdleInv ==
    /\ Idle \in live /\ id[Idle] = 0
    /\ current = Idle => pc[Idle] \in IdlePoints /\ state[Idle] = "RUNNING"
    /\ current # Idle => pc[Idle] = "switched" /\ Idle \in Range(ready_queue)
    /\ pc[Idle] = "sched" => zombie_queue = <<>>
    /\ \A t \in Task \ {Idle} : pc[t] \notin IdlePoints \cup {"switched"}

\* main() is alone with idle until it starts the shell, and is then forgotten;
\* every other thread has a pid above 0.
BootInv ==
    /\ BootTask \in live /\ pc[BootTask] \in {"boot", "enter", "gone"}
    /\ pc[BootTask] = "boot" => live = {BootTask, Idle}
    /\ BootTask \in Range(ready_queue) => pc[BootTask] = "boot"
    /\ BootTask \notin Range(zombie_queue) \cup InHand
    /\ \A t \in live \ {Idle, BootTask} : id[t] > 0

\* The points where a thread waits.
WaitingInv ==
    \A t \in Range(ready_queue) : t # current =>
        \/ pc[t] \in {"boot", "user", "exit", "switched"}
        \/ pc[current] = "enter" /\ t = arg[current]

\* What the current thread knows at each point.
CurrentInv ==
    /\ pc[current] \notin {"fresh", "gone", "switched"}
    /\ pc[current] # "marked" => state[current] # "EXITED"
    /\ pc[current] \in {"exit", "marked"} => current \notin Range(ready_queue)
    /\ pc[current] = "marked" => state[current] = "EXITED"
    /\ pc[current] = "enter" =>
          /\ arg[current] \in Range(ready_queue) \ {Idle, BootTask, current}
          /\ state[current] = "RUNNING"
    /\ pc[current] = "found" => arg[current] \in Range(ready_queue) \ {Idle, BootTask}
    /\ pc[current] = "removed" =>
          /\ arg[current] \in live \ {Idle, BootTask}
          /\ arg[current] \notin Range(ready_queue) \cup Range(zombie_queue)
    /\ pc[current] \notin {"exit", "marked"} =>
          \/ (state[current] = "READY") = (current \in Range(ready_queue))
          \/ pc[current] = "removed" /\ arg[current] = current

SInv ==
    /\ TypeOK /\ LinkedOnce /\ NoUseAfterFree /\ StateMatchesQueue
    /\ IdleInv /\ BootInv /\ WaitingInv /\ CurrentInv /\ ReapIsMasked
=============================================================================
