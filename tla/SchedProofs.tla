----------------------------- MODULE SchedProofs -----------------------------
(***************************************************************************)
(* The queue discipline of the scheduler, for every number of threads.     *)
(***************************************************************************)
EXTENDS Sched, TLAPS

-----------------------------------------------------------------------------
(* What the queue operations return *)

\* A task added at the end.
LEMMA AppendFacts ==
    ASSUME NEW S, NEW q \in Seq(S), NEW t \in S
    PROVE  /\ Append(q, t) \in Seq(S) /\ Append(q, t) # <<>>
           /\ Range(Append(q, t)) = Range(q) \cup {t}
           /\ IsInjective(q) /\ t \notin Range(q) => IsInjective(Append(q, t))
           /\ q # <<>> => Head(Append(q, t)) = Head(q)
<1>1. /\ Append(q, t) \in Seq(S) /\ Append(q, t) # <<>>
      /\ Len(Append(q, t)) = Len(q) + 1 /\ Len(q) \in Nat
      /\ DOMAIN q = 1 .. Len(q) /\ DOMAIN Append(q, t) = 1 .. Len(q) + 1
      /\ \A i \in 1 .. Len(q) : Append(q, t)[i] = q[i]
      /\ Append(q, t)[Len(q) + 1] = t
  OBVIOUS
<1>2. Range(Append(q, t)) = Range(q) \cup {t}
  <2>1. ASSUME NEW x \in Range(Append(q, t)) PROVE x \in Range(q) \cup {t}
    <3>1. PICK i \in 1 .. Len(q) + 1 : x = Append(q, t)[i]
      BY <1>1, <2>1 DEF Range
    <3>2. i \in 1 .. Len(q) \/ i = Len(q) + 1
      BY <1>1, <3>1
    <3> QED
      BY <3>1, <3>2, <1>1 DEF Range
  <2>2. ASSUME NEW x \in Range(q) PROVE x \in Range(Append(q, t))
    <3>1. PICK i \in 1 .. Len(q) : x = q[i]
      BY <1>1, <2>2 DEF Range
    <3>2. i \in 1 .. Len(q) + 1 /\ x = Append(q, t)[i]
      BY <1>1, <3>1
    <3> QED
      BY <3>2, <1>1 DEF Range
  <2>3. t \in Range(Append(q, t))
    <3>1. Len(q) + 1 \in 1 .. Len(q) + 1
      BY <1>1
    <3> QED
      BY <3>1, <1>1 DEF Range
  <2> QED
    BY <2>1, <2>2, <2>3
<1>3. ASSUME IsInjective(q), t \notin Range(q) PROVE IsInjective(Append(q, t))
  <2> SUFFICES ASSUME NEW i \in 1 .. Len(q) + 1, NEW j \in 1 .. Len(q) + 1,
                      Append(q, t)[i] = Append(q, t)[j]
               PROVE  i = j
    BY <1>1 DEF IsInjective
  <2>1. \A k \in 1 .. Len(q) : q[k] # t
    BY <1>3, <1>1 DEF Range
  <2>2. (i \in 1 .. Len(q) \/ i = Len(q) + 1) /\ (j \in 1 .. Len(q) \/ j = Len(q) + 1)
    BY <1>1
  <2> QED
    BY <2>1, <2>2, <1>1, <1>3 DEF IsInjective
<1>4. q # <<>> => Head(Append(q, t)) = Head(q)
  OBVIOUS
<1> QED
  BY <1>1, <1>2, <1>3, <1>4

\* The first task taken off.
LEMMA TailFacts ==
    ASSUME NEW S, NEW q \in Seq(S), q # <<>>
    PROVE  /\ Head(q) \in S /\ Head(q) \in Range(q) /\ Tail(q) \in Seq(S)
           /\ Range(Tail(q)) \subseteq Range(q)
           /\ IsInjective(q) =>
                 IsInjective(Tail(q)) /\ Range(Tail(q)) = Range(q) \ {Head(q)}
<1>1. /\ Len(q) \in Nat \ {0} /\ DOMAIN q = 1 .. Len(q) /\ Head(q) = q[1]
      /\ Head(q) \in S /\ Tail(q) \in Seq(S) /\ DOMAIN Tail(q) = 1 .. Len(q) - 1
      /\ \A i \in 1 .. Len(q) - 1 : Tail(q)[i] = q[i + 1]
  OBVIOUS
<1>2. Head(q) \in Range(q)
  BY <1>1 DEF Range
<1>3. Range(Tail(q)) \subseteq Range(q)
  BY <1>1 DEF Range
<1>4. ASSUME IsInjective(q) PROVE IsInjective(Tail(q))
  BY <1>1, <1>4 DEF IsInjective
<1>5. ASSUME IsInjective(q) PROVE Head(q) \notin Range(Tail(q))
  BY <1>1, <1>5 DEF IsInjective, Range
<1>6. ASSUME NEW x \in Range(q), x # Head(q) PROVE x \in Range(Tail(q))
  <2>1. PICK i \in 1 .. Len(q) : x = q[i]
    BY <1>1 DEF Range
  <2>2. i - 1 \in 1 .. Len(q) - 1 /\ (i - 1) + 1 = i
    BY <2>1, <1>1, <1>6
  <2>3. x = Tail(q)[i - 1]
    BY <2>1, <2>2, <1>1
  <2> QED
    BY <2>2, <2>3, <1>1 DEF Range
<1> QED
  BY <1>1, <1>2, <1>3, <1>4, <1>5, <1>6

\* A task that is linked at most once is unlinked.
LEMMA RemoveFacts ==
    ASSUME NEW S, NEW q \in Seq(S), NEW t, IsInjective(q)
    PROVE  /\ rm_thread_task(q, t) \in Seq(S)
           /\ Range(rm_thread_task(q, t)) = Range(q) \ {t}
           /\ IsInjective(rm_thread_task(q, t))
<1>1. CASE t \notin Range(q)
  BY <1>1 DEF rm_thread_task
<1>2. CASE t \in Range(q)
  <2> DEFINE First(i) == q[i] = t /\ \A j \in 1 .. i - 1 : q[j] # t
             i == CHOOSE k \in DOMAIN q : First(k)
             r == [j \in 1 .. Len(q) - 1 |-> IF j < i THEN q[j] ELSE q[j + 1]]
  <2>1. Len(q) \in Nat /\ DOMAIN q = 1 .. Len(q)
    OBVIOUS
  <2>2. PICK k \in 1 .. Len(q) : q[k] = t
    BY <1>2, <2>1 DEF Range
  <2>3. First(k)
    BY <2>1, <2>2 DEF IsInjective
  <2>4. i \in 1 .. Len(q) /\ q[i] = t
    BY <2>1, <2>3
  <2>5. rm_thread_task(q, t) = r
    BY <1>2 DEF rm_thread_task
  <2> HIDE DEF i
  <2>6. r \in Seq(S) /\ DOMAIN r = 1 .. Len(q) - 1
    <3>1. Len(q) - 1 \in Nat
      BY <2>1, <2>4
    <3>2. \A j \in 1 .. Len(q) - 1 : r[j] \in S
      BY <2>1
    <3> QED
      BY <3>1, <3>2
  <2>7. \A j \in 1 .. Len(q) - 1 :
           r[j] = q[IF j < i THEN j ELSE j + 1]
    OBVIOUS
  <2>8. Range(r) \subseteq Range(q) \ {t}
    <3> SUFFICES ASSUME NEW j \in 1 .. Len(q) - 1 PROVE r[j] \in Range(q) \ {t}
      BY <2>6 DEF Range
    <3> DEFINE m == IF j < i THEN j ELSE j + 1
    <3>1. m \in 1 .. Len(q) /\ m # i
      BY <2>1, <2>4
    <3>2. q[m] # t
      BY <3>1, <2>1, <2>4 DEF IsInjective
    <3> QED
      BY <3>1, <3>2, <2>1, <2>7 DEF Range
  <2>9. Range(q) \ {t} \subseteq Range(r)
    <3> SUFFICES ASSUME NEW m \in 1 .. Len(q), q[m] # t PROVE q[m] \in Range(r)
      BY <2>1 DEF Range
    <3>1. CASE m < i
      <4>1. m \in 1 .. Len(q) - 1 /\ r[m] = q[m]
        BY <3>1, <2>1, <2>4
      <4> QED
        BY <4>1, <2>6 DEF Range
    <3>2. CASE m > i
      <4>1. m - 1 \in 1 .. Len(q) - 1 /\ r[m - 1] = q[m]
        BY <3>2, <2>1, <2>4
      <4> QED
        BY <4>1, <2>6 DEF Range
    <3>3. m # i
      BY <2>4
    <3> QED
      BY <3>1, <3>2, <3>3, <2>1, <2>4
  <2>10. IsInjective(r)
    <3> SUFFICES ASSUME NEW a \in 1 .. Len(q) - 1, NEW b \in 1 .. Len(q) - 1, r[a] = r[b]
                 PROVE  a = b
      BY <2>6 DEF IsInjective
    <3> DEFINE m == IF a < i THEN a ELSE a + 1
               n == IF b < i THEN b ELSE b + 1
    <3>1. m \in 1 .. Len(q) /\ n \in 1 .. Len(q)
      BY <2>1, <2>4
    <3>2. q[m] = q[n]
      BY <2>7
    <3>3. m = n
      BY <3>1, <3>2, <2>1 DEF IsInjective
    <3> QED
      BY <3>3, <2>1, <2>4
  <2> QED
    BY <2>5, <2>6, <2>8, <2>9, <2>10
<1> QED
  BY <1>1, <1>2

\* Tasks are queued.
LEMMA RangeInTask ==
    ASSUME NEW S, NEW q \in Seq(S)
    PROVE  Range(q) \subseteq S /\ Range(<<>>) = {} /\ (Range(q) = {} => q = <<>>)
<1>1. Len(q) \in Nat /\ DOMAIN q = 1 .. Len(q) /\ \A i \in 1 .. Len(q) : q[i] \in S
  OBVIOUS
<1>2. Range(<<>>) = {}
  BY DEF Range
<1>3. ASSUME q # <<>> PROVE Range(q) # {}
  <2>1. 1 \in DOMAIN q
    BY <1>1, <1>3
  <2> QED
    BY <2>1 DEF Range
<1> QED
  BY <1>1, <1>2, <1>3 DEF Range

-----------------------------------------------------------------------------
(* Every step keeps the invariant *)

\* schedule() switches from the current thread to the head of the queue.
LEMMA SwitchInv ==
    ASSUME SInv, OtherReady, NEW saved \in Points, NEW back,
           schedule(saved, back), UNCHANGED <<id, live, arg, thread_cnt>>,
           pc[current] \notin {"enter", "found", "removed"},
           current = Idle => saved = "switched" /\ pc[Idle] = "sched",
           current # Idle => saved \in {"boot", "user", "exit", "marked", "gone"},
           current # Idle /\ state[current] # "EXITED" => saved = pc[current],
           current = BootTask => saved = pc[current]
    PROVE  SInv'
<1> DEFINE R == Range(ready_queue)
           Z == Range(zombie_queue)
           next == Head(ready_queue)
           was == state[current]
           longer == IF was = "RUNNING" THEN Append(ready_queue, current) ELSE ready_queue
<1>1. /\ TypeOK /\ LinkedOnce /\ NoUseAfterFree /\ StateMatchesQueue
      /\ IdleInv /\ BootInv /\ WaitingInv /\ CurrentInv /\ ReapIsMasked
  BY DEF SInv
<1>2. /\ ready_queue # <<>> /\ next # current
      /\ ready_queue' = Tail(longer)
      /\ zombie_queue' = IF was = "EXITED" THEN Append(zombie_queue, current) ELSE zombie_queue
      /\ state' = [state EXCEPT ![current] = IF was = "RUNNING" THEN "READY" ELSE was,
                                ![next] = "RUNNING"]
      /\ current' = next
      /\ pc' = [pc EXCEPT ![current] = saved,
                          ![next] = IF @ = "switched" THEN "reap" ELSE @]
      /\ irq' = (pc[next] \notin {"switched", "fresh"})
      /\ UNCHANGED <<id, live, arg, thread_cnt>>
  BY DEF schedule, switch, stay, Requeued, Unmasks, OtherReady, add_thread_task
<1>3. /\ current \in Task /\ was \in TaskStates /\ ready_queue \in Seq(Task)
      /\ zombie_queue \in Seq(Task) /\ state \in [Task -> TaskStates] /\ pc \in [Task -> Points]
      /\ IsInjective(ready_queue) /\ IsInjective(zombie_queue) /\ R \cap Z = {}
      /\ current \in live /\ R \subseteq live /\ current \notin Z
  BY <1>1 DEF TypeOK, LinkedOnce, NoUseAfterFree
<1>4. was = "RUNNING" => current \notin R
  BY <1>1 DEF StateMatchesQueue
<1>5. next \in R /\ next \in Task
  BY <1>2, <1>3, TailFacts, Zenon
<1>6. longer \in Seq(Task) /\ longer # <<>> /\ IsInjective(longer) /\ Head(longer) = next
      /\ Range(longer) = IF was = "RUNNING" THEN R \cup {current} ELSE R
  <2>1. CASE was = "RUNNING"
    <3>1. longer = Append(ready_queue, current)
      BY <2>1
    <3>2. /\ Append(ready_queue, current) \in Seq(Task) /\ Append(ready_queue, current) # <<>>
          /\ Range(Append(ready_queue, current)) = R \cup {current}
          /\ IsInjective(Append(ready_queue, current))
          /\ Head(Append(ready_queue, current)) = next
      <4>1. current \in Task /\ ready_queue \in Seq(Task) /\ IsInjective(ready_queue)
            /\ current \notin Range(ready_queue) /\ ready_queue # <<>>
        BY <2>1, <1>2, <1>3, <1>4
      <4> QED
        BY <4>1, AppendFacts
    <3> HIDE DEF longer, was, next, R
    <3> QED
      BY <2>1, <3>1, <3>2
  <2>2. CASE was # "RUNNING"
    BY <2>2, <1>2, <1>3
  <2> QED
    BY <2>1, <2>2
<1>7. /\ ready_queue' \in Seq(Task) /\ IsInjective(ready_queue')
      /\ R' = (IF was = "RUNNING" THEN R \cup {current} ELSE R) \ {next}
  <2> HIDE DEF longer, next
  <2> QED
    BY <1>2, <1>6, TailFacts, Zenon
<1>8. /\ zombie_queue' \in Seq(Task) /\ IsInjective(zombie_queue')
      /\ Z' = IF was = "EXITED" THEN Z \cup {current} ELSE Z
  <2>1. CASE was = "EXITED"
    <3>1. zombie_queue' = Append(zombie_queue, current)
      BY <2>1, <1>2
    <3>2. /\ Append(zombie_queue, current) \in Seq(Task)
          /\ Range(Append(zombie_queue, current)) = Z \cup {current}
          /\ IsInjective(Append(zombie_queue, current))
      <4>1. current \in Task /\ zombie_queue \in Seq(Task) /\ IsInjective(zombie_queue)
            /\ current \notin Range(zombie_queue)
        BY <1>3
      <4> QED
        BY <4>1, AppendFacts
    <3> HIDE DEF was
    <3> QED
      BY <2>1, <3>1, <3>2
  <2>2. CASE was # "EXITED"
    BY <2>2, <1>2, <1>3
  <2> QED
    BY <2>1, <2>2
<1>9. /\ state'[next] = "RUNNING"
      /\ state'[current] = IF was = "RUNNING" THEN "READY" ELSE was
      /\ \A t \in Task \ {current, next} : state'[t] = state[t]
      /\ pc'[current] = saved /\ pc'[next] = IF pc[next] = "switched" THEN "reap" ELSE pc[next]
      /\ \A t \in Task \ {current, next} : pc'[t] = pc[t]
  BY <1>2, <1>3, <1>5
<1>10. was = "EXITED" => current \notin R
  BY <1>1 DEF StateMatchesQueue
<1>11. /\ pc[next] \in {"boot", "user", "exit", "switched"}
       /\ (pc[next] = "switched") = (next = Idle)
       /\ pc'[next] \in {"boot", "user", "exit", "reap"}
       /\ irq' = (next # Idle)
  <2>1. pc[next] \in {"boot", "user", "exit", "switched"}
    BY <1>1, <1>2, <1>5 DEF WaitingInv
  <2>2. (pc[next] = "switched") = (next = Idle)
    BY <1>1, <1>2, <1>5 DEF IdleInv
  <2> QED
    BY <2>1, <2>2, <1>2, <1>9
<1> HIDE DEF next, was, longer
<1>12. TypeOK'
  <2>1. state' \in [Task -> TaskStates] /\ pc' \in [Task -> Points]
    BY <1>2, <1>3, <1>5 DEF TaskStates, Points
  <2>2. irq' \in BOOLEAN
    BY <1>11
  <2> QED
    BY <2>1, <2>2, <1>1, <1>2, <1>5, <1>7, <1>8 DEF TypeOK
<1>13. InHand = {} /\ InHand' = {}
  <2>1. pc[Idle] # "free"
    BY <1>1 DEF IdleInv
  <2>2. pc'[Idle] # "free"
    BY <2>1, <1>9, <1>11, TaskAssumption
  <2> QED
    BY <2>1, <2>2 DEF InHand
<1>14. LinkedOnce'
  BY <1>7, <1>8, <1>3, <1>4, <1>10, <1>13 DEF LinkedOnce
<1>15. NoUseAfterFree'
  BY <1>1, <1>2, <1>3, <1>5, <1>7, <1>8, <1>13 DEF NoUseAfterFree
<1>16. StateMatchesQueue'
  <2>0. R \subseteq Task /\ Z \subseteq Task
    BY <1>1, RangeInTask DEF TypeOK
  <2>1. ASSUME NEW t \in R' PROVE state'[t] = "READY"
    <3>1. CASE t = current
      <4>1. was # "EXITED"
        BY <3>1, <1>7, <1>10
      <4> QED
        BY <3>1, <4>1, <1>3, <1>9 DEF TaskStates
    <3>2. CASE t # current
      <4>1. t \in R /\ t # next
        BY <3>2, <1>7
      <4> QED
        BY <3>2, <4>1, <2>0, <1>1, <1>9 DEF StateMatchesQueue
    <3> QED
      BY <3>1, <3>2
  <2>2. ASSUME NEW t \in Z' PROVE state'[t] = "EXITED"
    <3>1. CASE t = current
      <4>1. was = "EXITED"
        BY <3>1, <1>3, <1>8
      <4> QED
        BY <3>1, <4>1, <1>9
    <3>2. CASE t # current
      <4>1. t \in Z
        BY <3>2, <1>8
      <4>2. t # next
        BY <4>1, <1>3, <1>5
      <4> QED
        BY <3>2, <4>1, <4>2, <2>0, <1>1, <1>9 DEF StateMatchesQueue
    <3> QED
      BY <3>1, <3>2
  <2>3. state'[current'] # "READY" /\ current' \notin R'
    BY <1>2, <1>7, <1>9
  <2> QED
    BY <2>1, <2>2, <2>3, <1>13 DEF StateMatchesQueue
<1>17. IdleInv'
  <2>1. Idle \in Task /\ Idle \in live' /\ id'[Idle] = 0
    BY <1>1, <1>2, TaskAssumption DEF IdleInv
  <2>2. current' = Idle => pc'[Idle] \in IdlePoints /\ state'[Idle] = "RUNNING"
    BY <1>2, <1>9, <1>11 DEF IdlePoints
  <2>3. ASSUME current' # Idle PROVE pc'[Idle] = "switched" /\ Idle \in R'
    <3>1. CASE current = Idle
      BY <3>1, <2>3, <1>1, <1>2, <1>7, <1>9 DEF IdleInv, was
    <3>2. CASE current # Idle
      BY <3>2, <2>1, <2>3, <1>1, <1>2, <1>7, <1>9 DEF IdleInv
    <3> QED
      BY <3>1, <3>2
  <2>4. pc'[Idle] # "sched"
    BY <2>1, <2>3, <1>2, <1>9, <1>11
  <2>5. ASSUME NEW t \in Task \ {Idle} PROVE pc'[t] \notin IdlePoints \cup {"switched"}
    <3>1. CASE t = current
      BY <3>1, <1>9 DEF IdlePoints
    <3>2. CASE t = next
      BY <3>2, <1>9, <1>11 DEF IdlePoints
    <3>3. CASE t # current /\ t # next
      BY <3>3, <1>1, <1>9 DEF IdleInv
    <3> QED
      BY <3>1, <3>2, <3>3
  <2> QED
    BY <2>1, <2>2, <2>3, <2>4, <2>5 DEF IdleInv
<1>18. BootInv'
  <2>1. BootTask \in Task /\ BootTask # Idle /\ BootTask \in live
        /\ pc[BootTask] \in {"boot", "enter", "gone"}
    BY <1>1, TaskAssumption DEF BootInv
  <2>2. pc'[BootTask] = pc[BootTask]
    BY <2>1, <1>9, <1>11
  <2>3. BootTask \in R' => pc[BootTask] = "boot"
    BY <2>1, <1>1, <1>7 DEF BootInv, CurrentInv
  <2>4. BootTask \notin Z'
    BY <2>1, <1>1, <1>8 DEF BootInv, CurrentInv, was
  <2> QED
    BY <2>1, <2>2, <2>3, <2>4, <1>1, <1>2, <1>13 DEF BootInv
<1>19. WaitingInv'
  <2> SUFFICES ASSUME NEW t \in R', t # next
               PROVE  pc'[t] \in {"boot", "user", "exit", "switched"}
    BY <1>2 DEF WaitingInv
  <2>1. t \in Task
    BY <1>1, <1>3, <1>7 DEF TypeOK, NoUseAfterFree
  <2>2. CASE t = current
    <3>1. was # "EXITED"
      BY <2>2, <1>7, <1>10
    <3>2. CASE current = Idle
      BY <2>2, <3>2, <1>9
    <3>3. CASE current # Idle
      <4>1. pc'[t] = pc[current]
        BY <2>2, <3>1, <3>3, <1>9 DEF was
      <4>2. pc[current] # "marked" /\ pc[current] # "gone"
        BY <3>1, <1>1 DEF CurrentInv, was
      <4> QED
        BY <4>1, <4>2, <2>2, <3>3, <3>1, <1>9
    <3> QED
      BY <3>2, <3>3
  <2>3. CASE t # current
    <3>1. t \in R
      BY <2>3, <1>7
    <3>2. pc[t] \in {"boot", "user", "exit", "switched"}
      BY <2>3, <3>1, <1>1 DEF WaitingInv
    <3> QED
      BY <3>2, <2>1, <2>3, <1>9
  <2> QED
    BY <2>2, <2>3
<1>20. CurrentInv'
  <2>1. current' \notin R' /\ state'[current'] = "RUNNING"
        /\ pc'[current'] \in {"boot", "user", "exit", "reap"}
    BY <1>2, <1>7, <1>9, <1>11
  <2> QED
    BY <2>1 DEF CurrentInv
<1>21. ReapIsMasked'
  BY <1>2, <1>11 DEF ReapIsMasked
<1> QED
  BY <1>12, <1>14, <1>15, <1>16, <1>17, <1>18, <1>19, <1>20, <1>21 DEF SInv

\* Nothing the invariant speaks of changes.
LEMMA StutterInv ==
    ASSUME SInv, UNCHANGED vars
    PROVE  SInv'
  BY DEF SInv, vars, queues, TypeOK, LinkedOnce, NoUseAfterFree, StateMatchesQueue, IdleInv,
         BootInv, WaitingInv, CurrentInv, ReapIsMasked, InHand

\* A thread in a system call is not idle: idle waits in the ready queue, and
\* holds no zombie.
LEMMA NotIdle ==
    ASSUME SInv, pc[current] \notin IdlePoints
    PROVE  /\ current # Idle /\ pc[Idle] = "switched" /\ Idle \in Range(ready_queue)
           /\ InHand = {} /\ ready_queue # <<>>
<1>1. current # Idle
  BY DEF SInv, IdleInv
<1>2. pc[Idle] = "switched" /\ Idle \in Range(ready_queue)
  BY <1>1 DEF SInv, IdleInv
<1>3. ready_queue # <<>>
  BY <1>2, RangeInTask DEF SInv, TypeOK
<1> QED
  BY <1>1, <1>2, <1>3 DEF InHand

\* idle is the current thread at its own points, and not in the ready queue.
LEMMA IsIdle ==
    ASSUME SInv, pc[current] \in IdlePoints
    PROVE  current = Idle /\ state[Idle] = "RUNNING" /\ Idle \notin Range(ready_queue)
<1>1. current = Idle
  BY DEF SInv, IdleInv, TypeOK
<1>2. state[Idle] = "RUNNING"
  BY <1>1 DEF SInv, IdleInv
<1> QED
  BY <1>1, <1>2 DEF SInv, StateMatchesQueue

\* The timer strikes, and the thread it interrupts goes to the end of the queue.
LEMMA TickInv ==
    ASSUME SInv, Guarded, Tick
    PROVE  SInv'
<1>1. pc[current] \notin {"enter", "found", "removed"} /\ irq
  BY DEF Tick, Guarded, KernelPoints
<1>2. CASE ~ OtherReady
  <2>1. UNCHANGED vars
    BY <1>1, <1>2 DEF Tick, schedule, stay, switch, vars, queues, SInv, TypeOK
  <2> QED
    BY <2>1, StutterInv
<1>3. CASE OtherReady
  <2>1. current # Idle
    BY <1>1, <1>3 DEF SInv, ReapIsMasked, OtherReady
  <2>2. pc[current] \in Points
    BY DEF SInv, TypeOK
  <2>3. pc[current] \notin IdlePoints \cup {"fresh", "gone", "switched"}
    BY <2>1 DEF SInv, IdleInv, CurrentInv, TypeOK
  <2>4. pc[current] \in {"boot", "user", "exit", "marked"}
    BY <1>1, <2>2, <2>3 DEF Points, KernelPoints, IdlePoints
  <2> QED
    BY <1>1, <1>3, <2>1, <2>2, <2>4, SwitchInv DEF Tick
<1> QED
  BY <1>2, <1>3

\* _exit always finds a thread to switch to: idle waits in the queue.
LEMMA ExitScheduleInv ==
    ASSUME SInv, ExitSchedule
    PROVE  SInv'
<1>1. pc[current] = "marked" /\ current \notin Range(ready_queue)
      /\ state[current] = "EXITED"
  BY DEF ExitSchedule, SInv, CurrentInv
<1>2. current # Idle /\ ready_queue # <<>>
  BY <1>1, NotIdle DEF IdlePoints
<1>3. OtherReady
  <2>1. Head(ready_queue) \in Range(ready_queue)
    BY <1>2, TailFacts DEF SInv, TypeOK
  <2> QED
    BY <1>1, <1>2, <2>1 DEF OtherReady
<1>4. current # BootTask
  BY <1>1 DEF SInv, BootInv
<1> QED
  BY <1>1, <1>2, <1>3, <1>4, SwitchInv DEF ExitSchedule, Points

\* idle switches away, or finds the queue empty and loops.
LEMMA IdleScheduleInv ==
    ASSUME SInv, IdleSchedule
    PROVE  SInv'
<1>1. pc[current] = "sched" /\ current = Idle /\ state[Idle] = "RUNNING"
      /\ Idle \notin Range(ready_queue) /\ current # BootTask
  BY IsIdle, TaskAssumption DEF IdleSchedule, IdlePoints
<1>2. CASE OtherReady
  BY <1>1, <1>2, SwitchInv DEF IdleSchedule, Points
<1>3. CASE ~ OtherReady
  <2>1. ready_queue = <<>> /\ zombie_queue = <<>>
    <3>1. ready_queue # <<>> => Head(ready_queue) \in Range(ready_queue)
      BY TailFacts DEF SInv, TypeOK
    <3> QED
      BY <1>1, <1>3, <3>1 DEF OtherReady, SInv, IdleInv
  <2>2. /\ pc' = [pc EXCEPT ![current] = "reap"] /\ irq' = TRUE
        /\ UNCHANGED <<ready_queue, zombie_queue, current, state, id, live, arg, thread_cnt>>
    BY <1>3 DEF IdleSchedule, schedule, stay, switch, queues
  <2>3. /\ TypeOK /\ LinkedOnce /\ NoUseAfterFree /\ StateMatchesQueue
        /\ IdleInv /\ BootInv /\ WaitingInv /\ CurrentInv /\ ReapIsMasked
    BY DEF SInv
  <2>4. pc'[Idle] = "reap" /\ \A t \in Task \ {Idle} : pc'[t] = pc[t]
    BY <1>1, <2>2, <2>3 DEF TypeOK
  <2>5. InHand' = {} /\ Range(ready_queue) = {} /\ Range(zombie_queue) = {}
    BY <2>1, <2>4 DEF InHand, Range
  <2>6. TypeOK'
    BY <2>2, <2>3 DEF TypeOK, Points
  <2>7. LinkedOnce' /\ NoUseAfterFree'
    BY <2>2, <2>3, <2>5 DEF LinkedOnce, NoUseAfterFree
  <2>8. StateMatchesQueue'
    BY <1>1, <2>2, <2>5 DEF StateMatchesQueue
  <2>9. IdleInv'
    BY <1>1, <2>2, <2>3, <2>4 DEF IdleInv, IdlePoints
  <2>10. BootInv'
    BY <2>2, <2>3, <2>4, <2>5, TaskAssumption DEF BootInv
  <2>11. WaitingInv' /\ CurrentInv'
    BY <1>1, <2>2, <2>4, <2>5 DEF WaitingInv, CurrentInv
  <2>12. ReapIsMasked'
    BY <2>1, <2>2, <2>4 DEF ReapIsMasked
  <2> QED
    BY <2>6, <2>7, <2>8, <2>9, <2>10, <2>11, <2>12 DEF SInv
<1> QED
  BY <1>2, <1>3

\* A new thread joins the ready queue: what fork and exec have in common.
LEMMA CreateFacts ==
    ASSUME SInv, NEW t \in Task \ live, NEW where \in [Task -> Points], create(t, where),
           pc[current] \in {"user", "boot"}, thread_cnt < MaxThreads
    PROVE  /\ t \notin {current, Idle, BootTask}
           /\ t \notin Range(ready_queue) \cup Range(zombie_queue)
           /\ ready_queue' \in Seq(Task) /\ IsInjective(ready_queue')
           /\ Range(ready_queue') = Range(ready_queue) \cup {t}
           /\ state' \in [Task -> TaskStates] /\ state'[t] = "READY"
           /\ \A u \in Task \ {t} : state'[u] = state[u] /\ id'[u] = id[u] /\ pc'[u] = where[u]
           /\ id' \in [Task -> Nat] /\ id'[t] > 0
           /\ pc' \in [Task -> Points]
           /\ pc'[t] = (IF where[current] = "enter" THEN "fresh" ELSE "user")
           /\ thread_cnt' \in 1 .. MaxThreads
           /\ live' = live \cup {t}
<1>1. TypeOK /\ NoUseAfterFree /\ LinkedOnce /\ IdleInv /\ BootInv
  BY DEF SInv
<1>2. t \notin {current, Idle, BootTask} /\ t \notin Range(ready_queue) \cup Range(zombie_queue)
  BY <1>1 DEF NoUseAfterFree, IdleInv, BootInv
<1>3. ready_queue' = Append(ready_queue, t)
  BY DEF create, add_thread_task
<1>4. /\ ready_queue' \in Seq(Task) /\ IsInjective(ready_queue')
      /\ Range(ready_queue') = Range(ready_queue) \cup {t}
  BY <1>1, <1>2, <1>3, AppendFacts DEF TypeOK, LinkedOnce
<1>5. thread_cnt' \in 1 .. MaxThreads /\ thread_cnt \in Nat /\ thread_cnt > 0
  BY <1>1, TaskAssumption DEF TypeOK, create
<1>6. /\ state' \in [Task -> TaskStates] /\ state'[t] = "READY"
      /\ \A u \in Task \ {t} : state'[u] = state[u]
  BY <1>1 DEF TypeOK, create, TaskStates
<1>7. /\ id' \in [Task -> Nat] /\ id'[t] > 0
      /\ \A u \in Task \ {t} : id'[u] = id[u]
  BY <1>1, <1>5 DEF TypeOK, create
<1>8. /\ pc' \in [Task -> Points]
      /\ pc'[t] = (IF where[current] = "enter" THEN "fresh" ELSE "user")
      /\ \A u \in Task \ {t} : pc'[u] = where[u]
  BY DEF create, Points
<1> QED
  BY <1>2, <1>4, <1>5, <1>6, <1>7, <1>8 DEF create

\* fork queues a new thread.
LEMMA ForkInv ==
    ASSUME SInv, NEW t \in Task, Fork(t)
    PROVE  SInv'
<1>1. /\ TypeOK /\ LinkedOnce /\ NoUseAfterFree /\ StateMatchesQueue
      /\ IdleInv /\ BootInv /\ WaitingInv /\ CurrentInv /\ ReapIsMasked
  BY DEF SInv
<1>2. pc[current] = "user" /\ t \in Task \ live /\ pc \in [Task -> Points]
      /\ UNCHANGED <<zombie_queue, current, irq>> /\ arg' = [arg EXCEPT ![t] = NULL]
      /\ create(t, pc) /\ thread_cnt < MaxThreads
  BY <1>1 DEF Fork, TypeOK
<1>3. /\ t \notin {current, Idle, BootTask}
      /\ t \notin Range(ready_queue) \cup Range(zombie_queue)
      /\ ready_queue' \in Seq(Task) /\ IsInjective(ready_queue')
      /\ Range(ready_queue') = Range(ready_queue) \cup {t}
      /\ state' \in [Task -> TaskStates] /\ state'[t] = "READY"
      /\ \A u \in Task \ {t} : state'[u] = state[u] /\ id'[u] = id[u] /\ pc'[u] = pc[u]
      /\ id' \in [Task -> Nat] /\ id'[t] > 0
      /\ pc' \in [Task -> Points] /\ pc'[t] = "user"
      /\ thread_cnt' \in 1 .. MaxThreads /\ live' = live \cup {t}
  BY <1>2, CreateFacts
<1>4. current # Idle /\ pc[Idle] = "switched" /\ Idle \in Range(ready_queue) /\ InHand = {}
  BY <1>2, NotIdle DEF IdlePoints
<1>5. current \in Task /\ Idle \in Task /\ BootTask \in Task /\ Idle # BootTask
      /\ Range(ready_queue) \subseteq Task /\ Range(zombie_queue) \subseteq Task
  BY <1>1, RangeInTask, TaskAssumption DEF TypeOK
<1>6. InHand' = {}
  BY <1>3, <1>4, <1>5 DEF InHand
<1>7. TypeOK'
  BY <1>1, <1>2, <1>3 DEF TypeOK
<1>8. LinkedOnce' /\ NoUseAfterFree'
  BY <1>1, <1>2, <1>3, <1>6 DEF LinkedOnce, NoUseAfterFree
<1>9. StateMatchesQueue'
  <2>1. ASSUME NEW u \in Range(ready_queue') PROVE state'[u] = "READY"
    BY <1>1, <1>3, <1>5 DEF StateMatchesQueue
  <2>2. ASSUME NEW u \in Range(zombie_queue') PROVE state'[u] = "EXITED"
    BY <1>1, <1>2, <1>3, <1>5 DEF StateMatchesQueue
  <2>3. (state'[current'] = "READY") = (current' \in Range(ready_queue'))
    BY <1>1, <1>2, <1>3, <1>5 DEF StateMatchesQueue
  <2> QED
    BY <2>1, <2>2, <2>3, <1>6 DEF StateMatchesQueue
<1>10. IdleInv'
  BY <1>1, <1>2, <1>3, <1>4, <1>5 DEF IdleInv, IdlePoints
<1>11. BootInv'
  <2>1. pc[BootTask] # "boot"
    BY <1>1, <1>2, <1>4 DEF BootInv, NoUseAfterFree
  <2>2. \A u \in live' \ {Idle, BootTask} : id'[u] > 0
    BY <1>1, <1>3 DEF BootInv, TypeOK
  <2> QED
    BY <2>1, <2>2, <1>1, <1>2, <1>3, <1>5, <1>6 DEF BootInv
<1>12. WaitingInv'
  BY <1>1, <1>2, <1>3, <1>5 DEF WaitingInv
<1>13. CurrentInv'
  BY <1>1, <1>2, <1>3, <1>5 DEF CurrentInv
<1>14. ReapIsMasked'
  BY <1>2, <1>4 DEF ReapIsMasked
<1> QED
  BY <1>7, <1>8, <1>9, <1>10, <1>11, <1>12, <1>13, <1>14 DEF SInv

\* fork fails, and a pid is used up.
LEMMA ForkFailsInv ==
    ASSUME SInv, ForkFails
    PROVE  SInv'
<1>1. /\ UNCHANGED <<ready_queue, zombie_queue, current, state, id, live, pc, arg, irq>>
      /\ thread_cnt < MaxThreads /\ thread_cnt' = thread_cnt + 1
  BY DEF ForkFails, queues
<1>2. TypeOK'
  BY <1>1, TaskAssumption DEF SInv, TypeOK
<1> QED
  BY <1>1, <1>2 DEF SInv, LinkedOnce, NoUseAfterFree, StateMatchesQueue, IdleInv,
         BootInv, WaitingInv, CurrentInv, ReapIsMasked, InHand

\* exec queues a new thread ...
LEMMA ExecCreateInv ==
    ASSUME SInv, Guarded, NEW t \in Task, ExecCreate(t)
    PROVE  SInv'
<1> DEFINE where == [pc EXCEPT ![current] = "enter"]
<1>1. /\ TypeOK /\ LinkedOnce /\ NoUseAfterFree /\ StateMatchesQueue
      /\ IdleInv /\ BootInv /\ WaitingInv /\ CurrentInv /\ ReapIsMasked
  BY DEF SInv
<1>2. pc[current] \in {"user", "boot"} /\ t \in Task \ live /\ where \in [Task -> Points]
      /\ UNCHANGED <<zombie_queue, current, irq>> /\ thread_cnt < MaxThreads
      /\ arg' = [arg EXCEPT ![current] = t, ![t] = NULL] /\ create(t, where)
      /\ state[current] # "READY"
  BY <1>1 DEF ExecCreate, TypeOK, Points, KernelPoints, Guarded
<1>3. current \in Task /\ Idle \in Task /\ BootTask \in Task /\ Idle # BootTask
      /\ Range(ready_queue) \subseteq Task /\ Range(zombie_queue) \subseteq Task
  BY <1>1, RangeInTask, TaskAssumption DEF TypeOK
<1>4. where[current] = "enter" /\ \A u \in Task \ {current} : where[u] = pc[u]
  BY <1>1, <1>3 DEF TypeOK
<1> HIDE DEF where
<1>5. /\ t \notin {current, Idle, BootTask}
      /\ t \notin Range(ready_queue) \cup Range(zombie_queue)
      /\ ready_queue' \in Seq(Task) /\ IsInjective(ready_queue')
      /\ Range(ready_queue') = Range(ready_queue) \cup {t}
      /\ state' \in [Task -> TaskStates] /\ state'[t] = "READY"
      /\ \A u \in Task \ {t} : state'[u] = state[u] /\ id'[u] = id[u]
      /\ id' \in [Task -> Nat] /\ id'[t] > 0
      /\ pc' \in [Task -> Points]
      /\ thread_cnt' \in 1 .. MaxThreads /\ live' = live \cup {t}
  BY <1>2, <1>4, CreateFacts
<1>6. current # Idle /\ pc[Idle] = "switched" /\ Idle \in Range(ready_queue) /\ InHand = {}
  BY <1>2, NotIdle DEF IdlePoints
<1>7. /\ pc'[current] = "enter" /\ pc'[t] = "fresh"
      /\ \A u \in Task \ {current, t} : pc'[u] = pc[u]
  BY <1>2, <1>3, <1>4, <1>5, CreateFacts
<1>8. state[current] = "RUNNING" /\ current \notin Range(ready_queue)
  BY <1>1, <1>2, <1>3 DEF TypeOK, TaskStates, CurrentInv, StateMatchesQueue
<1>9. arg'[current] = t /\ arg' \in [Task -> Task \cup {NULL}]
  BY <1>1, <1>2, <1>3, <1>5 DEF TypeOK
<1>10. InHand' = {}
  BY <1>6, <1>3, <1>5, <1>7 DEF InHand
<1>11. TypeOK'
  BY <1>1, <1>2, <1>5, <1>9 DEF TypeOK
<1>12. LinkedOnce' /\ NoUseAfterFree'
  BY <1>1, <1>2, <1>5, <1>10 DEF LinkedOnce, NoUseAfterFree
<1>13. StateMatchesQueue'
  <2>1. ASSUME NEW u \in Range(ready_queue') PROVE state'[u] = "READY"
    BY <1>1, <1>3, <1>5 DEF StateMatchesQueue
  <2>2. ASSUME NEW u \in Range(zombie_queue') PROVE state'[u] = "EXITED"
    BY <1>1, <1>2, <1>3, <1>5 DEF StateMatchesQueue
  <2>3. (state'[current'] = "READY") = (current' \in Range(ready_queue'))
    BY <1>1, <1>2, <1>3, <1>5, <1>8 DEF StateMatchesQueue
  <2> QED
    BY <2>1, <2>2, <2>3, <1>10 DEF StateMatchesQueue
<1>14. IdleInv'
  BY <1>1, <1>2, <1>3, <1>5, <1>6, <1>7 DEF IdleInv, IdlePoints
<1>15. BootInv'
  <2>1. pc[BootTask] = "boot" => current = BootTask
    BY <1>1, <1>6 DEF BootInv, NoUseAfterFree
  <2>2. pc'[BootTask] # "boot" /\ pc'[BootTask] \in {"boot", "enter", "gone"}
    BY <2>1, <1>1, <1>3, <1>5, <1>7 DEF BootInv
  <2>3. BootTask \notin Range(ready_queue')
    BY <2>1, <1>1, <1>5, <1>8 DEF BootInv
  <2>4. \A u \in live' \ {Idle, BootTask} : id'[u] > 0
    BY <1>1, <1>5 DEF BootInv, TypeOK
  <2> QED
    BY <2>2, <2>3, <2>4, <1>1, <1>2, <1>5, <1>10 DEF BootInv
<1>16. WaitingInv'
  BY <1>1, <1>2, <1>3, <1>5, <1>7, <1>9 DEF WaitingInv
<1>17. CurrentInv'
  BY <1>2, <1>3, <1>5, <1>7, <1>8, <1>9 DEF CurrentInv
<1>18. ReapIsMasked'
  BY <1>2, <1>6 DEF ReapIsMasked
<1> QED
  BY <1>11, <1>12, <1>13, <1>14, <1>15, <1>16, <1>17, <1>18 DEF SInv

\* ... and enters it; the caller, which is RUNNING, is in no queue.
LEMMA ExecEnterInv ==
    ASSUME SInv, ExecEnter
    PROVE  SInv'
<1> DEFINE n == arg[current]
<1>1. /\ TypeOK /\ LinkedOnce /\ NoUseAfterFree /\ StateMatchesQueue
      /\ IdleInv /\ BootInv /\ WaitingInv /\ CurrentInv /\ ReapIsMasked
  BY DEF SInv
<1>2. current \in Task /\ Idle \in Task /\ BootTask \in Task /\ Idle # BootTask
      /\ Range(ready_queue) \subseteq Task /\ Range(zombie_queue) \subseteq Task
  BY <1>1, RangeInTask, TaskAssumption DEF TypeOK
<1>3. /\ pc[current] = "enter" /\ current' = n
      /\ pc' = [pc EXCEPT ![current] = IF current \in Range(ready_queue) THEN "fresh" ELSE "gone",
                          ![n] = "user"]
      /\ arg' = [arg EXCEPT ![current] = NULL]
      /\ UNCHANGED <<ready_queue, zombie_queue, state, id, live, thread_cnt, irq>>
  BY DEF ExecEnter, queues
<1>4. /\ n \in Range(ready_queue) \ {Idle, BootTask, current}
      /\ state[current] = "RUNNING" /\ current \notin Range(ready_queue)
  BY <1>1, <1>3 DEF CurrentInv
<1>5. current # Idle /\ pc[Idle] = "switched" /\ Idle \in Range(ready_queue) /\ InHand = {}
  BY <1>3, NotIdle DEF IdlePoints
<1>6. /\ pc'[n] = "user" /\ pc'[current] = "gone"
      /\ \A u \in Task \ {current, n} : pc'[u] = pc[u]
  BY <1>1, <1>2, <1>3, <1>4 DEF TypeOK
<1> HIDE DEF n
<1>7. state[n] = "READY" /\ n \notin Range(zombie_queue)
  BY <1>1, <1>4 DEF StateMatchesQueue, LinkedOnce
<1>8. InHand' = {}
  BY <1>2, <1>4, <1>5, <1>6 DEF InHand
<1>9. TypeOK'
  BY <1>1, <1>2, <1>3, <1>4 DEF TypeOK, Points
<1>10. LinkedOnce' /\ NoUseAfterFree'
  BY <1>1, <1>3, <1>4, <1>7, <1>8 DEF LinkedOnce, NoUseAfterFree
<1>11. StateMatchesQueue'
  BY <1>1, <1>3, <1>4, <1>7, <1>8 DEF StateMatchesQueue
<1>12. IdleInv'
  BY <1>1, <1>2, <1>3, <1>4, <1>5, <1>6 DEF IdleInv, IdlePoints
<1>13. BootInv'
  BY <1>1, <1>2, <1>3, <1>4, <1>6, <1>8 DEF BootInv
<1>14. WaitingInv'
  BY <1>1, <1>2, <1>3, <1>4, <1>6 DEF WaitingInv, n
<1>15. CurrentInv'
  BY <1>3, <1>4, <1>6, <1>7 DEF CurrentInv
<1>16. ReapIsMasked'
  BY <1>3, <1>4 DEF ReapIsMasked
<1> QED
  BY <1>9, <1>10, <1>11, <1>12, <1>13, <1>14, <1>15, <1>16 DEF SInv

\* _exit leaves the queue ...
LEMMA ExitInv ==
    ASSUME SInv, Exit
    PROVE  SInv'
<1>1. /\ TypeOK /\ LinkedOnce /\ NoUseAfterFree /\ StateMatchesQueue
      /\ IdleInv /\ BootInv /\ WaitingInv /\ CurrentInv /\ ReapIsMasked
  BY DEF SInv
<1>2. current \in Task /\ Idle \in Task /\ BootTask \in Task /\ Idle # BootTask
      /\ Range(ready_queue) \subseteq Task /\ Range(zombie_queue) \subseteq Task
  BY <1>1, RangeInTask, TaskAssumption DEF TypeOK
<1>3. /\ pc[current] = "user" /\ ready_queue' = rm_thread_task(ready_queue, current)
      /\ pc' = [pc EXCEPT ![current] = "exit"]
      /\ UNCHANGED <<zombie_queue, current, state, id, live, arg, thread_cnt, irq>>
  BY DEF Exit
<1>4. /\ ready_queue' \in Seq(Task) /\ IsInjective(ready_queue')
      /\ Range(ready_queue') = Range(ready_queue) \ {current}
  BY <1>1, <1>3, RemoveFacts DEF TypeOK, LinkedOnce
<1>5. current # Idle /\ pc[Idle] = "switched" /\ Idle \in Range(ready_queue) /\ InHand = {}
  BY <1>3, NotIdle DEF IdlePoints
<1>6. pc'[current] = "exit" /\ \A u \in Task \ {current} : pc'[u] = pc[u]
  BY <1>1, <1>2, <1>3 DEF TypeOK
<1>7. current # BootTask
  BY <1>1, <1>3 DEF BootInv
<1>8. InHand' = {}
  BY <1>2, <1>5, <1>6 DEF InHand
<1>9. TypeOK'
  BY <1>1, <1>3, <1>4 DEF TypeOK, Points, KernelPoints
<1>10. LinkedOnce' /\ NoUseAfterFree'
  BY <1>1, <1>3, <1>4, <1>8 DEF LinkedOnce, NoUseAfterFree
<1>11. StateMatchesQueue'
  BY <1>1, <1>3, <1>4, <1>6, <1>8 DEF StateMatchesQueue
<1>12. IdleInv'
  BY <1>1, <1>2, <1>3, <1>4, <1>5, <1>6 DEF IdleInv, IdlePoints
<1>13. BootInv'
  BY <1>1, <1>2, <1>3, <1>4, <1>6, <1>7, <1>8 DEF BootInv
<1>14. WaitingInv'
  BY <1>1, <1>2, <1>3, <1>4, <1>6 DEF WaitingInv
<1>15. CurrentInv'
  BY <1>1, <1>3, <1>4, <1>6 DEF CurrentInv
<1>16. ReapIsMasked'
  BY <1>3, <1>5 DEF ReapIsMasked
<1> QED
  BY <1>9, <1>10, <1>11, <1>12, <1>13, <1>14, <1>15, <1>16 DEF SInv

\* ... and is marked.
LEMMA ExitMarkInv ==
    ASSUME SInv, ExitMark
    PROVE  SInv'
<1>1. /\ TypeOK /\ LinkedOnce /\ NoUseAfterFree /\ StateMatchesQueue
      /\ IdleInv /\ BootInv /\ WaitingInv /\ CurrentInv /\ ReapIsMasked
  BY DEF SInv
<1>2. current \in Task /\ Idle \in Task /\ BootTask \in Task /\ Idle # BootTask
      /\ Range(ready_queue) \subseteq Task /\ Range(zombie_queue) \subseteq Task
  BY <1>1, RangeInTask, TaskAssumption DEF TypeOK
<1>3. /\ pc[current] = "exit" /\ state' = [state EXCEPT ![current] = "EXITED"]
      /\ pc' = [pc EXCEPT ![current] = "marked"]
      /\ UNCHANGED <<ready_queue, zombie_queue, current, id, live, arg, thread_cnt, irq>>
  BY DEF ExitMark, queues
<1>4. current \notin Range(ready_queue) /\ current # BootTask
  BY <1>1, <1>3 DEF CurrentInv, BootInv
<1>5. current # Idle /\ pc[Idle] = "switched" /\ Idle \in Range(ready_queue) /\ InHand = {}
  BY <1>3, NotIdle DEF IdlePoints
<1>6. /\ pc'[current] = "marked" /\ \A u \in Task \ {current} : pc'[u] = pc[u]
      /\ state'[current] = "EXITED" /\ \A u \in Task \ {current} : state'[u] = state[u]
  BY <1>1, <1>2, <1>3 DEF TypeOK
<1>7. InHand' = {}
  BY <1>2, <1>5, <1>6 DEF InHand
<1>8. TypeOK'
  BY <1>1, <1>3 DEF TypeOK, Points, KernelPoints, TaskStates
<1>9. LinkedOnce' /\ NoUseAfterFree'
  BY <1>1, <1>3, <1>7 DEF LinkedOnce, NoUseAfterFree
<1>10. StateMatchesQueue'
  BY <1>1, <1>2, <1>3, <1>4, <1>6, <1>7 DEF StateMatchesQueue, NoUseAfterFree
<1>11. IdleInv'
  BY <1>1, <1>2, <1>3, <1>5, <1>6 DEF IdleInv, IdlePoints
<1>12. BootInv'
  BY <1>1, <1>2, <1>3, <1>4, <1>6, <1>7 DEF BootInv
<1>13. WaitingInv'
  BY <1>1, <1>2, <1>3, <1>6 DEF WaitingInv
<1>14. CurrentInv'
  BY <1>3, <1>4, <1>6 DEF CurrentInv
<1>15. ReapIsMasked'
  BY <1>3, <1>5 DEF ReapIsMasked
<1> QED
  BY <1>8, <1>9, <1>10, <1>11, <1>12, <1>13, <1>14, <1>15 DEF SInv

\* _kill finds a thread that is neither idle nor main(), ...
LEMMA KillInv ==
    ASSUME SInv, Guarded, NEW pid \in Killable, Kill(pid)
    PROVE  SInv'
<1>1. /\ TypeOK /\ LinkedOnce /\ NoUseAfterFree /\ StateMatchesQueue
      /\ IdleInv /\ BootInv /\ WaitingInv /\ CurrentInv /\ ReapIsMasked
  BY DEF SInv
<1>2. current \in Task /\ Idle \in Task /\ BootTask \in Task /\ Idle # BootTask
      /\ Range(ready_queue) \subseteq Task /\ Range(zombie_queue) \subseteq Task
  BY <1>1, RangeInTask, TaskAssumption DEF TypeOK
<1>3. PICK t \in Range(ready_queue) : id[t] = pid /\ arg' = [arg EXCEPT ![current] = t]
  BY DEF Kill, get_thread_task_by_id
<1>4. /\ pc[current] = "user" /\ pc' = [pc EXCEPT ![current] = "found"]
      /\ UNCHANGED <<ready_queue, zombie_queue, current, state, id, live, thread_cnt, irq>>
  BY DEF Kill, queues
<1>5. current # Idle /\ pc[Idle] = "switched" /\ Idle \in Range(ready_queue) /\ InHand = {}
  BY <1>4, NotIdle DEF IdlePoints
<1>6. t # Idle /\ t # BootTask
  <2>1. pid # 0
    BY DEF Guarded
  <2>2. BootTask \notin Range(ready_queue)
    BY <1>1, <1>4, <1>5 DEF BootInv, NoUseAfterFree
  <2> QED
    BY <2>1, <2>2, <1>1, <1>3 DEF IdleInv
<1>7. /\ pc'[current] = "found" /\ \A u \in Task \ {current} : pc'[u] = pc[u]
      /\ arg'[current] = t
  BY <1>1, <1>2, <1>3, <1>4 DEF TypeOK
<1>8. InHand' = {}
  BY <1>2, <1>5, <1>7 DEF InHand
<1>9. TypeOK'
  BY <1>1, <1>2, <1>3, <1>4 DEF TypeOK, Points, KernelPoints
<1>10. LinkedOnce' /\ NoUseAfterFree'
  BY <1>1, <1>4, <1>8 DEF LinkedOnce, NoUseAfterFree
<1>11. StateMatchesQueue'
  BY <1>1, <1>4, <1>7, <1>8 DEF StateMatchesQueue
<1>12. IdleInv'
  BY <1>1, <1>2, <1>4, <1>5, <1>7 DEF IdleInv, IdlePoints
<1>13. BootInv'
  BY <1>1, <1>2, <1>4, <1>7, <1>8 DEF BootInv
<1>14. WaitingInv'
  BY <1>1, <1>2, <1>4, <1>7 DEF WaitingInv
<1>15. CurrentInv'
  BY <1>1, <1>3, <1>4, <1>6, <1>7 DEF CurrentInv
<1>16. ReapIsMasked'
  BY <1>4, <1>5 DEF ReapIsMasked
<1> QED
  BY <1>9, <1>10, <1>11, <1>12, <1>13, <1>14, <1>15, <1>16 DEF SInv

\* ... takes it off the queue ...
LEMMA KillRemoveInv ==
    ASSUME SInv, KillRemove
    PROVE  SInv'
<1> DEFINE t == arg[current]
<1>1. /\ TypeOK /\ LinkedOnce /\ NoUseAfterFree /\ StateMatchesQueue
      /\ IdleInv /\ BootInv /\ WaitingInv /\ CurrentInv /\ ReapIsMasked
  BY DEF SInv
<1>2. current \in Task /\ Idle \in Task /\ BootTask \in Task /\ Idle # BootTask
      /\ Range(ready_queue) \subseteq Task /\ Range(zombie_queue) \subseteq Task
  BY <1>1, RangeInTask, TaskAssumption DEF TypeOK
<1>3. /\ pc[current] = "found" /\ ready_queue' = rm_thread_task(ready_queue, t)
      /\ pc' = [pc EXCEPT ![current] = "removed"]
      /\ UNCHANGED <<zombie_queue, current, state, id, live, arg, thread_cnt, irq>>
  BY DEF KillRemove
<1>4. t \in Range(ready_queue) \ {Idle, BootTask}
  BY <1>1, <1>3 DEF CurrentInv
<1>5. t \in live /\ t \notin Range(zombie_queue)
  BY <1>1, <1>4 DEF NoUseAfterFree, LinkedOnce
<1>6. /\ ready_queue' \in Seq(Task) /\ IsInjective(ready_queue')
      /\ Range(ready_queue') = Range(ready_queue) \ {t}
  BY <1>1, <1>3, RemoveFacts DEF TypeOK, LinkedOnce
<1>7. current # Idle /\ pc[Idle] = "switched" /\ Idle \in Range(ready_queue) /\ InHand = {}
  BY <1>3, NotIdle DEF IdlePoints
<1>8. pc'[current] = "removed" /\ \A u \in Task \ {current} : pc'[u] = pc[u]
  BY <1>1, <1>2, <1>3 DEF TypeOK
<1>9. arg'[current'] = t
  BY <1>3
<1> HIDE DEF t
<1>10. InHand' = {}
  BY <1>2, <1>7, <1>8 DEF InHand
<1>11. TypeOK'
  BY <1>1, <1>3, <1>6 DEF TypeOK, Points, KernelPoints
<1>12. LinkedOnce' /\ NoUseAfterFree'
  BY <1>1, <1>3, <1>6, <1>10 DEF LinkedOnce, NoUseAfterFree
<1>13. StateMatchesQueue'
  BY <1>1, <1>3, <1>6, <1>8, <1>10 DEF StateMatchesQueue
<1>14. IdleInv'
  BY <1>1, <1>2, <1>3, <1>4, <1>6, <1>7, <1>8 DEF IdleInv, IdlePoints
<1>15. BootInv'
  BY <1>1, <1>2, <1>3, <1>6, <1>8, <1>10 DEF BootInv
<1>16. WaitingInv'
  BY <1>1, <1>2, <1>3, <1>6, <1>8 DEF WaitingInv
<1>17. CurrentInv'
  BY <1>1, <1>3, <1>4, <1>5, <1>6, <1>8, <1>9 DEF CurrentInv
<1>18. ReapIsMasked'
  BY <1>3, <1>7 DEF ReapIsMasked
<1> QED
  BY <1>11, <1>12, <1>13, <1>14, <1>15, <1>16, <1>17, <1>18 DEF SInv

\* ... and makes it a zombie, unless it killed itself.
LEMMA KillMarkInv ==
    ASSUME SInv, KillMark
    PROVE  SInv'
<1> DEFINE t == arg[current]
<1>1. /\ TypeOK /\ LinkedOnce /\ NoUseAfterFree /\ StateMatchesQueue
      /\ IdleInv /\ BootInv /\ WaitingInv /\ CurrentInv /\ ReapIsMasked
  BY DEF SInv
<1>2. current \in Task /\ Idle \in Task /\ BootTask \in Task /\ Idle # BootTask
      /\ Range(ready_queue) \subseteq Task /\ Range(zombie_queue) \subseteq Task
  BY <1>1, RangeInTask, TaskAssumption DEF TypeOK
<1>3. /\ pc[current] = "removed" /\ state' = [state EXCEPT ![t] = "EXITED"]
      /\ pc' = [pc EXCEPT ![current] = IF t = current THEN "marked" ELSE "user"]
      /\ zombie_queue' = IF t = current THEN zombie_queue ELSE Append(zombie_queue, t)
      /\ arg' = [arg EXCEPT ![current] = NULL]
      /\ UNCHANGED <<ready_queue, current, id, live, thread_cnt, irq>>
  BY DEF KillMark, add_thread_task
<1>4. /\ t \in live \ {Idle, BootTask} /\ t \in Task
      /\ t \notin Range(ready_queue) \cup Range(zombie_queue)
  BY <1>1, <1>3 DEF CurrentInv, TypeOK
<1>5. current # Idle /\ pc[Idle] = "switched" /\ Idle \in Range(ready_queue) /\ InHand = {}
  BY <1>3, NotIdle DEF IdlePoints
<1>6. current # BootTask
  BY <1>1, <1>3 DEF BootInv
<1>7. /\ pc'[current] = (IF t = current THEN "marked" ELSE "user")
      /\ \A u \in Task \ {current} : pc'[u] = pc[u]
      /\ state'[t] = "EXITED" /\ \A u \in Task \ {t} : state'[u] = state[u]
  BY <1>1, <1>2, <1>3, <1>4 DEF TypeOK
<1>8. t # current => (state[current] = "READY") = (current \in Range(ready_queue))
  BY <1>1, <1>3 DEF CurrentInv
<1>9. state[current] # "EXITED"
  BY <1>1, <1>3 DEF CurrentInv
<1>10. /\ zombie_queue' \in Seq(Task) /\ IsInjective(zombie_queue')
       /\ Range(zombie_queue') = IF t = current THEN Range(zombie_queue)
                                 ELSE Range(zombie_queue) \cup {t}
  <2>1. CASE t = current
    BY <2>1, <1>1, <1>3 DEF TypeOK, LinkedOnce
  <2>2. CASE t # current
    <3>1. zombie_queue' = Append(zombie_queue, t)
      BY <2>2, <1>3
    <3>2. zombie_queue \in Seq(Task) /\ IsInjective(zombie_queue)
          /\ t \notin Range(zombie_queue) /\ t \in Task
      BY <1>1, <1>4 DEF TypeOK, LinkedOnce
    <3> HIDE DEF t
    <3>3. /\ zombie_queue' \in Seq(Task) /\ IsInjective(zombie_queue')
          /\ Range(zombie_queue') = Range(zombie_queue) \cup {t}
      BY <3>1, <3>2, AppendFacts
    <3> QED
      BY <2>2, <3>3
  <2> QED
    BY <2>1, <2>2
<1> HIDE DEF t
<1>11. InHand' = {}
  BY <1>2, <1>5, <1>7 DEF InHand
<1>12. TypeOK'
  <2>1. state' \in [Task -> TaskStates] /\ pc' \in [Task -> Points]
    BY <1>1, <1>3 DEF TypeOK, TaskStates, Points, KernelPoints
  <2>2. arg' \in [Task -> Task \cup {NULL}]
    BY <1>1, <1>3 DEF TypeOK
  <2> QED
    BY <2>1, <2>2, <1>1, <1>3, <1>10 DEF TypeOK
<1>13. LinkedOnce' /\ NoUseAfterFree'
  BY <1>1, <1>3, <1>4, <1>10, <1>11 DEF LinkedOnce, NoUseAfterFree
<1>14. StateMatchesQueue'
  <2>1. ASSUME NEW u \in Range(ready_queue') PROVE state'[u] = "READY"
    BY <1>1, <1>2, <1>3, <1>4, <1>7 DEF StateMatchesQueue
  <2>2. ASSUME NEW u \in Range(zombie_queue') PROVE state'[u] = "EXITED"
    BY <1>1, <1>2, <1>7, <1>10 DEF StateMatchesQueue
  <2>3. pc'[current'] # "marked" =>
           (state'[current'] = "READY") = (current' \in Range(ready_queue'))
    BY <1>2, <1>3, <1>7, <1>8
  <2> QED
    BY <2>1, <2>2, <2>3, <1>11 DEF StateMatchesQueue
<1>15. IdleInv'
  <2>1. pc'[Idle] = "switched"
    BY <1>2, <1>5, <1>7
  <2>2. ASSUME NEW u \in Task \ {Idle} PROVE pc'[u] \notin IdlePoints \cup {"switched"}
    BY <1>1, <1>7 DEF IdleInv, IdlePoints
  <2> QED
    BY <2>1, <2>2, <1>1, <1>3, <1>5 DEF IdleInv
<1>16. BootInv'
  <2>1. pc'[BootTask] = pc[BootTask]
    BY <1>2, <1>6, <1>7
  <2>2. BootTask \notin Range(zombie_queue')
    BY <1>1, <1>4, <1>10 DEF BootInv
  <2> QED
    BY <2>1, <2>2, <1>1, <1>3, <1>11 DEF BootInv
<1>17. WaitingInv'
  BY <1>1, <1>2, <1>3, <1>7 DEF WaitingInv
<1>18. CurrentInv'
  <2>1. CASE t = current
    BY <2>1, <1>3, <1>4, <1>7 DEF CurrentInv
  <2>2. CASE t # current
    <3>1. pc'[current'] = "user" /\ state'[current'] = state[current]
      BY <2>2, <1>2, <1>3, <1>7
    <3> QED
      BY <2>2, <3>1, <1>3, <1>8, <1>9 DEF CurrentInv
  <2> QED
    BY <2>1, <2>2
<1>19. ReapIsMasked'
  BY <1>3, <1>5 DEF ReapIsMasked
<1> QED
  BY <1>12, <1>13, <1>14, <1>15, <1>16, <1>17, <1>18, <1>19 DEF SInv

\* idle takes a zombie off its queue, ...
LEMMA ReapInv ==
    ASSUME SInv, Reap
    PROVE  SInv'
<1> DEFINE z == Head(zombie_queue)
<1>1. /\ TypeOK /\ LinkedOnce /\ NoUseAfterFree /\ StateMatchesQueue
      /\ IdleInv /\ BootInv /\ WaitingInv /\ CurrentInv /\ ReapIsMasked
  BY DEF SInv
<1>2. current \in Task /\ Idle \in Task /\ BootTask \in Task /\ Idle # BootTask
      /\ Range(ready_queue) \subseteq Task /\ Range(zombie_queue) \subseteq Task
  BY <1>1, RangeInTask, TaskAssumption DEF TypeOK
<1>3. /\ pc[current] = "reap" /\ zombie_queue # <<>>
      /\ arg' = [arg EXCEPT ![current] = z] /\ zombie_queue' = Tail(zombie_queue)
      /\ pc' = [pc EXCEPT ![current] = "free"]
      /\ UNCHANGED <<ready_queue, current, state, id, live, thread_cnt, irq>>
  BY DEF Reap
<1>4. current = Idle /\ state[Idle] = "RUNNING" /\ Idle \notin Range(ready_queue)
  BY <1>3, IsIdle DEF IdlePoints
<1>5. /\ z \in Task /\ z \in Range(zombie_queue) /\ zombie_queue' \in Seq(Task)
      /\ IsInjective(zombie_queue')
      /\ Range(zombie_queue') = Range(zombie_queue) \ {z}
  BY <1>1, <1>3, TailFacts DEF TypeOK, LinkedOnce
<1> HIDE DEF z
<1>6. /\ pc'[Idle] = "free" /\ \A u \in Task \ {Idle} : pc'[u] = pc[u]
      /\ arg'[Idle] = z
  BY <1>1, <1>2, <1>3, <1>4 DEF TypeOK
<1>7. InHand' = {z}
  BY <1>6 DEF InHand
<1>8. TypeOK'
  BY <1>1, <1>3, <1>5 DEF TypeOK, Points
<1>9. LinkedOnce' /\ NoUseAfterFree'
  BY <1>1, <1>3, <1>5, <1>7 DEF LinkedOnce, NoUseAfterFree
<1>10. StateMatchesQueue'
  BY <1>1, <1>3, <1>4, <1>5, <1>6, <1>7 DEF StateMatchesQueue
<1>11. IdleInv'
  BY <1>1, <1>3, <1>4, <1>6 DEF IdleInv, IdlePoints
<1>12. BootInv'
  BY <1>1, <1>2, <1>3, <1>5, <1>6, <1>7 DEF BootInv
<1>13. WaitingInv'
  BY <1>1, <1>2, <1>3, <1>4, <1>6 DEF WaitingInv
<1>14. CurrentInv'
  BY <1>3, <1>4, <1>6 DEF CurrentInv
<1>15. ReapIsMasked'
  BY <1>1, <1>3, <1>4 DEF ReapIsMasked
<1> QED
  BY <1>8, <1>9, <1>10, <1>11, <1>12, <1>13, <1>14, <1>15 DEF SInv

\* ... frees it, ...
LEMMA FreeZombieInv ==
    ASSUME SInv, FreeZombie
    PROVE  SInv'
<1> DEFINE z == arg[Idle]
<1>1. /\ TypeOK /\ LinkedOnce /\ NoUseAfterFree /\ StateMatchesQueue
      /\ IdleInv /\ BootInv /\ WaitingInv /\ CurrentInv /\ ReapIsMasked
  BY DEF SInv
<1>2. current \in Task /\ Idle \in Task /\ BootTask \in Task /\ Idle # BootTask
      /\ Range(ready_queue) \subseteq Task /\ Range(zombie_queue) \subseteq Task
  BY <1>1, RangeInTask, TaskAssumption DEF TypeOK
<1>3. /\ pc[current] = "free"
      /\ live' = live \ {arg[current]} /\ pc' = [pc EXCEPT ![current] = "reap"]
      /\ arg' = [arg EXCEPT ![current] = NULL]
      /\ UNCHANGED <<ready_queue, zombie_queue, current, state, id, thread_cnt, irq>>
  BY DEF FreeZombie, queues
<1>4. current = Idle /\ state[Idle] = "RUNNING" /\ Idle \notin Range(ready_queue)
  BY <1>3, IsIdle DEF IdlePoints
<1>5. InHand = {z} /\ live' = live \ {z}
  BY <1>3, <1>4 DEF InHand
<1>6. /\ z \in live \ {Idle, BootTask}
      /\ z \notin Range(ready_queue) \cup Range(zombie_queue)
  BY <1>1, <1>4, <1>5 DEF NoUseAfterFree, BootInv, LinkedOnce
<1> HIDE DEF z
<1>7. pc'[Idle] = "reap" /\ \A u \in Task \ {Idle} : pc'[u] = pc[u]
  BY <1>1, <1>2, <1>3, <1>4 DEF TypeOK
<1>8. InHand' = {}
  BY <1>7 DEF InHand
<1>9. TypeOK'
  BY <1>1, <1>3, <1>5 DEF TypeOK, Points
<1>10. LinkedOnce' /\ NoUseAfterFree'
  BY <1>1, <1>3, <1>4, <1>5, <1>6, <1>8 DEF LinkedOnce, NoUseAfterFree
<1>11. StateMatchesQueue'
  BY <1>1, <1>3, <1>4, <1>7, <1>8 DEF StateMatchesQueue
<1>12. IdleInv'
  BY <1>1, <1>3, <1>4, <1>5, <1>6, <1>7 DEF IdleInv, IdlePoints
<1>13. BootInv'
  <2>1. pc[BootTask] # "boot"
    BY <1>1, <1>6 DEF BootInv
  <2> QED
    BY <2>1, <1>1, <1>2, <1>3, <1>5, <1>6, <1>7, <1>8 DEF BootInv
<1>14. WaitingInv'
  BY <1>1, <1>2, <1>3, <1>4, <1>7 DEF WaitingInv
<1>15. CurrentInv'
  BY <1>3, <1>4, <1>7 DEF CurrentInv
<1>16. ReapIsMasked'
  BY <1>1, <1>3, <1>4 DEF ReapIsMasked
<1> QED
  BY <1>9, <1>10, <1>11, <1>12, <1>13, <1>14, <1>15, <1>16 DEF SInv

\* ... and goes on when none is left.
LEMMA ReapDoneInv ==
    ASSUME SInv, ReapDone
    PROVE  SInv'
<1>1. /\ TypeOK /\ LinkedOnce /\ NoUseAfterFree /\ StateMatchesQueue
      /\ IdleInv /\ BootInv /\ WaitingInv /\ CurrentInv /\ ReapIsMasked
  BY DEF SInv
<1>2. current \in Task /\ Idle \in Task /\ BootTask \in Task /\ Idle # BootTask
      /\ Range(ready_queue) \subseteq Task /\ Range(zombie_queue) \subseteq Task
  BY <1>1, RangeInTask, TaskAssumption DEF TypeOK
<1>3. /\ pc[current] = "reap" /\ zombie_queue = <<>>
      /\ pc' = [pc EXCEPT ![current] = "sched"]
      /\ UNCHANGED <<ready_queue, zombie_queue, current, state, id, live, arg, thread_cnt, irq>>
  BY DEF ReapDone, queues
<1>4. current = Idle /\ state[Idle] = "RUNNING" /\ Idle \notin Range(ready_queue)
  BY <1>3, IsIdle DEF IdlePoints
<1>5. pc'[Idle] = "sched" /\ \A u \in Task \ {Idle} : pc'[u] = pc[u]
  BY <1>1, <1>2, <1>3, <1>4 DEF TypeOK
<1>6. InHand' = {}
  BY <1>5 DEF InHand
<1>7. TypeOK'
  BY <1>1, <1>3 DEF TypeOK, Points
<1>8. LinkedOnce' /\ NoUseAfterFree'
  BY <1>1, <1>3, <1>6 DEF LinkedOnce, NoUseAfterFree
<1>9. StateMatchesQueue'
  BY <1>1, <1>3, <1>4, <1>5, <1>6 DEF StateMatchesQueue
<1>10. IdleInv'
  BY <1>1, <1>3, <1>4, <1>5 DEF IdleInv, IdlePoints
<1>11. BootInv'
  BY <1>1, <1>2, <1>3, <1>5, <1>6 DEF BootInv
<1>12. WaitingInv'
  BY <1>1, <1>2, <1>3, <1>4, <1>5 DEF WaitingInv
<1>13. CurrentInv'
  BY <1>3, <1>4, <1>5 DEF CurrentInv
<1>14. ReapIsMasked'
  BY <1>1, <1>3, <1>4, <1>5 DEF ReapIsMasked
<1> QED
  BY <1>7, <1>8, <1>9, <1>10, <1>11, <1>12, <1>13, <1>14 DEF SInv

-----------------------------------------------------------------------------
(* The theorems *)

\* sched_init leaves idle queued and main() running.
LEMMA InitInv == Init => SInv
<1> SUFFICES ASSUME Init PROVE SInv
  OBVIOUS
<1>1. /\ BootTask \in Task /\ Idle \in Task /\ BootTask # Idle /\ NULL \notin Task
      /\ MaxThreads \in Nat \ {0}
  BY TaskAssumption
<1>2. Range(ready_queue) = {Idle} /\ Range(zombie_queue) = {} /\ IsInjective(ready_queue)
      /\ IsInjective(zombie_queue)
  BY DEF Init, Range, IsInjective
<1>3. /\ pc[BootTask] = "boot" /\ pc[Idle] = "switched"
      /\ \A t \in Task \ {BootTask, Idle} : pc[t] = "gone"
  BY <1>1 DEF Init
<1>4. InHand = {}
  BY <1>3 DEF InHand
<1>5. TypeOK
  <2>1. pc \in [Task -> Points]
    BY <1>1 DEF Init, Points
  <2>2. state \in [Task -> TaskStates]
    BY DEF Init, TaskStates
  <2> QED
    BY <2>1, <2>2, <1>1 DEF Init, TypeOK
<1>6. LinkedOnce /\ NoUseAfterFree
  BY <1>1, <1>2, <1>4 DEF Init, LinkedOnce, NoUseAfterFree
<1>7. StateMatchesQueue
  BY <1>1, <1>2, <1>3, <1>4 DEF Init, StateMatchesQueue
<1>8. IdleInv
  BY <1>1, <1>2, <1>3 DEF Init, IdleInv, IdlePoints
<1>9. BootInv
  BY <1>1, <1>2, <1>3, <1>4 DEF Init, BootInv
<1>10. WaitingInv /\ CurrentInv
  BY <1>1, <1>2, <1>3 DEF Init, WaitingInv, CurrentInv
<1>11. ReapIsMasked
  BY <1>1 DEF Init, ReapIsMasked
<1> QED
  BY <1>5, <1>6, <1>7, <1>8, <1>9, <1>10, <1>11 DEF SInv

\* Every step, of whichever thread, keeps the invariant.
LEMMA NextInv ==
    ASSUME Guarded, SInv, [Next]_vars
    PROVE  SInv'
<1>1. CASE Tick
  BY <1>1, TickInv
<1>2. CASE Step
  BY <1>2, ExecEnterInv, ExitMarkInv, ExitScheduleInv, KillRemoveInv, KillMarkInv, ReapInv,
     FreeZombieInv, ReapDoneInv, IdleScheduleInv DEF Step
<1>3. CASE Call
  BY <1>3, ForkInv, ExecCreateInv, ForkFailsInv, ExitInv, KillInv DEF Call
<1>4. CASE UNCHANGED vars
  BY <1>4, StutterInv
<1> QED
  BY <1>1, <1>2, <1>3, <1>4 DEF Next

\* The invariant holds whatever the threads do, as long as the timer strikes no
\* system call but _exit, idle is not killed and no thread calls exec before the
\* timer interrupted it.
THEOREM Invariance == ASSUME Guarded PROVE Spec => []SInv
<1>1. SInv /\ [Next]_vars => SInv'
  BY NextInv
<1> QED
  BY <1>1, InitInv, PTL DEF Spec

\* Every variable keeps its type, and thread_cnt its bound.
THEOREM TypeCorrect == ASSUME Guarded PROVE Spec => []TypeOK
<1>1. SInv => TypeOK
  BY DEF SInv
<1> QED
  BY <1>1, Invariance, PTL

\* schedule, _exit, _kill, fork and exec never link a task twice.
THEOREM QueuesDisjoint == ASSUME Guarded PROVE Spec => []LinkedOnce
<1>1. SInv => LinkedOnce
  BY DEF SInv
<1> QED
  BY <1>1, Invariance, PTL

\* idle frees no structure that is running, queued or freed already.
THEOREM FreeIsSafe == ASSUME Guarded PROVE Spec => []NoUseAfterFree
<1>1. SInv => NoUseAfterFree
  BY DEF SInv
<1> QED
  BY <1>1, Invariance, PTL

\* The state by which schedule() decides agrees with the queues.
THEOREM StateAgrees == ASSUME Guarded PROVE Spec => []StateMatchesQueue
<1>1. SInv => StateMatchesQueue
  BY DEF SInv
<1> QED
  BY <1>1, Invariance, PTL

\* A thread that exited or was killed is not scheduled again.
THEOREM ExitIsFinal == ASSUME Guarded PROVE Spec => []ExitedNeverRuns
<1>1. SInv => ExitedNeverRuns
  BY DEF SInv, CurrentInv, ExitedNeverRuns
<1> QED
  BY <1>1, Invariance, PTL

\* The schedule() of _exit always finds idle.
THEOREM IdleIsThere == ASSUME Guarded PROVE Spec => []IdleAvailable
<1>1. SInv => IdleAvailable
  BY DEF SInv, IdleInv, IdleAvailable
<1> QED
  BY <1>1, Invariance, PTL

\* kill_zombies is never interrupted while there is anything to race with.
THEOREM ReapingMasked == ASSUME Guarded PROVE Spec => []ReapIsMasked
<1>1. SInv => ReapIsMasked
  BY DEF SInv
<1> QED
  BY <1>1, Invariance, PTL

\* schedule() switches only to threads that resume in a system call, in an
\* interrupt or in user mode.
THEOREM UserMode == ASSUME Guarded PROVE Spec => []RunsInUserMode
<1>1. SInv => RunsInUserMode
  BY DEF SInv, CurrentInv, RunsInUserMode
<1> QED
  BY <1>1, Invariance, PTL

-----------------------------------------------------------------------------
(* The ready queue is first in, first out *)

\* What is in both queues is in the same order.
InOrder(q, r) ==
    \A i, j \in DOMAIN q : i < j /\ q[i] \in Range(r) /\ q[j] \in Range(r) =>
        \E k, m \in DOMAIN r : k < m /\ r[k] = q[i] /\ r[m] = q[j]

\* add_thread_task puts the new task behind all others.
LEMMA AppendInOrder ==
    ASSUME NEW S, NEW q \in Seq(S), NEW t \in S
    PROVE  InOrder(q, Append(q, t))
<1>1. /\ Len(q) \in Nat /\ DOMAIN q = 1 .. Len(q) /\ DOMAIN Append(q, t) = 1 .. Len(q) + 1
      /\ \A i \in 1 .. Len(q) : Append(q, t)[i] = q[i]
  OBVIOUS
<1> DEFINE r == Append(q, t)
<1>2. \A i \in DOMAIN q : i \in DOMAIN r /\ r[i] = q[i]
  BY <1>1
<1> HIDE DEF r
<1>3. InOrder(q, r)
  BY <1>2 DEF InOrder
<1> QED
  BY <1>3 DEF r

\* Taking the first task off moves the others up.
LEMMA TailInOrder ==
    ASSUME NEW S, NEW q \in Seq(S), q # <<>>, IsInjective(q)
    PROVE  InOrder(q, Tail(q))
<1> DEFINE r == Tail(q)
<1>1. /\ Len(q) \in Nat \ {0} /\ DOMAIN q = 1 .. Len(q) /\ DOMAIN r = 1 .. Len(q) - 1
      /\ \A i \in 1 .. Len(q) - 1 : r[i] = q[i + 1]
      /\ q[1] = Head(q)
  OBVIOUS
<1>2. Head(q) \notin Range(r)
  BY TailFacts
<1> HIDE DEF r
<1>3. ASSUME NEW i \in 1 .. Len(q), NEW j \in 1 .. Len(q), i < j, q[i] \in Range(r)
      PROVE  \E k, m \in DOMAIN r : k < m /\ r[k] = q[i] /\ r[m] = q[j]
  <2>1. i # 1
    BY <1>1, <1>2, <1>3
  <2>2. /\ i - 1 \in 1 .. Len(q) - 1 /\ j - 1 \in 1 .. Len(q) - 1 /\ i - 1 < j - 1
        /\ (i - 1) + 1 = i /\ (j - 1) + 1 = j
    BY <1>1, <1>3, <2>1
  <2>3. r[i - 1] = q[i] /\ r[j - 1] = q[j]
    BY <1>1, <2>2
  <2> QED
    BY <1>1, <2>2, <2>3
<1>4. InOrder(q, r)
  BY <1>1, <1>3 DEF InOrder
<1> QED
  BY <1>4 DEF r

\* Unlinking a task leaves the order of the others.
LEMMA RemoveInOrder ==
    ASSUME NEW S, NEW q \in Seq(S), NEW t, IsInjective(q)
    PROVE  InOrder(q, rm_thread_task(q, t))
<1>1. CASE t \notin Range(q)
  BY <1>1 DEF rm_thread_task, InOrder
<1>2. CASE t \in Range(q)
  <2> DEFINE First(i) == q[i] = t /\ \A j \in 1 .. i - 1 : q[j] # t
             c == CHOOSE k \in DOMAIN q : First(k)
             r == [j \in 1 .. Len(q) - 1 |-> IF j < c THEN q[j] ELSE q[j + 1]]
             New(i) == IF i < c THEN i ELSE i - 1
  <2>1. Len(q) \in Nat /\ DOMAIN q = 1 .. Len(q)
    OBVIOUS
  <2>2. PICK k \in 1 .. Len(q) : q[k] = t
    BY <1>2, <2>1 DEF Range
  <2>3. First(k)
    BY <2>1, <2>2 DEF IsInjective
  <2>4. c \in 1 .. Len(q) /\ q[c] = t
    BY <2>1, <2>3
  <2>5. rm_thread_task(q, t) = r
    BY <1>2 DEF rm_thread_task
  <2>6. t \notin Range(r)
    <3>1. Range(rm_thread_task(q, t)) = Range(q) \ {t}
      BY RemoveFacts
    <3> QED
      BY <2>5, <3>1
  <2> HIDE DEF c
  <2>7. ASSUME NEW i \in 1 .. Len(q), i # c
        PROVE  New(i) \in 1 .. Len(q) - 1 /\ r[New(i)] = q[i]
    <3>1. CASE i < c
      BY <3>1, <2>1, <2>4
    <3>2. CASE i > c
      BY <3>2, <2>1, <2>4
    <3> QED
      BY <3>1, <3>2, <2>1, <2>4, <2>7
  <2>8. ASSUME NEW i \in 1 .. Len(q), NEW j \in 1 .. Len(q), i < j,
               q[i] \in Range(r), q[j] \in Range(r)
        PROVE  \E x, y \in DOMAIN r : x < y /\ r[x] = q[i] /\ r[y] = q[j]
    <3>1. i # c /\ j # c
      BY <2>4, <2>6, <2>8
    <3>2. New(i) < New(j)
      BY <3>1, <2>1, <2>4, <2>8
    <3>3. DOMAIN r = 1 .. Len(q) - 1
      OBVIOUS
    <3> HIDE DEF r, New
    <3> QED
      BY <3>1, <3>2, <3>3, <2>7
  <2>9. InOrder(q, r)
    <3> HIDE DEF r
    <3> QED
      BY <2>1, <2>8 DEF InOrder
  <2> QED
    BY <2>5, <2>9
<1> QED
  BY <1>1, <1>2

\* schedule takes the head off, and puts the thread it leaves at the end.
LEMMA SwitchInOrder ==
    ASSUME SInv, NEW saved, NEW back, schedule(saved, back)
    PROVE  InOrder(ready_queue, ready_queue')
<1> DEFINE longer == Append(ready_queue, current)
<1>1. ready_queue \in Seq(Task) /\ IsInjective(ready_queue) /\ current \in Task
  BY DEF SInv, TypeOK, LinkedOnce
<1>2. CASE UNCHANGED ready_queue
  BY <1>2 DEF InOrder
<1>3. CASE OtherReady /\ ready_queue' = Tail(ready_queue)
  BY <1>1, <1>3, TailInOrder DEF OtherReady
<1>4. CASE OtherReady /\ state[current] = "RUNNING" /\ ready_queue' = Tail(longer)
  <2>1. current \notin Range(ready_queue)
    BY <1>4 DEF SInv, StateMatchesQueue
  <2>2. longer \in Seq(Task) /\ longer # <<>> /\ IsInjective(longer)
        /\ Range(longer) = Range(ready_queue) \cup {current}
    BY <1>1, <2>1, AppendFacts
  <2>3. InOrder(ready_queue, longer)
    BY <1>1, AppendInOrder
  <2> HIDE DEF longer
  <2>4. InOrder(longer, Tail(longer)) /\ Range(Tail(longer)) \subseteq Range(longer)
    BY <2>2, TailInOrder, TailFacts
  <2> SUFFICES ASSUME NEW i \in DOMAIN ready_queue, NEW j \in DOMAIN ready_queue, i < j,
                      ready_queue[i] \in Range(Tail(longer)), ready_queue[j] \in Range(Tail(longer))
               PROVE  \E k, m \in DOMAIN Tail(longer) :
                         /\ k < m /\ Tail(longer)[k] = ready_queue[i]
                         /\ Tail(longer)[m] = ready_queue[j]
    BY <1>4 DEF InOrder
  <2>5. PICK k, m \in DOMAIN longer : k < m /\ longer[k] = ready_queue[i] /\ longer[m] = ready_queue[j]
    BY <2>3, <2>4 DEF InOrder
  <2> QED
    BY <2>4, <2>5 DEF InOrder
<1> QED
  BY <1>2, <1>3, <1>4 DEF schedule, stay, switch, Requeued, add_thread_task, queues

\* No operation lets a waiting thread pass another one.
LEMMA NextInOrder ==
    ASSUME SInv, [Next]_vars
    PROVE  InOrder(ready_queue, ready_queue')
<1>1. ready_queue \in Seq(Task) /\ IsInjective(ready_queue) /\ current \in Task
  BY DEF SInv, TypeOK, LinkedOnce
<1>2. CASE UNCHANGED ready_queue
  BY <1>2 DEF InOrder
<1>3. CASE Tick \/ ExitSchedule \/ IdleSchedule
  BY <1>3, SwitchInOrder DEF Tick, ExitSchedule, IdleSchedule
<1>4. ASSUME NEW t \in Task, Fork(t) \/ ExecCreate(t)
      PROVE  InOrder(ready_queue, ready_queue')
  <2>1. ready_queue' = Append(ready_queue, t)
    BY <1>4 DEF Fork, ExecCreate, create, add_thread_task
  <2>2. InOrder(ready_queue, Append(ready_queue, t))
    BY <1>1, AppendInOrder
  <2> QED
    BY <2>1, <2>2
<1>5. CASE Exit \/ KillRemove
  BY <1>1, <1>5, RemoveInOrder DEF Exit, KillRemove
<1>6. CASE ExecEnter \/ ExitMark \/ KillMark \/ Reap \/ FreeZombie \/ ReapDone \/ ForkFails
  BY <1>2, <1>6 DEF ExecEnter, ExitMark, KillMark, Reap, FreeZombie, ReapDone, ForkFails, queues
<1>7. ASSUME NEW pid \in Killable, Kill(pid)
      PROVE  InOrder(ready_queue, ready_queue')
  BY <1>2, <1>7 DEF Kill, queues
<1>8. CASE UNCHANGED vars
  BY <1>2, <1>8 DEF vars
<1> QED
  BY <1>3, <1>4, <1>5, <1>6, <1>7, <1>8 DEF Next, Step, Call

\* Two threads that wait never change places, whatever schedule, _exit, _kill, fork
\* and exec do in between.
THEOREM FirstInFirstOut == ASSUME Guarded PROVE Spec => NoOvertaking
<1>1. SInv /\ [Next]_vars =>
         [\A a, b \in Task :
            \A i, j \in DOMAIN ready_queue :
              /\ i < j /\ ready_queue[i] = a /\ ready_queue[j] = b
              /\ a \in Range(ready_queue')
              /\ b \in Range(ready_queue')
              => \E k, m \in DOMAIN ready_queue' :
                   k < m /\ ready_queue'[k] = a /\ ready_queue'[m] = b]_vars
  BY NextInOrder DEF InOrder
<1> QED
  BY <1>1, Invariance, PTL DEF Spec, NoOvertaking

-----------------------------------------------------------------------------
(* No thread is forgotten *)

\* The timer does not strike in _kill, so only the current thread has a victim.
OneKiller == \A t \in live : pc[t] = "removed" => t = current

LInv == NoThreadLost /\ OneKiller

\* schedule puts the thread it leaves on a queue, unless the thread was between its
\* removal from the ready queue and its mark.
LEMMA SwitchKeeps ==
    ASSUME SInv, LInv, NEW saved \in Points, NEW back,
           schedule(saved, back), UNCHANGED <<id, live, arg, thread_cnt>>,
           pc[current] \notin {"exit", "removed"}, saved # "removed", back # "removed",
           pc[current] # "free"
    PROVE  LInv'
<1> DEFINE next == Head(ready_queue)
           was == state[current]
           longer == IF was = "RUNNING" THEN Append(ready_queue, current) ELSE ready_queue
<1>1. /\ ready_queue \in Seq(Task) /\ zombie_queue \in Seq(Task) /\ IsInjective(ready_queue)
      /\ current \in Task /\ live \subseteq Task /\ pc \in [Task -> Points] /\ was \in TaskStates
      /\ Idle \in Task
  BY TaskAssumption DEF SInv, TypeOK, LinkedOnce
<1>2. InHand = {}
  BY DEF InHand, SInv, IdleInv
<1>3. Victims = {}
  BY DEF Victims, LInv, OneKiller
<1>4. \A t \in live : pc[t] # "gone" => t = current \/ t \in Range(ready_queue) \/ t \in Range(zombie_queue)
  BY <1>2, <1>3 DEF LInv, NoThreadLost
<1>5. CASE stay(back)
  <2>1. UNCHANGED <<ready_queue, zombie_queue, current>> /\ pc' = [pc EXCEPT ![current] = back]
    BY <1>5 DEF stay, queues
  <2>2. \A t \in live : t # current => pc'[t] = pc[t]
    BY <2>1, <1>1
  <2>3. \A t \in live : pc'[t] # "removed"
    BY <2>1, <2>2, <1>1 DEF LInv, OneKiller
  <2> QED
    BY <2>1, <2>2, <2>3, <1>4 DEF LInv, NoThreadLost, OneKiller
<1>6. CASE switch(saved, Requeued, Unmasks)
  <2>1. /\ ready_queue # <<>> /\ next # current
        /\ ready_queue' = Tail(longer)
        /\ zombie_queue' = IF was = "EXITED" THEN Append(zombie_queue, current) ELSE zombie_queue
        /\ current' = next
        /\ pc' = [pc EXCEPT ![current] = saved,
                            ![next] = IF @ = "switched" THEN "reap" ELSE @]
    BY <1>6 DEF switch, Requeued, OtherReady, add_thread_task
  <2>2. next \in Task
    BY <1>1, <2>1, TailFacts
  <2>3. was = "READY" => current \in Range(ready_queue)
    BY DEF SInv, StateMatchesQueue, CurrentInv
  <2>4. was = "RUNNING" => current \notin Range(ready_queue)
    BY DEF SInv, StateMatchesQueue
  <2>5. /\ longer \in Seq(Task) /\ longer # <<>> /\ IsInjective(longer) /\ Head(longer) = next
        /\ Range(longer) = Range(ready_queue) \cup (IF was = "RUNNING" THEN {current} ELSE {})
    <3>1. CASE was = "RUNNING"
      <4>1. longer = Append(ready_queue, current)
        BY <3>1
      <4>2. /\ Append(ready_queue, current) \in Seq(Task) /\ Append(ready_queue, current) # <<>>
            /\ Range(Append(ready_queue, current)) = Range(ready_queue) \cup {current}
            /\ IsInjective(Append(ready_queue, current))
            /\ Head(Append(ready_queue, current)) = next
        BY <1>1, <2>1, <2>4, <3>1, AppendFacts
      <4> HIDE DEF longer, was, next
      <4> QED
        BY <3>1, <4>1, <4>2
    <3>2. CASE was # "RUNNING"
      BY <3>2, <1>1, <2>1
    <3> QED
      BY <3>1, <3>2
  <2>6. Range(ready_queue') = Range(longer) \ {next}
    <3> HIDE DEF longer, next
    <3> QED
      BY <2>1, <2>5, TailFacts, Zenon
  <2>7. Range(zombie_queue') = Range(zombie_queue) \cup (IF was = "EXITED" THEN {current} ELSE {})
    <3>1. CASE was = "EXITED"
      <4>1. Range(Append(zombie_queue, current)) = Range(zombie_queue) \cup {current}
        BY <1>1, AppendFacts
      <4> QED
        BY <2>1, <3>1, <4>1
    <3>2. CASE was # "EXITED"
      BY <2>1, <3>2
    <3> QED
      BY <3>1, <3>2
  <2>8. current \in Range(ready_queue') \cup Range(zombie_queue')
    BY <1>1, <2>1, <2>3, <2>5, <2>6, <2>7 DEF TaskStates
  <2>9. \A t \in Range(ready_queue) : t = current' \/ t \in Range(ready_queue')
    BY <2>1, <2>5, <2>6
  <2>10. \A t \in live : t # current => (pc'[t] = "gone" => pc[t] = "gone")
                                      /\ (pc'[t] = "removed" => pc[t] = "removed")
    BY <1>1, <2>1, <2>2
  <2>11. pc'[current] # "removed"
    BY <1>1, <2>1
  <2>12. \A t \in live : pc'[t] # "removed"
    BY <2>10, <2>11 DEF LInv, OneKiller
  <2>13. \A t \in live : t \notin {current} /\ pc'[t] # "gone" => pc[t] # "gone"
    BY <1>1, <2>1, <2>2
  <2>14. \A t \in live : pc'[t] # "gone" =>
            t = current' \/ t \in Range(ready_queue') \/ t \in Range(zombie_queue')
    <3> HIDE DEF longer, next, was
    <3> QED
      BY <1>4, <2>7, <2>8, <2>9, <2>13
  <2> QED
    BY <2>12, <2>14 DEF LInv, NoThreadLost, OneKiller
<1> QED
  BY <1>5, <1>6 DEF schedule

\* A new thread is queued.
LEMMA CreateKeeps ==
    ASSUME SInv, LInv, NEW t \in Task, Fork(t) \/ ExecCreate(t)
    PROVE  LInv'
<1>1. /\ ready_queue \in Seq(Task) /\ current \in Task /\ live \subseteq Task
      /\ pc \in [Task -> Points] /\ Idle \in live /\ current \in live
  BY DEF SInv, TypeOK, NoUseAfterFree, IdleInv
<1>2. pc[current] \in {"user", "boot"} /\ t \notin live /\ current' = current
      /\ zombie_queue' = zombie_queue /\ live' = live \cup {t}
  BY DEF Fork, ExecCreate, create
<1>3. InHand = {} /\ Victims = {}
  BY <1>2, NotIdle DEF IdlePoints, Victims, LInv, OneKiller
<1>4. Range(ready_queue') = Range(ready_queue) \cup {t}
  <2>1. ready_queue' = Append(ready_queue, t)
    BY DEF Fork, ExecCreate, create, add_thread_task
  <2>2. Range(Append(ready_queue, t)) = Range(ready_queue) \cup {t}
    BY <1>1, AppendFacts
  <2> QED
    BY <2>1, <2>2
<1>5. \A u \in live : u # current => pc'[u] = pc[u]
  BY <1>1, <1>2 DEF Fork, ExecCreate, create
<1>6. pc'[current] \in {"user", "boot", "enter"} /\ pc'[t] \in {"user", "fresh"}
  BY <1>1, <1>2 DEF Fork, ExecCreate, create
<1>7. \A u \in live' : pc'[u] # "removed"
  BY <1>1, <1>2, <1>5, <1>6 DEF LInv, OneKiller
<1>8. \A u \in live' : pc'[u] # "gone" =>
         u = current' \/ u \in Range(ready_queue') \/ u \in Range(zombie_queue')
  BY <1>1, <1>2, <1>3, <1>4, <1>5, <1>6 DEF LInv, NoThreadLost
<1> QED
  BY <1>7, <1>8 DEF LInv, NoThreadLost, OneKiller

\* _exec replaces the caller by the new thread: the caller is gone.
LEMMA ExecEnterKeeps ==
    ASSUME SInv, LInv, ExecEnter
    PROVE  LInv'
<1>1. /\ current \in Task /\ live \subseteq Task /\ pc \in [Task -> Points] /\ current \in live
      /\ state[current] = "RUNNING" /\ arg[current] \in Range(ready_queue) /\ arg[current] # current
      /\ pc[current] = "enter" /\ current \notin Range(ready_queue)
  BY DEF ExecEnter, SInv, TypeOK, NoUseAfterFree, CurrentInv, StateMatchesQueue
<1>2. /\ current' = arg[current] /\ UNCHANGED <<ready_queue, zombie_queue, live>>
      /\ pc' = [pc EXCEPT ![current] = "gone", ![arg[current]] = "user"]
  BY <1>1 DEF ExecEnter, queues
<1>3. InHand = {} /\ Victims = {}
  BY <1>1, NotIdle DEF IdlePoints, Victims, LInv, OneKiller
<1>4. /\ pc'[current] = "gone" /\ pc'[arg[current]] = "user"
      /\ \A u \in live : u # current /\ u # arg[current] => pc'[u] = pc[u]
  <2>1. arg[current] \in Task
    BY <1>1, RangeInTask DEF SInv, TypeOK
  <2> QED
    BY <1>1, <1>2, <2>1
<1>5. \A u \in live' : pc'[u] # "removed"
  BY <1>1, <1>2, <1>4 DEF LInv, OneKiller
<1>6. \A u \in live' : pc'[u] # "gone" =>
         u = current' \/ u \in Range(ready_queue') \/ u \in Range(zombie_queue')
  BY <1>1, <1>2, <1>3, <1>4 DEF LInv, NoThreadLost
<1> QED
  BY <1>5, <1>6 DEF LInv, NoThreadLost, OneKiller

\* _exit and _kill take a thread off the ready queue that is current or a victim, and
\* hand it on to the zombies.
LEMMA CallKeeps ==
    ASSUME SInv, LInv,
           \/ Exit \/ ExitMark \/ KillRemove \/ KillMark \/ ForkFails
           \/ \E pid \in Killable : Kill(pid)
    PROVE  LInv'
<1>1. /\ current \in Task /\ live \subseteq Task /\ pc \in [Task -> Points] /\ current \in live
      /\ ready_queue \in Seq(Task) /\ zombie_queue \in Seq(Task) /\ IsInjective(ready_queue)
      /\ arg \in [Task -> Task \cup {NULL}] /\ Idle \in Task
  BY TaskAssumption DEF SInv, TypeOK, NoUseAfterFree, LinkedOnce
<1>2. /\ pc[current] \in {"user", "exit", "found", "removed"}
      /\ current' = current /\ live' = live
  BY DEF Exit, ExitMark, KillRemove, KillMark, ForkFails, Kill
<1>3. InHand = {}
  BY <1>2, NotIdle DEF IdlePoints
<1>4. \A u \in live : u # current => pc'[u] = pc[u]
  BY <1>1 DEF Exit, ExitMark, KillRemove, KillMark, ForkFails, Kill
<1>5. OneKiller'
  BY <1>1, <1>2, <1>4 DEF LInv, OneKiller
<1>6. pc[current] # "removed" => Victims = {}
  BY DEF Victims, LInv, OneKiller
<1>7. Victims \subseteq {arg[current]}
  BY DEF Victims, LInv, OneKiller
<1>8. CASE Exit
  <2>1. Range(ready_queue') = Range(ready_queue) \ {current} /\ zombie_queue' = zombie_queue
    BY <1>1, <1>8, RemoveFacts DEF Exit
  <2>2. \A u \in live' : pc'[u] # "gone" =>
           u = current' \/ u \in Range(ready_queue') \/ u \in Range(zombie_queue')
    BY <1>2, <1>3, <1>4, <1>6, <1>8, <2>1 DEF LInv, NoThreadLost, Exit
  <2> QED
    BY <1>5, <2>2 DEF LInv, NoThreadLost
<1>9. CASE ExitMark \/ ForkFails \/ \E pid \in Killable : Kill(pid)
  <2>1. ready_queue' = ready_queue /\ zombie_queue' = zombie_queue /\ pc[current] # "removed"
    BY <1>9 DEF ExitMark, ForkFails, Kill, queues
  <2>2. \A u \in live' : pc'[u] # "gone" =>
           u = current' \/ u \in Range(ready_queue') \/ u \in Range(zombie_queue')
    BY <1>2, <1>3, <1>4, <1>6, <2>1 DEF LInv, NoThreadLost
  <2> QED
    BY <1>5, <2>2 DEF LInv, NoThreadLost
<1>10. CASE KillRemove
  <2>1. /\ Range(ready_queue') = Range(ready_queue) \ {arg[current]} /\ zombie_queue' = zombie_queue
        /\ arg' = arg /\ pc[current] # "removed" /\ pc'[current] = "removed"
    BY <1>1, <1>10, RemoveFacts DEF KillRemove
  <2>2. arg[current] \in Victims'
    BY <1>1, <1>2, <2>1 DEF Victims
  <2>3. \A u \in live' : pc'[u] # "gone" =>
           u = current' \/ u \in Range(ready_queue') \/ u \in Range(zombie_queue') \/ u \in Victims'
    BY <1>2, <1>3, <1>4, <1>6, <2>1, <2>2 DEF LInv, NoThreadLost
  <2> QED
    BY <1>5, <2>3 DEF LInv, NoThreadLost
<1>11. CASE KillMark
  <2>1. ready_queue' = ready_queue /\ arg[current] \in Task
    BY <1>11, <1>1 DEF KillMark, SInv, CurrentInv
  <2>2. Range(Append(zombie_queue, arg[current])) = Range(zombie_queue) \cup {arg[current]}
    BY <1>1, <2>1, AppendFacts
  <2>3. Range(zombie_queue) \subseteq Range(zombie_queue')
        /\ (arg[current] = current \/ arg[current] \in Range(zombie_queue'))
    BY <1>11, <2>2 DEF KillMark, add_thread_task
  <2>4. \A u \in live' : pc'[u] # "gone" =>
           u = current' \/ u \in Range(ready_queue') \/ u \in Range(zombie_queue')
    BY <1>2, <1>3, <1>4, <1>7, <2>1, <2>3 DEF LInv, NoThreadLost
  <2> QED
    BY <1>5, <2>4 DEF LInv, NoThreadLost
<1> QED
  BY <1>8, <1>9, <1>10, <1>11

\* idle takes a zombie in hand, frees it, and is done.
LEMMA IdleKeeps ==
    ASSUME SInv, LInv, Reap \/ FreeZombie \/ ReapDone
    PROVE  LInv'
<1>1. /\ current \in Task /\ live \subseteq Task /\ pc \in [Task -> Points]
      /\ zombie_queue \in Seq(Task) /\ IsInjective(zombie_queue)
      /\ arg \in [Task -> Task \cup {NULL}] /\ Idle \in Task
  BY TaskAssumption DEF SInv, TypeOK, LinkedOnce
<1>2. pc[current] \in IdlePoints
  BY DEF Reap, FreeZombie, ReapDone, IdlePoints
<1>3. current = Idle /\ current' = Idle
  BY <1>2, IsIdle DEF Reap, FreeZombie, ReapDone
<1>4. live' \subseteq live /\ ready_queue' = ready_queue
      /\ \A u \in live : u # Idle => pc'[u] = pc[u]
  BY <1>1, <1>3 DEF Reap, FreeZombie, ReapDone, queues
<1>5. pc'[Idle] # "removed"
  BY <1>1, <1>3 DEF Reap, FreeZombie, ReapDone
<1>6. OneKiller'
  BY <1>3, <1>4, <1>5 DEF LInv, OneKiller
<1>7. Victims = {}
  BY <1>2, <1>3 DEF Victims, LInv, OneKiller, IdlePoints
<1>8. CASE Reap
  <2>1. zombie_queue # <<>> /\ zombie_queue' = Tail(zombie_queue) /\ pc[Idle] = "reap"
        /\ pc'[Idle] = "free" /\ arg'[Idle] = Head(zombie_queue)
    BY <1>1, <1>3, <1>8 DEF Reap
  <2>2. Range(zombie_queue') = Range(zombie_queue) \ {Head(zombie_queue)}
    BY <1>1, <2>1, TailFacts
  <2>3. InHand' = {Head(zombie_queue)} /\ InHand = {}
    BY <2>1 DEF InHand
  <2>4. \A u \in live' : pc'[u] # "gone" =>
           u = current' \/ u \in Range(ready_queue') \/ u \in Range(zombie_queue') \/ u \in InHand'
    BY <1>3, <1>4, <1>7, <2>2, <2>3 DEF LInv, NoThreadLost
  <2> QED
    BY <1>6, <2>4 DEF LInv, NoThreadLost
<1>9. CASE FreeZombie
  <2>1. zombie_queue' = zombie_queue /\ live' = live \ {arg[Idle]} /\ pc[Idle] = "free"
    BY <1>3, <1>9 DEF FreeZombie, queues
  <2>2. InHand = {arg[Idle]}
    BY <2>1 DEF InHand
  <2>3. \A u \in live' : pc'[u] # "gone" =>
           u = current' \/ u \in Range(ready_queue') \/ u \in Range(zombie_queue')
    BY <1>3, <1>4, <1>7, <2>1, <2>2 DEF LInv, NoThreadLost
  <2> QED
    BY <1>6, <2>3 DEF LInv, NoThreadLost
<1>10. CASE ReapDone
  <2>1. zombie_queue' = zombie_queue /\ pc[Idle] = "reap"
    BY <1>3, <1>10 DEF ReapDone, queues
  <2>2. InHand = {}
    BY <2>1 DEF InHand
  <2>3. \A u \in live' : pc'[u] # "gone" =>
           u = current' \/ u \in Range(ready_queue') \/ u \in Range(zombie_queue')
    BY <1>3, <1>4, <1>7, <2>1, <2>2 DEF LInv, NoThreadLost
  <2> QED
    BY <1>6, <2>3 DEF LInv, NoThreadLost
<1> QED
  BY <1>8, <1>9, <1>10

\* Every live thread that has something left to do is current, on a queue or in the
\* hands of idle or of its killer, if the timer does not strike _exit between the
\* removal from the ready queue and the mark.
THEOREM NothingForgotten ==
    ASSUME Guarded, "exit" \notin Windows
    PROVE  Spec => []NoThreadLost
<1>1. Init => LInv
  <2> SUFFICES ASSUME Init PROVE LInv
    OBVIOUS
  <2>1. current = BootTask /\ ready_queue = <<Idle>> /\ live = {BootTask, Idle}
        /\ pc[BootTask] = "boot" /\ pc[Idle] = "switched"
    BY TaskAssumption DEF Init
  <2>2. 1 \in DOMAIN ready_queue /\ ready_queue[1] = Idle
    BY <2>1
  <2>3. Idle \in Range(ready_queue)
    BY <2>2 DEF Range
  <2> QED
    BY <2>1, <2>3 DEF LInv, NoThreadLost, OneKiller
<1>2. SInv /\ LInv /\ [Next]_vars => LInv'
  <2> SUFFICES ASSUME SInv, LInv, [Next]_vars PROVE LInv'
    OBVIOUS
  <2>1. pc[current] \in Points
    BY DEF SInv, TypeOK
  <2>2. CASE Tick
    <3>1. pc[current] \notin {"exit", "removed"}
      BY <2>2 DEF Tick, Guarded, KernelPoints
    <3>2. CASE pc[current] # "free"
      BY <2>1, <2>2, <3>1, <3>2, SwitchKeeps DEF Tick
    <3>3. CASE pc[current] = "free"
      <4>1. FALSE
        BY <2>2, <3>3, IsIdle DEF Tick, IdlePoints, SInv, ReapIsMasked
      <4> QED
        BY <4>1
    <3> QED
      BY <3>2, <3>3
  <2>3. CASE ExitSchedule \/ IdleSchedule
    BY <2>3, SwitchKeeps DEF ExitSchedule, IdleSchedule, Points
  <2>4. CASE UNCHANGED vars
    BY <2>4 DEF vars, LInv, NoThreadLost, OneKiller, InHand, Victims
  <2> QED
    BY <2>2, <2>3, <2>4, CreateKeeps, ExecEnterKeeps, CallKeeps, IdleKeeps DEF Next, Step, Call
<1>3. LInv => NoThreadLost
  BY DEF LInv
<1> QED
  BY <1>1, <1>2, <1>3, Invariance, PTL DEF Spec

=============================================================================
