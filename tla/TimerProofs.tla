---------------------------- MODULE TimerProofs ----------------------------
(***************************************************************************)
(* Proofs about Timer, for every set of threads, times and memory: no      *)
(* block is lost or freed twice, however the handlers nest; and if they do *)
(* not nest, the hardware timer is always armed for the first timer.       *)
(***************************************************************************)
EXTENDS Timer, FiniteSetTheorems, TLAPS

-----------------------------------------------------------------------------
(* The inductive invariants *)

Pc == {"add", "loop", "call", "called", "free", "sched", "exit"}
Cb == {"", "keep", "msg"}
Item == [at : Int, cb : Cb]
Frame == [pc : Pc, cb : Cb, delay : Nat, tick : Int, removed : BOOLEAN]

TypeInv ==
    /\ list \in Seq(Item) /\ cval \in Nat /\ enabled \in BOOLEAN
    /\ mem \in Nat /\ lost \in Nat
    /\ current \in Thread /\ frames \in [Thread -> Seq(Frame)]

\* Every block has one owner, and the owners on the stacks can be counted.
BlocksInv == TypeInv /\ IsFiniteSet(InUse) /\ BlocksConserved

\* No call of the handler is on the stack.
Quiet(s) == \A i \in DOMAIN s : ~ InHandler(s[i])

\* Only add_timer runs on top of the handler.
Stacked(s) == \A i, j \in DOMAIN s : i < j /\ InHandler(s[i]) => s[j].pc = "add"

\* What the handler will find.
Finds(q, f) == q = <<>> \/ Head(q).at <= f.tick

\* A handler that has not removed a timer yet will find one to remove.
Coming(q, s) ==
    \A i \in DOMAIN s :
        InHandler(s[i]) /\ ~ s[i].removed =>
            i = Len(s) /\ s[i].pc = "loop" /\ Finds(q, s[i])

\* No call has read a tick count that is still to come.
Late(s) == \A i \in DOMAIN s : s[i].tick <= 0

\* The list is sorted.
InOrder(q) == \A i, j \in DOMAIN q : i < j => q[i].at <= q[j].at

\* At most the current thread is in the handler, once, and it has something to do.
AllQuiet(F) == \A t \in Thread : Quiet(F[t])
Calm(q, c, F) ==
    /\ \A t \in Thread : Late(F[t]) /\ (t # c => Quiet(F[t]))
    /\ Stacked(F[c]) /\ Coming(q, F[c])

\* Outside the handler the hardware timer is set for the first timer.
Ready == AllQuiet(frames) /\ list # <<>> => enabled /\ Head(list).at <= cval

ArmedInv == TypeInv /\ Calm(list, current, frames) /\ InOrder(list) /\ Ready

-----------------------------------------------------------------------------
(* Sequences *)

\* The last element and the rest.
LEMMA FrontFacts ==
    ASSUME NEW S, NEW s \in Seq(S), s # <<>>
    PROVE  /\ Len(s) \in Nat \ {0} /\ DOMAIN s = 1 .. Len(s)
           /\ Last(s) = s[Len(s)] /\ Last(s) \in S
           /\ Front(s) \in Seq(S) /\ Len(Front(s)) = Len(s) - 1
           /\ DOMAIN Front(s) = 1 .. Len(s) - 1
           /\ \A i \in 1 .. Len(s) - 1 : Front(s)[i] = s[i]
<1>1. Len(s) \in Nat \ {0} /\ DOMAIN s = 1 .. Len(s)
  OBVIOUS
<1>2. Last(s) = s[Len(s)] /\ Last(s) \in S
  BY <1>1 DEF Last
<1>3. /\ Front(s) \in Seq(S) /\ Len(Front(s)) = Len(s) - 1
      /\ \A i \in 1 .. Len(s) - 1 : Front(s)[i] = s[i]
  BY <1>1 DEF Front
<1>4. DOMAIN Front(s) = 1 .. Len(s) - 1
  BY <1>3
<1> QED
  BY <1>1, <1>2, <1>3, <1>4

\* An element more.
LEMMA AppendFacts ==
    ASSUME NEW S, NEW s \in Seq(S), NEW x \in S
    PROVE  /\ Append(s, x) \in Seq(S) /\ Len(s) \in Nat /\ Len(Append(s, x)) = Len(s) + 1
           /\ DOMAIN s = 1 .. Len(s) /\ DOMAIN Append(s, x) = 1 .. Len(s) + 1
           /\ \A i \in 1 .. Len(s) : Append(s, x)[i] = s[i]
           /\ Append(s, x)[Len(s) + 1] = x
  OBVIOUS

\* A set of numbers has a least element.
LEMMA Least ==
    ASSUME NEW T, T \subseteq Nat, T # {}
    PROVE  Min(T) \in T /\ \A m \in T : Min(T) <= m
<1>1. PICK n \in T : \A m \in T : ~ (<<m, n>> \in OpToRel(<, Nat))
  BY NatLessThanWellFounded, WFMin, Zenon
<1>2. \A m \in T : ~ (m < n)
  BY <1>1 DEF OpToRel
<1>3. n \in T /\ \A m \in T : n <= m
  BY <1>2
<1> QED
  BY <1>3, Zenon DEF Min

-----------------------------------------------------------------------------
(* Types *)

\* The stack of the current thread.
LEMMA StackFacts ==
    ASSUME TypeInv, frames[current] # <<>>
    PROVE  /\ frames[current] \in Seq(Frame) /\ Front(frames[current]) \in Seq(Frame)
           /\ top \in Frame
<1>1. frames[current] \in Seq(Frame)
  BY DEF TypeInv
<1> QED
  BY <1>1, FrontFacts DEF top

\* The calls that are made are frames.
LEMMA NewFrames ==
    /\ Handler \in Frame
    /\ \A cb \in Cb : \A d \in Nat : Add(cb, d) \in Frame
    /\ \A f \in Frame : \A c \in Cb :
          [f EXCEPT !.pc = "call", !.cb = c, !.removed = TRUE] \in Frame
    /\ \A f \in Frame : /\ [f EXCEPT !.pc = "called"] \in Frame
                        /\ [f EXCEPT !.pc = "free"] \in Frame
                        /\ [f EXCEPT !.pc = "loop", !.cb = ""] \in Frame
                        /\ [f EXCEPT !.pc = "sched", !.tick = 0] \in Frame
                        /\ [f EXCEPT !.pc = "exit", !.removed = FALSE] \in Frame
<1>1. Handler \in Frame
  BY DEF Handler, Frame, Pc, Cb
<1>2. ASSUME NEW cb \in Cb, NEW d \in Nat PROVE Add(cb, d) \in Frame
  <2>1. PICK z \in Int : z = 0
    OBVIOUS
  <2>2. [pc |-> "add", cb |-> cb, delay |-> d, tick |-> z, removed |-> FALSE] \in Frame
    BY DEF Frame, Pc
  <2> QED
    BY <2>1, <2>2 DEF Add
<1>3. ASSUME NEW f \in Frame, NEW c \in Cb
      PROVE  [f EXCEPT !.pc = "call", !.cb = c, !.removed = TRUE] \in Frame
  BY DEF Frame, Pc
<1>4. ASSUME NEW f \in Frame PROVE [f EXCEPT !.pc = "called"] \in Frame /\ [f EXCEPT !.pc = "free"] \in Frame
  BY DEF Frame, Pc
<1>5. ASSUME NEW f \in Frame PROVE [f EXCEPT !.pc = "loop", !.cb = ""] \in Frame
  BY DEF Frame, Pc, Cb
<1>6. ASSUME NEW f \in Frame PROVE [f EXCEPT !.pc = "sched", !.tick = 0] \in Frame
  <2>1. PICK z \in Int : z = 0
    OBVIOUS
  <2>2. [f EXCEPT !.pc = "sched", !.tick = z] \in Frame
    BY DEF Frame, Pc
  <2> QED
    BY <2>1, <2>2
<1>7. ASSUME NEW f \in Frame PROVE [f EXCEPT !.pc = "exit", !.removed = FALSE] \in Frame
  BY DEF Frame, Pc
<1> QED
  BY <1>1, <1>2, <1>3, <1>4, <1>5, <1>6, <1>7, Zenon

\* How time passes.
LEMMA DownFacts ==
    /\ \A x \in Int : Down(x) \in Int /\ Down(x) <= x
    /\ \A x, y \in Int : x <= y => Down(x) <= Down(y)
    /\ \A x \in Int : \A n \in Nat : x <= n => Down(x) <= (IF n > 0 THEN n - 1 ELSE 0)
<1>1. MaxLate \in Nat
  BY TimerAssumption
<1> QED
  BY <1>1 DEF Down

\* A new timer goes before the first one that does not expire earlier, and the
\* list stays in order.
LEMMA InsertFacts ==
    ASSUME NEW q \in Seq(Item), NEW x \in Item
    PROVE  /\ Insert(q, x) \in Seq(Item) /\ Len(Insert(q, x)) = Len(q) + 1
           /\ Insert(q, x) # <<>>
           /\ InOrder(q) => InOrder(Insert(q, x))
           /\ q = <<>> => Head(Insert(q, x)) = x
           /\ q # <<>> => Head(Insert(q, x)) = IF Head(q).at >= x.at THEN x ELSE Head(q)
<1> DEFINE later == {i \in DOMAIN q : x.at <= q[i].at}
           k == IF later = {} THEN Len(q) + 1 ELSE Min(later)
           r == InsertAt(q, k, x)
<1>1. Len(q) \in Nat /\ DOMAIN q = 1 .. Len(q)
  OBVIOUS
<1>2. \A i \in 1 .. Len(q) : q[i] \in Item /\ q[i].at \in Int
  <2>1. \A i \in 1 .. Len(q) : q[i] \in Item
    OBVIOUS
  <2>2. \A e \in Item : e.at \in Int
    BY DEF Item
  <2> QED
    BY <2>1, <2>2
<1>3. x.at \in Int
  BY DEF Item
<1>4. /\ k \in 1 .. Len(q) + 1
      /\ \A i \in 1 .. Len(q) : i < k => q[i].at < x.at
      /\ k <= Len(q) => x.at <= q[k].at
  <2>1. CASE later = {}
    <3>1. k = Len(q) + 1
      BY <2>1
    <3> QED
      BY <1>1, <1>2, <1>3, <2>1, <3>1
  <2>2. CASE later # {}
    <3>1. later \subseteq Nat
      BY <1>1
    <3>2. k = Min(later)
      BY <2>2
    <3>3. k \in later /\ \A m \in later : k <= m
      BY <2>2, <3>1, <3>2, Least
    <3> HIDE DEF k
    <3>4. \A i \in 1 .. Len(q) : i < k => i \notin later
      BY <1>1, <3>1, <3>3
    <3>5. \A i \in 1 .. Len(q) : i \notin later => q[i].at < x.at
      BY <1>1, <1>2, <1>3
    <3> QED
      BY <1>1, <3>3, <3>4, <3>5
  <2> QED
    BY <2>1, <2>2
<1> HIDE DEF k
<1>5. /\ r \in Seq(Item) /\ Len(r) = Len(q) + 1
      /\ \A i \in 1 .. Len(q) + 1 : r[i] = IF i < k THEN q[i] ELSE IF i = k THEN x ELSE q[i - 1]
  <2>1. /\ SubSeq(q, 1, k - 1) \in Seq(Item) /\ Len(SubSeq(q, 1, k - 1)) = k - 1
        /\ \A i \in 1 .. k - 1 : SubSeq(q, 1, k - 1)[i] = q[i]
    BY <1>1, <1>4
  <2>2. /\ SubSeq(q, k, Len(q)) \in Seq(Item) /\ Len(SubSeq(q, k, Len(q))) = Len(q) + 1 - k
        /\ \A i \in 1 .. Len(q) + 1 - k : SubSeq(q, k, Len(q))[i] = q[k + i - 1]
    BY <1>1, <1>4
  <2> DEFINE a == SubSeq(q, 1, k - 1)
             b == SubSeq(q, k, Len(q))
             c == a \o <<x>>
  <2>3. a \in Seq(Item) /\ Len(a) = k - 1 /\ \A i \in 1 .. k - 1 : a[i] = q[i]
    BY <2>1
  <2>4. b \in Seq(Item) /\ Len(b) = Len(q) + 1 - k /\ \A i \in 1 .. Len(q) + 1 - k : b[i] = q[k + i - 1]
    BY <2>2
  <2> HIDE DEF a, b
  <2>5. c \in Seq(Item) /\ Len(c) = k /\ c[k] = x /\ \A i \in 1 .. k - 1 : c[i] = q[i]
    <3>1. /\ a \o <<x>> \in Seq(Item) /\ Len(a \o <<x>>) = Len(a) + 1 /\ (a \o <<x>>)[Len(a) + 1] = x
          /\ \A i \in 1 .. Len(a) : (a \o <<x>>)[i] = a[i]
      BY <2>3
    <3>2. Len(a) = k - 1 /\ Len(a) + 1 = k
      BY <1>1, <1>4, <2>3
    <3> QED
      BY <2>3, <3>1, <3>2
  <2> HIDE DEF c
  <2>6. r = c \o b
    BY DEF r, InsertAt, a, b, c
  <2>7. /\ c \o b \in Seq(Item) /\ Len(c \o b) = Len(q) + 1
        /\ \A i \in 1 .. Len(q) + 1 : (c \o b)[i] = IF i <= k THEN c[i] ELSE b[i - k]
    <3>1. /\ c \o b \in Seq(Item) /\ Len(c \o b) = Len(c) + Len(b)
          /\ \A i \in 1 .. Len(c) + Len(b) : (c \o b)[i] = IF i <= Len(c) THEN c[i] ELSE b[i - Len(c)]
      BY <2>4, <2>5
    <3>2. Len(c) + Len(b) = Len(q) + 1
      BY <1>1, <1>4, <2>4, <2>5
    <3> QED
      BY <2>5, <3>1, <3>2
  <2> HIDE DEF r
  <2>8. \A i \in 1 .. Len(q) + 1 : i > k => i - k \in 1 .. Len(q) + 1 - k /\ k + (i - k) - 1 = i - 1
    BY <1>1, <1>4
  <2>9. ASSUME NEW i \in 1 .. Len(q) + 1
        PROVE  r[i] = IF i < k THEN q[i] ELSE IF i = k THEN x ELSE q[i - 1]
    <3>1. r[i] = IF i <= k THEN c[i] ELSE b[i - k]
      BY <2>6, <2>7
    <3>2. i \in Int /\ k \in Int
      BY <1>1, <1>4
    <3>3. CASE i < k
      <4>1. c[i] = q[i]
        BY <1>1, <1>4, <2>5, <3>3
      <4> QED
        BY <3>1, <3>2, <3>3, <4>1
    <3>4. CASE i = k
      BY <2>5, <3>1, <3>2, <3>4
    <3>5. CASE i > k
      <4>1. i - k \in 1 .. Len(q) + 1 - k /\ k + (i - k) - 1 = i - 1
        BY <2>8, <3>5
      <4>2. b[i - k] = q[i - 1]
        BY <2>4, <4>1
      <4> QED
        BY <3>1, <3>2, <3>5, <4>2
    <3> QED
      BY <3>2, <3>3, <3>4, <3>5
  <2> QED
    BY <2>6, <2>7, <2>9
<1>6. r # <<>>
  BY <1>1, <1>5
<1>7. ASSUME InOrder(q) PROVE InOrder(r)
  <2>1. DOMAIN r = 1 .. Len(q) + 1
    BY <1>5
  <2>2. \A i, j \in 1 .. Len(q) : i < j => q[i].at <= q[j].at
    BY <1>1, <1>7 DEF InOrder
  <2>3. ASSUME NEW i \in 1 .. Len(q) + 1, NEW j \in 1 .. Len(q) + 1, i < j
        PROVE  r[i].at <= r[j].at
    <3>1. CASE j < k
      BY <1>1, <1>4, <1>5, <2>2, <2>3, <3>1
    <3>2. CASE j = k
      BY <1>1, <1>2, <1>3, <1>4, <1>5, <2>3, <3>2
    <3>3. CASE j > k /\ i = k
      <4>1. r[i] = x /\ r[j] = q[j - 1] /\ j - 1 \in 1 .. Len(q) /\ k \in 1 .. Len(q) /\ k <= j - 1
        BY <1>1, <1>4, <1>5, <2>3, <3>3
      <4>2. q[k].at <= q[j - 1].at
        BY <1>2, <2>2, <4>1
      <4> QED
        BY <1>2, <1>3, <1>4, <4>1, <4>2
    <3>4. CASE j > k /\ i < k
      <4>1. ~ (j < k) /\ j # k /\ i < k
        BY <1>1, <1>4, <3>4
      <4>2. r[i] = q[i] /\ r[j] = q[j - 1]
        BY <1>5, <4>1
      <4>3. i \in 1 .. Len(q) /\ j - 1 \in 1 .. Len(q) /\ i < j - 1
        BY <1>1, <1>4, <2>3, <3>4
      <4> QED
        BY <2>2, <4>2, <4>3
    <3>5. CASE j > k /\ i > k
      <4>1. ~ (i < k) /\ i # k /\ ~ (j < k) /\ j # k
        BY <1>1, <1>4, <3>5
      <4>3. r[i] = q[i - 1] /\ r[j] = q[j - 1]
        BY <1>5, <4>1
      <4>2. i - 1 \in 1 .. Len(q) /\ j - 1 \in 1 .. Len(q) /\ i - 1 < j - 1
        BY <1>1, <1>4, <2>3, <3>5
      <4> QED
        BY <2>2, <4>2, <4>3
    <3> QED
      BY <1>4, <3>1, <3>2, <3>3, <3>4, <3>5
  <2> HIDE DEF r
  <2> QED
    BY <2>1, <2>3 DEF InOrder
<1>8. Head(r) = r[1]
  BY <1>5, <1>6
<1>9. q = <<>> => Head(r) = x
  BY <1>1, <1>4, <1>5, <1>8
<1>10. ASSUME q # <<>> PROVE Head(r) = IF Head(q).at >= x.at THEN x ELSE Head(q)
  <2>1. Len(q) >= 1 /\ Head(q) = q[1]
    BY <1>1, <1>10
  <2>2. CASE k = 1
    BY <1>1, <1>2, <1>3, <1>4, <1>5, <1>8, <2>1, <2>2
  <2>3. CASE k # 1
    BY <1>1, <1>2, <1>3, <1>4, <1>5, <1>8, <2>1, <2>3
  <2> QED
    BY <2>2, <2>3
<1>11. Insert(q, x) = r
  BY DEF Insert, r, k
<1> HIDE DEF r
<1> QED
  BY <1>5, <1>6, <1>7, <1>9, <1>10, <1>11, Zenon

\* A new stack for a thread.
LEMMA NewStack ==
    ASSUME NEW F \in [Thread -> Seq(Frame)], NEW u \in Thread, NEW s \in Seq(Frame)
    PROVE  [F EXCEPT ![u] = s] \in [Thread -> Seq(Frame)]
  OBVIOUS

\* What a step on the stack of the current thread leaves there.
LEMMA StackSteps ==
    ASSUME TypeInv
    PROVE  /\ \A f \in Frame : Push(f) => frames' = [frames EXCEPT ![current] = Append(frames[current], f)]
           /\ \A f \in Frame : Replace(f) =>
                 frames' = [frames EXCEPT ![current] = Append(Front(frames[current]), f)]
           /\ Leave => frames' = [frames EXCEPT ![current] = Front(frames[current])]
           /\ \A f \in Frame : Append(frames[current], f) \in Seq(Frame)
           /\ frames[current] # <<>> => Front(frames[current]) \in Seq(Frame)
           /\ frames[current] # <<>> => \A f \in Frame : Append(Front(frames[current]), f) \in Seq(Frame)
<1>1. frames[current] \in Seq(Frame)
  BY DEF TypeInv
<1>2. frames[current] # <<>> => Front(frames[current]) \in Seq(Frame)
  BY StackFacts
<1>3. \A s \in Seq(Frame) : \A f \in Frame : Append(s, f) \in Seq(Frame)
  BY AppendFacts
<1> QED
  BY <1>1, <1>2, <1>3 DEF TypeInv, Push, Replace, Leave

\* Pushing a frame keeps the stacks' types.
LEMMA PushTypes ==
    ASSUME TypeInv, NEW f \in Frame, Push(f)
    PROVE  frames' \in [Thread -> Seq(Frame)]
<1>1. PICK s \in Seq(Frame) : frames' = [frames EXCEPT ![current] = s]
  BY StackSteps
<1> QED
  BY <1>1, NewStack DEF TypeInv

\* Replacing a frame does too.
LEMMA ReplaceTypes ==
    ASSUME TypeInv, frames[current] # <<>>, NEW f \in Frame, Replace(f)
    PROVE  frames' \in [Thread -> Seq(Frame)]
<1>1. PICK s \in Seq(Frame) : frames' = [frames EXCEPT ![current] = s]
  BY StackSteps
<1> QED
  BY <1>1, NewStack DEF TypeInv

\* What CallKeep leaves on the stack.
LEMMA CallKeepStack ==
    ASSUME TypeInv, frames[current] # <<>>
    PROVE  \A f, g \in Frame :
              /\ Front(frames[current]) \o <<f, g>> = Append(Append(Front(frames[current]), f), g)
              /\ Append(Append(Front(frames[current]), f), g) \in Seq(Frame)
<1>1. PICK r \in Seq(Frame) : r = Front(frames[current])
  BY StackSteps
<1>2. ASSUME NEW f \in Frame, NEW g \in Frame
      PROVE  r \o <<f, g>> = Append(Append(r, f), g) /\ Append(Append(r, f), g) \in Seq(Frame)
  <2> DEFINE a == r \o <<f, g>>
             b == Append(Append(r, f), g)
  <2>1. a \in Seq(Frame) /\ b \in Seq(Frame) /\ Len(r) \in Nat /\ Len(a) = Len(r) + 2 /\ Len(b) = Len(r) + 2
    OBVIOUS
  <2>2. \A i \in 1 .. Len(r) + 2 : a[i] = IF i <= Len(r) THEN r[i] ELSE IF i = Len(r) + 1 THEN f ELSE g
    BY <2>1
  <2>3. \A i \in 1 .. Len(r) + 2 : b[i] = IF i <= Len(r) THEN r[i] ELSE IF i = Len(r) + 1 THEN f ELSE g
    BY <2>1
  <2> HIDE DEF a, b
  <2>4. \A s \in Seq(Frame) : s = [i \in 1 .. Len(s) |-> s[i]]
    OBVIOUS
  <2>5. a = b
    BY <2>1, <2>2, <2>3, <2>4
  <2> QED
    BY <2>1, <2>5 DEF a, b
<1> QED
  BY <1>1, <1>2, Zenon

\* When time passes, stacks keep their height and their frames only get later.
LEMMA TickStacks ==
    ASSUME TypeInv, Tick
    PROVE  /\ frames' \in [Thread -> Seq(Frame)]
           /\ \A t \in Thread : DOMAIN frames'[t] = DOMAIN frames[t] /\ Len(frames'[t]) = Len(frames[t])
           /\ \A t \in Thread : \A i \in DOMAIN frames[t] :
                 frames'[t][i] = IF frames[t][i].pc \in {"sched", "exit"} THEN frames[t][i]
                                 ELSE [frames[t][i] EXCEPT !.tick = Down(@)]
<1> DEFINE g(f) == IF f.pc \in {"sched", "exit"} THEN f ELSE [f EXCEPT !.tick = Down(f.tick)]
<1>1. \A f \in Frame : g(f) \in Frame
  <2>1. \A f \in Frame : f.tick \in Int
    BY DEF Frame
  <2>2. \A f \in Frame : \A n \in Int : [f EXCEPT !.tick = n] \in Frame
    BY DEF Frame
  <2>3. \A f \in Frame : Down(f.tick) \in Int
    BY <2>1, DownFacts
  <2> QED
    BY <2>2, <2>3
<1>2. frames' = [t \in Thread |-> [i \in DOMAIN frames[t] |-> g(frames[t][i])]]
  BY DEF Tick
<1> HIDE DEF g
<1>3. ASSUME NEW t \in Thread
      PROVE  /\ frames'[t] \in Seq(Frame) /\ DOMAIN frames'[t] = DOMAIN frames[t]
             /\ Len(frames'[t]) = Len(frames[t])
             /\ \A i \in DOMAIN frames[t] : frames'[t][i] = g(frames[t][i])
  <2>1. PICK s \in Seq(Frame) : s = frames[t]
    BY DEF TypeInv
  <2>2. DOMAIN s = 1 .. Len(s) /\ Len(s) \in Nat /\ \A i \in 1 .. Len(s) : s[i] \in Frame
    OBVIOUS
  <2>3. PICK r : r = [i \in 1 .. Len(s) |-> g(s[i])]
    OBVIOUS
  <2>4. frames'[t] = r
    BY <1>2, <2>1, <2>2, <2>3
  <2>5. r \in Seq(Frame) /\ Len(r) = Len(s)
    BY <1>1, <2>2, <2>3
  <2> QED
    BY <2>1, <2>2, <2>3, <2>4, <2>5
<1> QED
  BY <1>2, <1>3 DEF g

\* So do the timers.
LEMMA TickList ==
    ASSUME TypeInv, Tick
    PROVE  /\ list' \in Seq(Item) /\ Len(list') = Len(list) /\ DOMAIN list' = DOMAIN list
           /\ \A i \in DOMAIN list : list'[i].at = Down(list[i].at)
           /\ list' = <<>> <=> list = <<>>
<1>1. PICK q \in Seq(Item) : q = list
  BY DEF TypeInv
<1>2. DOMAIN q = 1 .. Len(q) /\ Len(q) \in Nat /\ \A i \in 1 .. Len(q) : q[i] \in Item
  OBVIOUS
<1>3. ASSUME NEW e \in Item
      PROVE  [e EXCEPT !.at = Down(e.at)] \in Item /\ [e EXCEPT !.at = Down(e.at)].at = Down(e.at)
  <2>1. e.at \in Int
    BY DEF Item
  <2>2. PICK n \in Int : n = Down(e.at)
    BY <2>1, DownFacts
  <2> QED
    BY <2>2 DEF Item
<1>4. PICK r : r = [i \in 1 .. Len(q) |-> [q[i] EXCEPT !.at = Down(q[i].at)]]
  OBVIOUS
<1>5. list' = r
  BY <1>1, <1>2, <1>4 DEF Tick
<1>6. r \in [1 .. Len(q) -> Item] /\ \A i \in 1 .. Len(q) : r[i].at = Down(q[i].at)
  BY <1>2, <1>3, <1>4
<1>7. r \in Seq(Item) /\ Len(r) = Len(q) /\ DOMAIN r = 1 .. Len(q)
  BY <1>2, <1>6
<1> QED
  BY <1>1, <1>2, <1>5, <1>6, <1>7

\* The timer that add_timer inserts.
LEMMA NewTimer ==
    ASSUME TypeInv, At("add")
    PROVE  [at |-> top.tick + top.delay, cb |-> top.cb] \in Item
<1>1. top \in Frame
  BY StackFacts DEF At
<1>2. top.tick \in Int /\ top.delay \in Nat /\ top.cb \in Cb
  BY <1>1 DEF Frame
<1>3. PICK n \in Int : n = top.tick + top.delay
  BY <1>2
<1> QED
  BY <1>2, <1>3 DEF Item

\* The blocks that one more call has in use.
Taking(f) == f.pc \in {"call", "called", "free"}
Weight(f) == IF Taking(f) THEN 2 ELSE 1

\* Which blocks a stack has in use.
LEMMA OwnedBlocks ==
    ASSUME NEW t, NEW s, NEW x
    PROVE  x \in BlocksOn(t, s) <=>
              \E i \in DOMAIN s : x = <<t, <<i, "own">>>> \/ (x = <<t, <<i, "taken">>>> /\ Taking(s[i]))
  BY DEF BlocksOn, Taking

\* r with f on top.
OnTop(s, r, f) ==
    /\ Len(r) \in Nat /\ DOMAIN r = 1 .. Len(r) /\ DOMAIN s = 1 .. Len(r) + 1
    /\ \A i \in 1 .. Len(r) : s[i] = r[i]
    /\ s[Len(r) + 1] = f

\* A call on top adds its own blocks.
LEMMA BlocksOnTop ==
    ASSUME NEW t, NEW s, NEW r, NEW f, OnTop(s, r, f), IsFiniteSet(BlocksOn(t, r))
    PROVE  /\ IsFiniteSet(BlocksOn(t, s))
           /\ Cardinality(BlocksOn(t, s)) = Cardinality(BlocksOn(t, r)) + Weight(f)
<1> DEFINE n == Len(r) + 1
           own == <<t, <<n, "own">>>>
           taken == <<t, <<n, "taken">>>>
           A == BlocksOn(t, r)
<1>1. own \notin A /\ taken \notin A /\ own # taken
  BY OwnedBlocks DEF OnTop
<1>2. DOMAIN s = DOMAIN r \cup {n} /\ n \notin DOMAIN r
  BY DEF OnTop
<1>3. \A i \in DOMAIN r : s[i] = r[i]
  BY DEF OnTop
<1>4. s[n] = f
  BY DEF OnTop
<1> HIDE DEF n
<1>5. \A x : x \in BlocksOn(t, s) <=> x \in A \/ x = own \/ (x = taken /\ Taking(f))
  <2>1. \A x : x \in BlocksOn(t, s) <=>
           \E i \in DOMAIN s : x = <<t, <<i, "own">>>> \/ (x = <<t, <<i, "taken">>>> /\ Taking(s[i]))
    BY OwnedBlocks
  <2>2. \A x : x \in BlocksOn(t, r) <=>
           \E i \in DOMAIN r : x = <<t, <<i, "own">>>> \/ (x = <<t, <<i, "taken">>>> /\ Taking(r[i]))
    BY OwnedBlocks
  <2> QED
    BY <1>2, <1>3, <1>4, <2>1, <2>2, ZenonT(60)
<1> HIDE DEF A, own, taken
<1>6. IsFiniteSet(A \cup {own}) /\ Cardinality(A \cup {own}) = Cardinality(A) + 1
  BY <1>1, FS_AddElement DEF A
<1>7. CASE Taking(f)
  <2>1. BlocksOn(t, s) = (A \cup {own}) \cup {taken}
    BY <1>5, <1>7
  <2>2. taken \notin A \cup {own}
    BY <1>1
  <2>3. IsFiniteSet(A) /\ Cardinality(A) \in Nat
    BY FS_CardinalityType DEF A
  <2>4. /\ IsFiniteSet((A \cup {own}) \cup {taken})
        /\ Cardinality((A \cup {own}) \cup {taken}) = Cardinality(A \cup {own}) + 1
    BY <1>6, <2>2, FS_AddElement
  <2>5. Cardinality((A \cup {own}) \cup {taken}) = Cardinality(A) + 2
    BY <1>6, <2>3, <2>4
  <2> QED
    BY <1>7, <2>1, <2>4, <2>5 DEF Weight, A
<1>8. CASE ~ Taking(f)
  <2>1. BlocksOn(t, s) = A \cup {own}
    BY <1>5, <1>8
  <2> QED
    BY <1>6, <1>8, <2>1 DEF Weight, A
<1> QED
  BY <1>7, <1>8

\* A stack has finitely many.
LEMMA OwnedFinite ==
    ASSUME NEW t, NEW s \in Seq(Frame)
    PROVE  IsFiniteSet(BlocksOn(t, s)) /\ Cardinality(BlocksOn(t, s)) \in Nat
<1>1. IsFiniteSet(1 .. Len(s)) /\ IsFiniteSet({"own", "taken"}) /\ IsFiniteSet({t})
  <2>1. IsFiniteSet(1 .. Len(s))
    BY FS_Interval
  <2>2. IsFiniteSet({"own"} \cup {"taken"})
    BY FS_Singleton, FS_Union
  <2>3. {"own"} \cup {"taken"} = {"own", "taken"}
    OBVIOUS
  <2> QED
    BY <2>1, <2>2, <2>3, FS_Singleton
<1>2. IsFiniteSet((1 .. Len(s)) \X {"own", "taken"})
  BY <1>1, FS_Product
<1>3. IsFiniteSet({t} \X ((1 .. Len(s)) \X {"own", "taken"}))
  BY <1>1, <1>2, FS_Product
<1>4. BlocksOn(t, s) \subseteq {t} \X ((1 .. Len(s)) \X {"own", "taken"})
  BY OwnedBlocks
<1>5. IsFiniteSet(BlocksOn(t, s))
  BY <1>3, <1>4, FS_Subset
<1> QED
  BY <1>5, FS_CardinalityType

\* Types are invariant.
LEMMA TypeStep ==
    ASSUME TypeInv, [Next]_vars
    PROVE  TypeInv'
<1>1. CASE irq_entry
  <2>1. mem' \in Nat
    <3>1. mem \in Nat
      BY DEF TypeInv
    <3>2. IF mem = 0 THEN mem' = mem ELSE mem' = mem - 1
      BY <1>1 DEF irq_entry
    <3> QED
      BY <3>1, <3>2
  <2>2. frames' \in [Thread -> Seq(Frame)]
    <3>1. CASE mem = 0
      BY <1>1, <3>1 DEF irq_entry, TypeInv
    <3>2. CASE mem # 0
      <4>1. Push(Handler)
        BY <1>1, <3>2 DEF irq_entry
      <4> QED
        BY <4>1, NewFrames, PushTypes
    <3> QED
      BY <3>1, <3>2
  <2> QED
    BY <1>1, <2>1, <2>2 DEF irq_entry, TypeInv, history
<1>2. CASE HandlerPop
  <2>1. list' \in Seq(Item) /\ Head(list) \in Item
    BY <1>2 DEF HandlerPop, TypeInv
  <2>2. Head(list).cb \in Cb
    BY <2>1 DEF Item
  <2>3. [top EXCEPT !.pc = "call", !.cb = Head(list).cb, !.removed = TRUE] \in Frame
    BY <1>2, <2>2, StackFacts, NewFrames DEF HandlerPop, At
  <2>4. frames' \in [Thread -> Seq(Frame)]
    BY <1>2, <2>3, StackSteps, NewStack DEF HandlerPop, At, TypeInv
  <2> QED
    BY <1>2, <2>1, <2>4 DEF HandlerPop, TypeInv, history
<1>3. CASE CallKeep
  <2>1. PICK back : back = [top EXCEPT !.pc = "called"]
    OBVIOUS
  <2>2. frames[current] # <<>> /\ back \in Frame /\ Add("keep", SLICE) \in Frame
    <3>1. frames[current] # <<>>
      BY <1>3 DEF CallKeep, At
    <3>2. back \in Frame
      BY <2>1, <3>1, StackFacts, NewFrames
    <3>3. "keep" \in Cb /\ SLICE \in Nat
      BY TimerAssumption DEF Cb
    <3> QED
      BY <3>1, <3>2, <3>3, NewFrames
  <2>3. mem' \in Nat
    BY <1>3 DEF CallKeep, TypeInv
  <2>4. frames' \in [Thread -> Seq(Frame)]
    <3>1. CASE mem = 0
      <4>1. Replace(back)
        BY <1>3, <2>1, <3>1 DEF CallKeep
      <4> QED
        BY <2>2, <4>1, ReplaceTypes
    <3>2. CASE mem # 0
      <4>1. frames' = [frames EXCEPT ![current] = Front(frames[current]) \o <<back, Add("keep", SLICE)>>]
        BY <1>3, <2>1, <3>2 DEF CallKeep, TypeInv
      <4> QED
        BY <2>2, <4>1, CallKeepStack, NewStack DEF TypeInv
    <3> QED
      BY <3>1, <3>2
  <2> QED
    BY <1>3, <2>3, <2>4 DEF CallKeep, TypeInv, history
<1>4. CASE KeepNeeds
  <2>1. frames' \in [Thread -> Seq(Frame)]
    <3>1. frames[current] # <<>> /\ Replace([top EXCEPT !.pc = "free"])
      BY <1>4 DEF KeepNeeds, At
    <3>2. [top EXCEPT !.pc = "free"] \in Frame
      BY <3>1, StackFacts, NewFrames
    <3> QED
      BY <3>1, <3>2, ReplaceTypes
  <2> QED
    BY <1>4, <2>1 DEF KeepNeeds, TypeInv, history
<1>5. CASE CallMsg
  <2>1. frames' \in [Thread -> Seq(Frame)]
    <3>1. frames[current] # <<>> /\ Replace([top EXCEPT !.pc = "free"])
      BY <1>5 DEF CallMsg, At
    <3>2. [top EXCEPT !.pc = "free"] \in Frame
      BY <3>1, StackFacts, NewFrames
    <3> QED
      BY <3>1, <3>2, ReplaceTypes
  <2> QED
    BY <1>5, <2>1 DEF CallMsg, TypeInv, history
<1>6. CASE HandlerFree
  <2>1. frames' \in [Thread -> Seq(Frame)]
    <3>1. frames[current] # <<>> /\ Replace([top EXCEPT !.pc = "loop", !.cb = ""])
      BY <1>6 DEF HandlerFree, At
    <3>2. [top EXCEPT !.pc = "loop", !.cb = ""] \in Frame
      BY <3>1, StackFacts, NewFrames
    <3> QED
      BY <3>1, <3>2, ReplaceTypes
  <2> QED
    BY <1>6, <2>1 DEF HandlerFree, TypeInv, history
<1>7. CASE HandlerReset
  <2>1. frames' \in [Thread -> Seq(Frame)]
    <3>1. frames[current] # <<>> /\ Replace([top EXCEPT !.pc = "sched", !.tick = 0])
      BY <1>7 DEF HandlerReset, At
    <3>2. [top EXCEPT !.pc = "sched", !.tick = 0] \in Frame
      BY <3>1, StackFacts, NewFrames
    <3> QED
      BY <3>1, <3>2, ReplaceTypes
  <2>2. cval' \in Nat /\ enabled' \in BOOLEAN
    <3>1. CASE top.removed /\ list # <<>>
      <4>1. Head(list) \in Item /\ top \in Frame
        BY <1>7, <3>1, StackFacts DEF HandlerReset, At, TypeInv
      <4>2. Head(list).at \in Int /\ top.tick \in Int
        BY <4>1 DEF Item, Frame
      <4> QED
        BY <1>7, <3>1, <4>2 DEF HandlerReset, Reset
    <3>2. CASE ~ (top.removed /\ list # <<>>)
      BY <1>7, <3>2 DEF HandlerReset, Reset, TypeInv
    <3> QED
      BY <3>1, <3>2
  <2> QED
    BY <1>7, <2>1, <2>2 DEF HandlerReset, TypeInv, history
<1>8. CASE HandlerSchedule
  <2>1. frames' \in [Thread -> Seq(Frame)]
    <3>1. frames[current] # <<>> /\ Replace([top EXCEPT !.pc = "exit", !.removed = FALSE])
      BY <1>8 DEF HandlerSchedule, At
    <3>2. [top EXCEPT !.pc = "exit", !.removed = FALSE] \in Frame
      BY <3>1, StackFacts, NewFrames
    <3> QED
      BY <3>1, <3>2, ReplaceTypes
  <2>2. current' \in Thread /\ enabled' \in BOOLEAN
    BY <1>8 DEF HandlerSchedule, schedule, TypeInv
  <2> QED
    BY <1>8, <2>1, <2>2 DEF HandlerSchedule, TypeInv, history
<1>9. CASE HandlerExit
  <2>1. frames' \in [Thread -> Seq(Frame)]
    BY <1>9, StackSteps, NewStack DEF HandlerExit, At, TypeInv
  <2> QED
    BY <1>9, <2>1 DEF HandlerExit, FreeTask, TypeInv, history
<1>10. CASE add_timer_insert
  <2>1. top \in Frame
    BY <1>10, StackFacts DEF add_timer_insert, At
  <2>2. top.delay \in Nat
    BY <2>1 DEF Frame
  <2>3. cval' \in Nat
    BY <1>10, <2>2 DEF add_timer_insert, TypeInv
  <2>4. frames' \in [Thread -> Seq(Frame)]
    BY <1>10, StackSteps, NewStack DEF add_timer_insert, At, TypeInv
  <2>5. list' \in Seq(Item)
    BY <1>10, NewTimer, InsertFacts DEF add_timer_insert, TypeInv
  <2> QED
    BY <1>10, <2>3, <2>4, <2>5 DEF add_timer_insert, TypeInv, history
<1>11. ASSUME NEW delay \in Timeouts, set_timeout(delay) PROVE TypeInv'
  <2>1. delay \in Nat
    BY TimerAssumption
  <2>2. mem' \in Nat
    BY <1>11 DEF set_timeout, add_timer, TypeInv
  <2>3. frames' \in [Thread -> Seq(Frame)]
    <3>1. CASE mem = 0
      BY <1>11, <3>1 DEF set_timeout, add_timer, TypeInv
    <3>2. CASE mem # 0
      <4>1. "msg" \in Cb /\ Push(Add("msg", delay))
        BY <1>11, <3>2 DEF set_timeout, add_timer, Cb
      <4>2. Add("msg", delay) \in Frame
        BY <2>1, <4>1, NewFrames
      <4> QED
        BY <4>1, <4>2, PushTypes
    <3> QED
      BY <3>1, <3>2
  <2> QED
    BY <1>11, <2>2, <2>3 DEF set_timeout, TypeInv, history
<1>12. CASE Yield
  BY <1>12 DEF Yield, schedule, TypeInv, history
<1>13. ASSUME NEW u \in Thread, Kill(u) PROVE TypeInv'
  <2>1. frames' \in [Thread -> Seq(Frame)]
    BY <1>13, NewStack DEF Kill, TypeInv
  <2>2. lost' \in Nat
    BY <1>13, OwnedFinite DEF Kill, TypeInv
  <2> QED
    BY <1>13, <2>1, <2>2 DEF Kill, TypeInv, history
<1>14. CASE Tick
  <2>1. cval' \in Nat
    BY <1>14 DEF Tick, TypeInv
  <2> QED
    BY <1>14, <2>1, TickStacks, TickList DEF Tick, TypeInv, history
<1>15. CASE Halted \/ UNCHANGED vars
  BY <1>15 DEF Halted, vars, history, TypeInv
<1> QED
  BY <1>1, <1>2, <1>3, <1>4, <1>5, <1>6, <1>7, <1>8, <1>9, <1>10, <1>11, <1>12, <1>13, <1>14, <1>15
     DEF Next, HandlerStep

-----------------------------------------------------------------------------
(* No block is lost *)

All(F) == UNION {BlocksOn(t, F[t]) : t \in Thread}

\* A thread's stack is another one.
LEMMA OneStack ==
    ASSUME NEW F \in [Thread -> Seq(Frame)], NEW u \in Thread, NEW s \in Seq(Frame), IsFiniteSet(All(F))
    PROVE  /\ IsFiniteSet(All([F EXCEPT ![u] = s])) /\ Cardinality(All(F)) \in Nat
           /\ Cardinality(All([F EXCEPT ![u] = s])) =
                 Cardinality(All(F)) + Cardinality(BlocksOn(u, s)) - Cardinality(BlocksOn(u, F[u]))
<1> DEFINE G == [F EXCEPT ![u] = s]
           R == UNION {BlocksOn(t, F[t]) : t \in Thread \ {u}}
           A == BlocksOn(u, F[u])
           B == BlocksOn(u, s)
<1>1. IsFiniteSet(A) /\ Cardinality(A) \in Nat /\ IsFiniteSet(B) /\ Cardinality(B) \in Nat
  BY OwnedFinite
<1>2. All(F) = R \cup A
  BY DEF All
<1>3. All(G) = R \cup B
  <2>1. \A t \in Thread : G[t] = IF t = u THEN s ELSE F[t]
    OBVIOUS
  <2> HIDE DEF G
  <2> QED
    BY <2>1 DEF All
<1>4. R \cap A = {} /\ R \cap B = {}
  <2>1. \A t, r, x : x \in BlocksOn(t, r) => x[1] = t
    BY DEF BlocksOn
  <2> QED
    BY <2>1
<1> HIDE DEF A, B, R, G
<1>5. IsFiniteSet(R) /\ Cardinality(R) \in Nat
  <2>1. R \subseteq All(F)
    BY <1>2
  <2> QED
    BY <2>1, FS_Subset, FS_CardinalityType
<1>6. /\ IsFiniteSet(R \cup A) /\ Cardinality(R \cup A) = Cardinality(R) + Cardinality(A) - Cardinality(R \cap A)
      /\ IsFiniteSet(R \cup B) /\ Cardinality(R \cup B) = Cardinality(R) + Cardinality(B) - Cardinality(R \cap B)
  BY <1>1, <1>5, FS_Union
<1>7. Cardinality({}) = 0
  BY FS_EmptySet
<1>8. /\ IsFiniteSet(All(G)) /\ Cardinality(All(F)) \in Nat
      /\ Cardinality(All(G)) = Cardinality(All(F)) + Cardinality(B) - Cardinality(A)
  <2>1. /\ IsFiniteSet(All(F)) /\ Cardinality(All(F)) = Cardinality(R) + Cardinality(A) - 0
        /\ IsFiniteSet(All(G)) /\ Cardinality(All(G)) = Cardinality(R) + Cardinality(B) - 0
    BY <1>2, <1>3, <1>4, <1>6, <1>7, Zenon
  <2> QED
    BY <1>1, <1>5, <2>1
<1> QED
  BY <1>8 DEF G, A, B

\* A call uses one or two blocks more.
LEMMA PushBlocks ==
    ASSUME TypeInv, IsFiniteSet(InUse), NEW f \in Frame, Push(f)
    PROVE  IsFiniteSet(InUse') /\ Cardinality(InUse') = Cardinality(InUse) + Weight(f)
<1>1. PICK r \in Seq(Frame) : r = frames[current]
  BY DEF TypeInv
<1>2. OnTop(Append(r, f), r, f) /\ Append(r, f) \in Seq(Frame)
  BY AppendFacts DEF OnTop
<1>3. frames' = [frames EXCEPT ![current] = Append(r, f)]
  BY <1>1 DEF Push
<1>4. InUse = All(frames) /\ InUse' = All(frames')
  BY DEF InUse, All
<1>5. IsFiniteSet(BlocksOn(current, r)) /\ Cardinality(BlocksOn(current, r)) \in Nat
  BY OwnedFinite
<1>6. Cardinality(BlocksOn(current, Append(r, f))) = Cardinality(BlocksOn(current, r)) + Weight(f)
  BY <1>2, <1>5, BlocksOnTop
<1>7. /\ IsFiniteSet(InUse') /\ Cardinality(InUse) \in Nat
      /\ Cardinality(InUse') =
            Cardinality(InUse) + Cardinality(BlocksOn(current, Append(r, f))) - Cardinality(BlocksOn(current, r))
  BY <1>1, <1>2, <1>3, <1>4, OneStack DEF TypeInv
<1>8. Weight(f) \in Nat
  BY DEF Weight
<1> QED
  BY <1>5, <1>6, <1>7, <1>8

\* Returning from it gives them up.
LEMMA LeaveBlocks ==
    ASSUME TypeInv, IsFiniteSet(InUse), frames[current] # <<>>, Leave
    PROVE  IsFiniteSet(InUse') /\ Cardinality(InUse') = Cardinality(InUse) - Weight(top)
<1>1. PICK s \in Seq(Frame) : s = frames[current]
  BY DEF TypeInv
<1>2. OnTop(s, Front(s), Last(s)) /\ Front(s) \in Seq(Frame)
  <2>1. s # <<>>
    BY <1>1
  <2>2. PICK r : r = Front(s)
    OBVIOUS
  <2>3. PICK f : f = Last(s)
    OBVIOUS
  <2>4. PICK n \in Nat : n = Len(r) /\ Len(s) = n + 1
    BY <2>1, <2>2, FrontFacts
  <2>5. /\ DOMAIN s = 1 .. n + 1 /\ DOMAIN r = 1 .. n /\ s[n + 1] = f
        /\ \A i \in 1 .. n : s[i] = r[i]
    BY <2>1, <2>2, <2>3, <2>4, FrontFacts
  <2>6. OnTop(s, r, f)
    BY <2>4, <2>5 DEF OnTop
  <2> QED
    BY <2>1, <2>2, <2>3, <2>6, FrontFacts
<1>3. frames' = [frames EXCEPT ![current] = Front(s)] /\ top = Last(s)
  BY <1>1 DEF Leave, top
<1>4. InUse = All(frames) /\ InUse' = All(frames')
  BY DEF InUse, All
<1>5. IsFiniteSet(BlocksOn(current, Front(s))) /\ Cardinality(BlocksOn(current, Front(s))) \in Nat
  BY <1>2, OwnedFinite
<1>6. Cardinality(BlocksOn(current, s)) = Cardinality(BlocksOn(current, Front(s))) + Weight(Last(s))
  BY <1>2, <1>5, BlocksOnTop
<1>7. /\ IsFiniteSet(InUse') /\ Cardinality(InUse) \in Nat
      /\ Cardinality(InUse') =
            Cardinality(InUse) + Cardinality(BlocksOn(current, Front(s))) - Cardinality(BlocksOn(current, s))
  BY <1>1, <1>2, <1>3, <1>4, OneStack DEF TypeInv
<1>8. Weight(Last(s)) \in Nat
  BY DEF Weight
<1> QED
  BY <1>3, <1>5, <1>6, <1>7, <1>8

\* Going on in it changes how many it uses.
LEMMA ReplaceBlocks ==
    ASSUME TypeInv, IsFiniteSet(InUse), frames[current] # <<>>, NEW f \in Frame, Replace(f)
    PROVE  IsFiniteSet(InUse') /\ Cardinality(InUse') = Cardinality(InUse) + Weight(f) - Weight(top)
<1>1. PICK s \in Seq(Frame) : s = frames[current]
  BY DEF TypeInv
<1>2. OnTop(s, Front(s), Last(s)) /\ Front(s) \in Seq(Frame)
  BY <1>1, FrontFacts DEF OnTop
<1>3. PICK n \in Seq(Frame) : n = Append(Front(s), f)
  BY <1>2, AppendFacts
<1>4. OnTop(n, Front(s), f)
  BY <1>2, <1>3, AppendFacts DEF OnTop
<1>5. frames' = [frames EXCEPT ![current] = n] /\ top = Last(s)
  BY <1>1, <1>3 DEF Replace, top
<1>6. InUse = All(frames) /\ InUse' = All(frames')
  BY DEF InUse, All
<1>7. IsFiniteSet(BlocksOn(current, Front(s))) /\ Cardinality(BlocksOn(current, Front(s))) \in Nat
  BY <1>2, OwnedFinite
<1>8. /\ Cardinality(BlocksOn(current, s)) = Cardinality(BlocksOn(current, Front(s))) + Weight(Last(s))
      /\ Cardinality(BlocksOn(current, n)) = Cardinality(BlocksOn(current, Front(s))) + Weight(f)
  BY <1>2, <1>4, <1>7, BlocksOnTop
<1>9. /\ IsFiniteSet(InUse') /\ Cardinality(InUse) \in Nat
      /\ Cardinality(InUse') =
            Cardinality(InUse) + Cardinality(BlocksOn(current, n)) - Cardinality(BlocksOn(current, s))
  BY <1>1, <1>5, <1>6, OneStack DEF TypeInv
<1>10. Weight(Last(s)) \in Nat /\ Weight(f) \in Nat
  BY DEF Weight
<1> QED
  BY <1>5, <1>7, <1>8, <1>9, <1>10

\* The blocks are accounted for after every step.
LEMMA BlocksStep ==
    ASSUME BlocksInv, [Next]_vars
    PROVE  BlocksInv'
<1> DEFINE used == Cardinality(InUse)
<1>0. TypeInv /\ TypeInv'
  BY TypeStep DEF BlocksInv
<1>t. /\ mem \in Nat /\ lost \in Nat /\ Len(list) \in Nat /\ used \in Nat
      /\ IsFiniteSet(InUse) /\ mem + Len(list) + lost + used = MEM
  <2>1. mem \in Nat /\ lost \in Nat /\ Len(list) \in Nat
    BY <1>0 DEF TypeInv
  <2> QED
    BY <2>1, FS_CardinalityType DEF BlocksInv, BlocksConserved
<1> SUFFICES IsFiniteSet(InUse') /\ mem' + Len(list') + lost' + Cardinality(InUse') = MEM
  BY <1>0 DEF BlocksInv, BlocksConserved
<1> HIDE DEF used
<1>f. frames' = frames => InUse' = InUse
  BY DEF InUse
<1>1. CASE irq_entry
  <2>1. CASE mem = 0
    BY <1>t, <1>f, <1>1, <2>1 DEF irq_entry, used, history
  <2>2. CASE mem # 0
    <3>1. Push(Handler) /\ mem' = mem - 1 /\ UNCHANGED <<list, lost>>
      BY <1>1, <2>2 DEF irq_entry, history
    <3>2. IsFiniteSet(InUse') /\ Cardinality(InUse') = used + Weight(Handler)
      BY <1>0, <1>t, <3>1, NewFrames, PushBlocks DEF used
    <3>3. Weight(Handler) = 1
      BY DEF Weight, Taking, Handler
    <3> QED
      BY <1>t, <3>1, <3>2, <3>3
  <2> QED
    BY <2>1, <2>2
<1>2. CASE HandlerPop
  <2> DEFINE f == [top EXCEPT !.pc = "call", !.cb = Head(list).cb, !.removed = TRUE]
  <2>1. frames[current] # <<>> /\ top.pc = "loop" /\ Replace(f) /\ list # <<>> /\ list' = Tail(list)
    BY <1>2 DEF HandlerPop, At
  <2>2. UNCHANGED <<mem, lost>>
    BY <1>2 DEF HandlerPop, history
  <2>3. Len(list') = Len(list) - 1 /\ Head(list).cb \in Cb
    <3>1. list \in Seq(Item)
      BY <1>0 DEF TypeInv
    <3>2. Len(list') = Len(list) - 1 /\ Head(list) \in Item
      BY <2>1, <3>1
    <3> QED
      BY <3>2 DEF Item
  <2>4. top \in Frame /\ f \in Frame
    BY <1>0, <2>1, <2>3, StackFacts, NewFrames
  <2>5. Weight(f) = 2 /\ Weight(top) = 1
    BY <2>1, <2>4 DEF Weight, Taking, Frame
  <2> HIDE DEF f
  <2>6. IsFiniteSet(InUse') /\ Cardinality(InUse') = used + Weight(f) - Weight(top)
    BY <1>0, <1>t, <2>1, <2>4, ReplaceBlocks DEF used
  <2> QED
    BY <1>t, <2>2, <2>3, <2>5, <2>6
<1>3. CASE CallKeep
  <2> DEFINE f == [top EXCEPT !.pc = "called"]
  <2>1. frames[current] # <<>> /\ top.pc = "call" /\ UNCHANGED <<list, lost>>
    BY <1>3 DEF CallKeep, At
  <2>2. top \in Frame /\ f \in Frame
    BY <1>0, <2>1, StackFacts, NewFrames
  <2>3. Weight(f) = 2 /\ Weight(top) = 2
    BY <2>1, <2>2 DEF Weight, Taking, Frame
  <2>4. CASE mem = 0
    <3>1. Replace(f) /\ mem' = mem
      BY <1>3, <2>4 DEF CallKeep
    <3> HIDE DEF f
    <3>2. IsFiniteSet(InUse') /\ Cardinality(InUse') = used + Weight(f) - Weight(top)
      BY <1>0, <1>t, <2>1, <2>2, <3>1, ReplaceBlocks DEF used
    <3> QED
      BY <1>t, <2>1, <2>3, <3>1, <3>2
  <2>5. CASE mem # 0
    <3>1. /\ mem' = mem - 1
          /\ frames' = [frames EXCEPT ![current] = Front(frames[current]) \o <<f, Add("keep", SLICE)>>]
      BY <1>0, <1>3, <2>5 DEF CallKeep, TypeInv
    <3>2. PICK g \in Frame : g = Add("keep", SLICE) /\ Weight(g) = 1
      <4>1. "keep" \in Cb /\ SLICE \in Nat
        BY TimerAssumption DEF Cb
      <4>2. Add("keep", SLICE) \in Frame
        BY <4>1, NewFrames
      <4>3. Weight(Add("keep", SLICE)) = 1
        BY DEF Weight, Taking, Add
      <4> QED
        BY <4>2, <4>3
    <3> HIDE DEF f
    <3>3. PICK s \in Seq(Frame) : s = frames[current]
      BY <1>0 DEF TypeInv
    <3>4. OnTop(s, Front(s), top) /\ Front(s) \in Seq(Frame)
      BY <2>1, <3>3, FrontFacts DEF OnTop, top
    <3>5. PICK m \in Seq(Frame) : m = Append(Front(s), f)
      BY <2>2, <3>4, AppendFacts
    <3>6. PICK n \in Seq(Frame) : n = Append(m, g)
      BY <3>5, AppendFacts
    <3>7. OnTop(m, Front(s), f) /\ OnTop(n, m, g)
      BY <2>2, <3>4, <3>5, <3>6, AppendFacts DEF OnTop
    <3>8. frames' = [frames EXCEPT ![current] = n]
      BY <1>0, <2>1, <2>2, <3>1, <3>2, <3>3, <3>5, <3>6, CallKeepStack
    <3>9. InUse = All(frames) /\ InUse' = All(frames')
      BY DEF InUse, All
    <3>10. /\ IsFiniteSet(BlocksOn(current, Front(s))) /\ Cardinality(BlocksOn(current, Front(s))) \in Nat
           /\ IsFiniteSet(BlocksOn(current, m))
      BY <3>4, OwnedFinite
    <3>11. /\ Cardinality(BlocksOn(current, s)) = Cardinality(BlocksOn(current, Front(s))) + Weight(top)
           /\ Cardinality(BlocksOn(current, m)) = Cardinality(BlocksOn(current, Front(s))) + Weight(f)
           /\ Cardinality(BlocksOn(current, n)) = Cardinality(BlocksOn(current, m)) + Weight(g)
      BY <3>4, <3>7, <3>10, BlocksOnTop
    <3>12. /\ IsFiniteSet(InUse')
           /\ Cardinality(InUse') =
                 used + Cardinality(BlocksOn(current, n)) - Cardinality(BlocksOn(current, s))
      <4>1. frames \in [Thread -> Seq(Frame)] /\ current \in Thread /\ IsFiniteSet(All(frames))
        BY <1>0, <1>t, <3>9 DEF TypeInv
      <4>2. /\ IsFiniteSet(All([frames EXCEPT ![current] = n]))
            /\ Cardinality(All([frames EXCEPT ![current] = n])) =
                  Cardinality(All(frames)) + Cardinality(BlocksOn(current, n))
                     - Cardinality(BlocksOn(current, frames[current]))
        BY <4>1, OneStack
      <4> QED
        BY <3>3, <3>8, <3>9, <4>2 DEF used
    <3> QED
      BY <1>t, <2>1, <2>3, <3>1, <3>2, <3>10, <3>11, <3>12
  <2> QED
    BY <2>4, <2>5
<1>4. CASE KeepNeeds
  <2> DEFINE f == [top EXCEPT !.pc = "free"]
  <2>1. frames[current] # <<>> /\ top.pc = "called" /\ Replace(f) /\ UNCHANGED <<list, mem, lost>>
    BY <1>4 DEF KeepNeeds, At, history
  <2>2. top \in Frame /\ f \in Frame
    BY <1>0, <2>1, StackFacts, NewFrames
  <2>3. Weight(f) = 2 /\ Weight(top) = 2
    BY <2>1, <2>2 DEF Weight, Taking, Frame
  <2> HIDE DEF f
  <2>4. IsFiniteSet(InUse') /\ Cardinality(InUse') = used + Weight(f) - Weight(top)
    BY <1>0, <1>t, <2>1, <2>2, ReplaceBlocks DEF used
  <2> QED
    BY <1>t, <2>1, <2>3, <2>4
<1>5. CASE CallMsg
  <2> DEFINE f == [top EXCEPT !.pc = "free"]
  <2>1. frames[current] # <<>> /\ top.pc = "call" /\ Replace(f) /\ UNCHANGED <<list, mem, lost>>
    BY <1>5 DEF CallMsg, At, history
  <2>2. top \in Frame /\ f \in Frame
    BY <1>0, <2>1, StackFacts, NewFrames
  <2>3. Weight(f) = 2 /\ Weight(top) = 2
    BY <2>1, <2>2 DEF Weight, Taking, Frame
  <2> HIDE DEF f
  <2>4. IsFiniteSet(InUse') /\ Cardinality(InUse') = used + Weight(f) - Weight(top)
    BY <1>0, <1>t, <2>1, <2>2, ReplaceBlocks DEF used
  <2> QED
    BY <1>t, <2>1, <2>3, <2>4
<1>6. CASE HandlerFree
  <2> DEFINE f == [top EXCEPT !.pc = "loop", !.cb = ""]
  <2>1. /\ frames[current] # <<>> /\ top.pc = "free" /\ Replace(f)
        /\ mem' = mem + 1 /\ UNCHANGED <<list, lost>>
    BY <1>6 DEF HandlerFree, At, history
  <2>2. top \in Frame /\ f \in Frame
    BY <1>0, <2>1, StackFacts, NewFrames
  <2>3. Weight(f) = 1 /\ Weight(top) = 2
    BY <2>1, <2>2 DEF Weight, Taking, Frame
  <2> HIDE DEF f
  <2>4. IsFiniteSet(InUse') /\ Cardinality(InUse') = used + Weight(f) - Weight(top)
    BY <1>0, <1>t, <2>1, <2>2, ReplaceBlocks DEF used
  <2> QED
    BY <1>t, <2>1, <2>3, <2>4
<1>7. CASE HandlerReset
  <2> DEFINE f == [top EXCEPT !.pc = "sched", !.tick = 0]
  <2>1. frames[current] # <<>> /\ top.pc = "loop" /\ Replace(f) /\ UNCHANGED <<list, mem, lost>>
    BY <1>7 DEF HandlerReset, At, history
  <2>2. top \in Frame /\ f \in Frame
    BY <1>0, <2>1, StackFacts, NewFrames
  <2>3. Weight(f) = 1 /\ Weight(top) = 1
    BY <2>1, <2>2 DEF Weight, Taking, Frame
  <2> HIDE DEF f
  <2>4. IsFiniteSet(InUse') /\ Cardinality(InUse') = used + Weight(f) - Weight(top)
    BY <1>0, <1>t, <2>1, <2>2, ReplaceBlocks DEF used
  <2> QED
    BY <1>t, <2>1, <2>3, <2>4
<1>8. CASE HandlerSchedule
  <2> DEFINE f == [top EXCEPT !.pc = "exit", !.removed = FALSE]
  <2>1. frames[current] # <<>> /\ top.pc = "sched" /\ Replace(f) /\ UNCHANGED <<list, mem, lost>>
    BY <1>8 DEF HandlerSchedule, At, history
  <2>2. top \in Frame /\ f \in Frame
    BY <1>0, <2>1, StackFacts, NewFrames
  <2>3. Weight(f) = 1 /\ Weight(top) = 1
    BY <2>1, <2>2 DEF Weight, Taking, Frame
  <2> HIDE DEF f
  <2>4. IsFiniteSet(InUse') /\ Cardinality(InUse') = used + Weight(f) - Weight(top)
    BY <1>0, <1>t, <2>1, <2>2, ReplaceBlocks DEF used
  <2> QED
    BY <1>t, <2>1, <2>3, <2>4
<1>9. CASE HandlerExit
  <2>1. /\ frames[current] # <<>> /\ top.pc = "exit" /\ Leave
        /\ mem' = mem + 1 /\ UNCHANGED <<list, lost>>
    BY <1>9 DEF HandlerExit, FreeTask, At, history
  <2>2. Weight(top) = 1
    BY <2>1 DEF Weight, Taking
  <2>3. IsFiniteSet(InUse') /\ Cardinality(InUse') = used - Weight(top)
    BY <1>0, <1>t, <2>1, LeaveBlocks DEF used
  <2> QED
    BY <1>t, <2>1, <2>2, <2>3
<1>10. CASE add_timer_insert
  <2> DEFINE x == [at |-> top.tick + top.delay, cb |-> top.cb]
  <2>1. /\ At("add") /\ frames[current] # <<>> /\ top.pc = "add" /\ Leave
        /\ list' = Insert(list, x) /\ UNCHANGED <<mem, lost>>
    BY <1>10 DEF add_timer_insert, At, history
  <2>2. Weight(top) = 1
    BY <2>1 DEF Weight, Taking
  <2>3. IsFiniteSet(InUse') /\ Cardinality(InUse') = used - Weight(top)
    BY <1>0, <1>t, <2>1, LeaveBlocks DEF used
  <2>4. x \in Item /\ list \in Seq(Item)
    BY <1>0, <2>1, NewTimer DEF TypeInv
  <2> HIDE DEF x
  <2>5. Len(list') = Len(list) + 1
    BY <2>1, <2>4, InsertFacts
  <2> QED
    BY <1>t, <2>1, <2>2, <2>3, <2>5
<1>11. ASSUME NEW delay \in Timeouts, set_timeout(delay)
       PROVE  IsFiniteSet(InUse') /\ mem' + Len(list') + lost' + Cardinality(InUse') = MEM
  <2>1. UNCHANGED <<list, lost>> /\ add_timer("msg", delay)
    BY <1>11 DEF set_timeout, history
  <2>2. CASE mem = 0
    BY <1>t, <1>f, <2>1, <2>2 DEF add_timer, used
  <2>3. CASE mem # 0
    <3>1. Push(Add("msg", delay)) /\ mem' = mem - 1
      BY <2>1, <2>3 DEF add_timer
    <3>2. delay \in Nat /\ "msg" \in Cb
      BY TimerAssumption DEF Cb
    <3>3. Add("msg", delay) \in Frame
      BY <3>2, NewFrames
    <3>4. IsFiniteSet(InUse') /\ Cardinality(InUse') = used + Weight(Add("msg", delay))
      BY <1>0, <1>t, <3>1, <3>3, PushBlocks DEF used
    <3>5. Weight(Add("msg", delay)) = 1
      BY DEF Weight, Taking, Add
    <3> QED
      BY <1>t, <2>1, <3>1, <3>4, <3>5
  <2> QED
    BY <2>2, <2>3
<1>12. CASE Yield
  BY <1>t, <1>f, <1>12 DEF Yield, history, used
<1>13. ASSUME NEW u \in Thread, Kill(u)
       PROVE  IsFiniteSet(InUse') /\ mem' + Len(list') + lost' + Cardinality(InUse') = MEM
  <2>1. /\ frames' = [frames EXCEPT ![u] = <<>>] /\ UNCHANGED <<list, mem>>
        /\ lost' = lost + Cardinality(BlocksOn(u, frames[u]))
    BY <1>13 DEF Kill
  <2>2. <<>> \in Seq(Frame) /\ BlocksOn(u, <<>>) = {}
    BY DEF BlocksOn
  <2>3. Cardinality(BlocksOn(u, <<>>)) = 0
    BY <2>2, FS_EmptySet
  <2>4. InUse = All(frames) /\ InUse' = All(frames')
    BY DEF InUse, All
  <2>5. Cardinality(BlocksOn(u, frames[u])) \in Nat
    BY <1>0, OwnedFinite DEF TypeInv
  <2>6. /\ IsFiniteSet(InUse')
        /\ Cardinality(InUse') =
              used + Cardinality(BlocksOn(u, <<>>)) - Cardinality(BlocksOn(u, frames[u]))
    <3>1. frames \in [Thread -> Seq(Frame)] /\ IsFiniteSet(All(frames))
      BY <1>0, <1>t, <2>4 DEF TypeInv
    <3>2. /\ IsFiniteSet(All([frames EXCEPT ![u] = <<>>]))
          /\ Cardinality(All([frames EXCEPT ![u] = <<>>])) =
                Cardinality(All(frames)) + Cardinality(BlocksOn(u, <<>>)) - Cardinality(BlocksOn(u, frames[u]))
      BY <2>2, <3>1, OneStack
    <3> QED
      BY <2>1, <2>4, <3>2 DEF used
  <2> QED
    BY <1>t, <2>1, <2>3, <2>5, <2>6
<1>14. CASE Tick
  <2>1. UNCHANGED <<mem, lost>> /\ Len(list') = Len(list)
    BY <1>0, <1>14, TickList DEF Tick, history
  <2>2. ASSUME NEW t \in Thread PROVE BlocksOn(t, frames'[t]) = BlocksOn(t, frames[t])
    <3>1. PICK q : q = frames'[t]
      OBVIOUS
    <3>2. DOMAIN q = DOMAIN frames[t]
      BY <1>0, <1>14, <3>1, TickStacks
    <3>3. ASSUME NEW i \in DOMAIN frames[t] PROVE Taking(q[i]) <=> Taking(frames[t][i])
      <4>1. frames[t][i] \in Frame
        BY <1>0 DEF TypeInv
      <4>2. \A f \in Frame : \A n : [f EXCEPT !.tick = n].pc = f.pc
        BY DEF Frame
      <4>3. q[i] = IF frames[t][i].pc \in {"sched", "exit"} THEN frames[t][i]
                   ELSE [frames[t][i] EXCEPT !.tick = Down(@)]
        BY <1>0, <1>14, <3>1, TickStacks
      <4>4. q[i].pc = frames[t][i].pc
        BY <4>1, <4>2, <4>3
      <4> QED
        BY <4>4 DEF Taking
    <3>4. \A x : x \in BlocksOn(t, q) <=>
             \E i \in DOMAIN q : x = <<t, <<i, "own">>>> \/ (x = <<t, <<i, "taken">>>> /\ Taking(q[i]))
      BY OwnedBlocks
    <3>5. \A x : x \in BlocksOn(t, frames[t]) <=>
             \E i \in DOMAIN frames[t] :
                x = <<t, <<i, "own">>>> \/ (x = <<t, <<i, "taken">>>> /\ Taking(frames[t][i]))
      BY OwnedBlocks
    <3>6. \A x : x \in BlocksOn(t, q) <=> x \in BlocksOn(t, frames[t])
      BY <3>2, <3>3, <3>4, <3>5, Zenon
    <3> QED
      BY <3>1, <3>6
  <2>3. InUse' = InUse
    BY <2>2 DEF InUse
  <2> QED
    BY <1>t, <2>1, <2>3 DEF used
<1>15. CASE Halted \/ UNCHANGED vars
  BY <1>t, <1>f, <1>15 DEF Halted, vars, history, used
<1> QED
  BY <1>1, <1>2, <1>3, <1>4, <1>5, <1>6, <1>7, <1>8, <1>9, <1>10, <1>11, <1>12, <1>13, <1>14, <1>15
     DEF Next, HandlerStep

\* Types at the start.
LEMMA TypeInit ==
    ASSUME Init
    PROVE  TypeInv
<1>1. FIRST \in Nat /\ MEM - 1 \in Nat
  BY TimerAssumption
<1>2. [at |-> FIRST, cb |-> "keep"] \in Item
  BY <1>1 DEF Item, Cb
<1> QED
  BY <1>1, <1>2 DEF Init, TypeInv

\* Every block is free, in the list, in use, or was in use by a killed thread.
THEOREM BlocksAccounted == Spec => []BlocksConserved
<1>1. Init => BlocksInv
  <2> SUFFICES ASSUME Init PROVE BlocksInv
    OBVIOUS
  <2>1. \A t \in Thread : BlocksOn(t, frames[t]) = {}
    BY DEF Init, BlocksOn
  <2>2. InUse = {}
    BY <2>1 DEF InUse
  <2>3. IsFiniteSet(InUse) /\ Cardinality(InUse) = 0
    BY <2>2, FS_EmptySet
  <2>4. Len(list) = 1 /\ mem = MEM - 1 /\ lost = 0 /\ MEM \in Nat
    BY TimerAssumption DEF Init
  <2> QED
    BY <2>3, <2>4, TypeInit DEF BlocksInv, BlocksConserved
<1>2. BlocksInv /\ [Next]_vars => BlocksInv'
  BY BlocksStep
<1>3. BlocksInv => BlocksConserved
  BY DEF BlocksInv
<1> QED
  BY <1>1, <1>2, <1>3, PTL DEF Spec

-----------------------------------------------------------------------------
(* The hardware timer is armed *)

\* The handler on top of the stack is the only one.
LEMMA Below ==
    ASSUME NEW s \in Seq(Frame), s # <<>>, Stacked(s), Late(s)
    PROVE  /\ Stacked(Front(s)) /\ Late(Front(s)) /\ Last(s).tick <= 0
           /\ Last(s).pc # "add" => Quiet(Front(s))
           /\ Quiet(s) => Quiet(Front(s))
           /\ Last(s).pc = "add" => (Quiet(Front(s)) => Quiet(s))
<1>1. /\ Len(s) \in Nat \ {0} /\ DOMAIN s = 1 .. Len(s) /\ Last(s) = s[Len(s)]
      /\ DOMAIN Front(s) = 1 .. Len(s) - 1
      /\ \A i \in 1 .. Len(s) - 1 : Front(s)[i] = s[i]
  BY FrontFacts
<1>2. \A i \in 1 .. Len(s) - 1 : i \in 1 .. Len(s) /\ i < Len(s)
  BY <1>1
<1>3. Len(s) \in 1 .. Len(s) /\ \A i \in 1 .. Len(s) : i \in 1 .. Len(s) - 1 \/ i = Len(s)
  <2>1. \A n \in Nat \ {0} : n \in 1 .. n /\ \A i \in 1 .. n : i \in 1 .. n - 1 \/ i = n
    OBVIOUS
  <2> QED
    BY <1>1, <2>1
<1>4. Stacked(Front(s)) /\ Late(Front(s)) /\ Last(s).tick <= 0
  BY <1>1, <1>2, <1>3 DEF Stacked, Late
<1>5. Last(s).pc # "add" => Quiet(Front(s))
  BY <1>1, <1>2, <1>3 DEF Stacked, Quiet
<1>6. Quiet(s) => Quiet(Front(s))
  BY <1>1, <1>2 DEF Quiet
<1>7. Last(s).pc = "add" => (Quiet(Front(s)) => Quiet(s))
  BY <1>1, <1>3 DEF Quiet, InHandler
<1> QED
  BY <1>4, <1>5, <1>6, <1>7

\* A call on top of a stack without a handler.
LEMMA OnQuiet ==
    ASSUME NEW r \in Seq(Frame), NEW f \in Frame, Quiet(r), Late(r), f.tick <= 0, NEW q,
           InHandler(f) => f.removed \/ (f.pc = "loop" /\ Finds(q, f))
    PROVE  /\ Stacked(Append(r, f)) /\ Late(Append(r, f)) /\ Coming(q, Append(r, f))
           /\ Quiet(Append(r, f)) <=> ~ InHandler(f)
<1>1. PICK s : s = Append(r, f)
  OBVIOUS
<1>2. /\ Len(r) \in Nat /\ Len(s) = Len(r) + 1
      /\ DOMAIN r = 1 .. Len(r) /\ DOMAIN s = 1 .. Len(r) + 1
      /\ \A i \in 1 .. Len(r) : s[i] = r[i]
      /\ s[Len(r) + 1] = f
  BY <1>1, AppendFacts
<1>3. /\ \A i \in 1 .. Len(r) + 1 : i \in 1 .. Len(r) \/ i = Len(r) + 1
      /\ Len(r) + 1 \in 1 .. Len(r) + 1
      /\ \A i, j \in 1 .. Len(r) + 1 : i < j => i \in 1 .. Len(r)
      /\ \A i \in 1 .. Len(r) : i \in 1 .. Len(r) + 1
  BY <1>2
<1>4. \A i \in 1 .. Len(r) : ~ InHandler(s[i]) /\ s[i].tick <= 0
  BY <1>2 DEF Quiet, Late
<1>5. Stacked(s) /\ Late(s)
  BY <1>2, <1>3, <1>4 DEF Stacked, Late
<1>6. Coming(q, s)
  BY <1>2, <1>3, <1>4 DEF Coming
<1>7. Quiet(s) <=> ~ InHandler(f)
  BY <1>2, <1>3, <1>4 DEF Quiet
<1> QED
  BY <1>1, <1>5, <1>6, <1>7

\* A call of add_timer on top of any stack.
LEMMA AddOnTop ==
    ASSUME NEW r \in Seq(Frame), NEW f \in Frame, Stacked(r), Late(r), f.tick <= 0, f.pc = "add",
           \A i \in DOMAIN r : InHandler(r[i]) => r[i].removed, NEW q
    PROVE  /\ Stacked(Append(r, f)) /\ Late(Append(r, f)) /\ Coming(q, Append(r, f))
           /\ Quiet(Append(r, f)) <=> Quiet(r)
<1>1. PICK s : s = Append(r, f)
  OBVIOUS
<1>2. /\ Len(r) \in Nat /\ Len(s) = Len(r) + 1
      /\ DOMAIN r = 1 .. Len(r) /\ DOMAIN s = 1 .. Len(r) + 1
      /\ \A i \in 1 .. Len(r) : s[i] = r[i]
      /\ s[Len(r) + 1] = f
  BY <1>1, AppendFacts
<1>3. /\ \A i \in 1 .. Len(r) + 1 : i \in 1 .. Len(r) \/ i = Len(r) + 1
      /\ \A i, j \in 1 .. Len(r) + 1 : i < j => i \in 1 .. Len(r)
      /\ \A i \in 1 .. Len(r) : i \in 1 .. Len(r) + 1
  BY <1>2
<1>4. ~ InHandler(f)
  BY DEF InHandler
<1>5. Late(s)
  BY <1>2, <1>3 DEF Late
<1>6. Stacked(s)
  BY <1>2, <1>3 DEF Stacked
<1>7. Coming(q, s)
  BY <1>2, <1>3, <1>4 DEF Coming
<1>8. Quiet(s) <=> Quiet(r)
  BY <1>2, <1>3, <1>4 DEF Quiet
<1> QED
  BY <1>1, <1>5, <1>6, <1>7, <1>8

\* The stack of the current thread is another one.
LEMMA CalmStack ==
    ASSUME NEW F \in [Thread -> Seq(Frame)], NEW c \in Thread, NEW s \in Seq(Frame), NEW p, NEW q,
           Calm(p, c, F), Late(s), Stacked(s), Coming(q, s)
    PROVE  /\ Calm(q, c, [F EXCEPT ![c] = s])
           /\ AllQuiet([F EXCEPT ![c] = s]) <=> Quiet(s)
<1>1. PICK G : G = [F EXCEPT ![c] = s]
  OBVIOUS
<1>2. G[c] = s /\ \A t \in Thread : t # c => G[t] = F[t]
  BY <1>1
<1>3. Calm(q, c, G)
  BY <1>2 DEF Calm
<1>4. AllQuiet(G) <=> Quiet(s)
  BY <1>2 DEF Calm, AllQuiet
<1> QED
  BY <1>1, <1>3, <1>4

\* Without handlers any thread may run.
LEMMA QuietCalm ==
    ASSUME NEW F, NEW c, NEW q, c \in Thread, AllQuiet(F), \A t \in Thread : Late(F[t])
    PROVE  Calm(q, c, F)
  BY DEF AllQuiet, Calm, Quiet, Stacked, Coming

\* If the list is in order, being ready is being armed.
LEMMA ReadyArmed ==
    ASSUME TypeInv, InOrder(list), Ready
    PROVE  Armed
<1> SUFFICES ASSUME \A t \in Thread : ~ Handling(t), list # <<>>
             PROVE  enabled /\ \A i \in DOMAIN list : Head(list).at <= list[i].at /\ Head(list).at <= cval
  BY DEF Armed
<1>1. AllQuiet(frames)
  BY DEF AllQuiet, Quiet, Handling
<1>2. enabled /\ Head(list).at <= cval
  BY <1>1 DEF Ready
<1>3. PICK q \in Seq(Item) : q = list
  BY DEF TypeInv
<1>4. Len(q) \in Nat \ {0} /\ DOMAIN q = 1 .. Len(q) /\ Head(q) = q[1] /\ q[1] \in Item
  BY <1>3
<1>5. q[1].at \in Int
  BY <1>4 DEF Item
<1>6. \A i \in 1 .. Len(q) : q[1].at <= q[i].at
  <2>1. \A i \in 1 .. Len(q) : i = 1 \/ 1 < i
    OBVIOUS
  <2> QED
    BY <1>3, <1>4, <1>5, <2>1 DEF InOrder
<1> QED
  BY <1>2, <1>3, <1>4, <1>6

\* A handler that is past its loop has removed a timer.
LEMMA TopRemoved ==
    ASSUME ArmedInv, frames[current] # <<>>
    PROVE  /\ InHandler(top) /\ top.pc # "loop" => top.removed
           /\ top.pc = "add" => \A i \in DOMAIN frames[current] :
                                   InHandler(frames[current][i]) => frames[current][i].removed
           /\ top.pc = "loop" /\ ~ top.removed => Finds(list, top)
<1>1. PICK s \in Seq(Frame) : s = frames[current]
  BY DEF ArmedInv, TypeInv
<1>2. Len(s) \in Nat \ {0} /\ DOMAIN s = 1 .. Len(s) /\ top = s[Len(s)]
  BY <1>1, FrontFacts DEF top
<1>3. Len(s) \in DOMAIN s
  BY <1>2
<1>4. Coming(list, s)
  BY <1>1 DEF ArmedInv, Calm
<1>5. \A i \in DOMAIN s : i = Len(s) => s[i] = top
  BY <1>2
<1>6. InHandler(top) /\ top.pc # "loop" => top.removed
  BY <1>2, <1>3, <1>4 DEF Coming
<1>7. top.pc = "add" => \A i \in DOMAIN s : InHandler(s[i]) => s[i].removed
  BY <1>4, <1>5 DEF Coming
<1>8. top.pc = "loop" /\ ~ top.removed => Finds(list, top)
  <2>1. top.pc = "loop" => InHandler(top)
    BY DEF InHandler
  <2> QED
    BY <1>2, <1>3, <1>4, <2>1 DEF Coming
<1> QED
  BY <1>1, <1>6, <1>7, <1>8

\* The current thread's stack.
LEMMA CurrentStack ==
    ASSUME ArmedInv, frames[current] # <<>>
    PROVE  \E s \in Seq(Frame) :
              /\ s = frames[current] /\ s # <<>> /\ Stacked(s) /\ Late(s)
              /\ top = Last(s) /\ Front(s) \in Seq(Frame)
<1>1. PICK s \in Seq(Frame) : s = frames[current]
  BY DEF ArmedInv, TypeInv
<1>2. Stacked(s) /\ Late(s)
  BY <1>1 DEF ArmedInv, Calm, TypeInv
<1>3. Front(s) \in Seq(Frame) /\ top = Last(s)
  BY <1>1, FrontFacts DEF top
<1> QED
  BY <1>1, <1>2, <1>3

\* The handler goes on: it has removed a timer, so nothing is promised.
LEMMA HandlerGoesOn ==
    ASSUME ArmedInv, frames[current] # <<>>, top.pc # "add",
           NEW f \in Frame, InHandler(f), f.removed, f.tick <= 0, Replace(f), UNCHANGED current
    PROVE  Calm(list', current', frames') /\ Ready'
<1>1. PICK s \in Seq(Frame) : /\ s = frames[current] /\ s # <<>> /\ Stacked(s) /\ Late(s)
                              /\ top = Last(s) /\ Front(s) \in Seq(Frame)
  BY CurrentStack
<1>2. Quiet(Front(s)) /\ Late(Front(s))
  BY <1>1, Below
<1>3. PICK n \in Seq(Frame) : n = Append(Front(s), f)
  BY <1>1, AppendFacts
<1>4. Stacked(n) /\ Late(n) /\ Coming(list', n) /\ ~ Quiet(n)
  BY <1>1, <1>2, <1>3, OnQuiet
<1>5. frames' = [frames EXCEPT ![current] = n]
  BY <1>1, <1>3 DEF Replace
<1>6. Calm(list', current, frames') /\ ~ AllQuiet(frames')
  BY <1>4, <1>5, CalmStack DEF ArmedInv, TypeInv
<1> QED
  BY <1>6 DEF Ready

\* The handler is done: no thread is in one.
LEMMA HandlerEnds ==
    ASSUME ArmedInv, frames[current] # <<>>, top.pc # "add",
           NEW f \in Frame, ~ InHandler(f), f.tick <= 0, Replace(f), current' \in Thread
    PROVE  /\ Calm(list', current', frames') /\ AllQuiet(frames')
           /\ ~ InHandler(top) => AllQuiet(frames)
<1>1. PICK s \in Seq(Frame) : /\ s = frames[current] /\ s # <<>> /\ Stacked(s) /\ Late(s)
                              /\ top = Last(s) /\ Front(s) \in Seq(Frame)
  BY CurrentStack
<1>2. Quiet(Front(s)) /\ Late(Front(s))
  BY <1>1, Below
<1>3. PICK n \in Seq(Frame) : n = Append(Front(s), f)
  BY <1>1, AppendFacts
<1>4. Stacked(n) /\ Late(n) /\ Coming(list', n) /\ Quiet(n)
  BY <1>1, <1>2, <1>3, OnQuiet
<1>5. frames' = [frames EXCEPT ![current] = n]
  BY <1>1, <1>3 DEF Replace
<1>6. Calm(list', current, frames') /\ AllQuiet(frames')
  BY <1>4, <1>5, CalmStack DEF ArmedInv, TypeInv
<1>7. PICK G : G = frames'
  OBVIOUS
<1>8. \A t \in Thread : Late(G[t])
  BY <1>6, <1>7 DEF Calm
<1>9. Calm(list', current', G)
  BY <1>6, <1>7, <1>8, QuietCalm
<1>10. ASSUME ~ InHandler(top) PROVE AllQuiet(frames)
  <2>1. Quiet(s)
    <3>1. /\ Len(s) \in Nat \ {0} /\ DOMAIN s = 1 .. Len(s) /\ Last(s) = s[Len(s)]
          /\ DOMAIN Front(s) = 1 .. Len(s) - 1
          /\ \A i \in 1 .. Len(s) - 1 : Front(s)[i] = s[i]
      BY <1>1, FrontFacts
    <3>2. \A k \in Nat \ {0} : \A i \in 1 .. k : i \in 1 .. k - 1 \/ i = k
      OBVIOUS
    <3> QED
      BY <1>1, <1>2, <1>10, <3>1, <3>2 DEF Quiet
  <2> QED
    BY <1>1, <2>1 DEF ArmedInv, Calm, AllQuiet
<1> QED
  BY <1>6, <1>7, <1>9, <1>10

\* Every step keeps the hardware timer armed, if handlers do not nest.
LEMMA ArmedStep ==
    ASSUME ~ Nested, ArmedInv, [Next]_vars
    PROVE  ArmedInv'
<1>0. /\ TypeInv /\ TypeInv' /\ ArmedInv
      /\ frames \in [Thread -> Seq(Frame)] /\ current \in Thread /\ current' \in Thread
  BY TypeStep DEF ArmedInv, TypeInv
<1>t. frames[current] # <<>> => top \in Frame /\ top.tick \in Int /\ top.tick <= 0
  <2>1. \A f \in Frame : f.tick \in Int
    BY DEF Frame
  <2> QED
    BY <1>0, <2>1, CurrentStack, Below, StackFacts
<1> SUFFICES Calm(list', current', frames') /\ InOrder(list') /\ Ready'
  BY <1>0 DEF ArmedInv
<1>s. UNCHANGED list => InOrder(list')
  BY DEF ArmedInv
<1>1. CASE irq_entry
  <2>1. UNCHANGED <<list, current, cval>> /\ cval = 0 /\ enabled
    BY <1>1 DEF irq_entry
  <2>2. \A i \in DOMAIN frames[current] : ~ InHandler(frames[current][i])
    BY <1>1 DEF irq_entry, InHandler
  <2>3. AllQuiet(frames)
    BY <1>0, <2>2 DEF ArmedInv, Calm, AllQuiet, Quiet
  <2>4. CASE mem = 0
    <3>1. UNCHANGED <<frames, enabled>>
      BY <1>1, <2>4 DEF irq_entry
    <3> QED
      BY <1>s, <2>1, <3>1 DEF ArmedInv, Ready
  <2>5. CASE mem # 0
    <3>1. PICK s \in Seq(Frame) : s = frames[current]
      BY <1>0
    <3>2. frames' = [frames EXCEPT ![current] = Append(s, Handler)]
      BY <1>1, <2>5, <3>1 DEF irq_entry, Push
    <3>3. Handler \in Frame /\ Handler.tick <= 0 /\ Handler.pc = "loop" /\ Handler.tick = 0
      <4>1. Handler.tick <= 0 /\ Handler.pc = "loop" /\ Handler.tick = 0
        BY DEF Handler
      <4> QED
        BY <4>1, NewFrames
    <3>4. Finds(list, Handler)
      BY <2>1, <2>3, <3>3 DEF ArmedInv, Ready, Finds
    <3>5. Quiet(s) /\ Late(s)
      BY <1>0, <2>3, <3>1 DEF AllQuiet, ArmedInv, Calm
    <3>6. /\ Stacked(Append(s, Handler)) /\ Late(Append(s, Handler)) /\ Coming(list, Append(s, Handler))
          /\ ~ Quiet(Append(s, Handler)) /\ Append(s, Handler) \in Seq(Frame)
      <4>1. InHandler(Handler)
        BY <3>3 DEF InHandler
      <4> QED
        BY <3>3, <3>4, <3>5, <4>1, OnQuiet, AppendFacts
    <3>7. Calm(list, current, frames') /\ ~ AllQuiet(frames')
      BY <1>0, <3>2, <3>6, CalmStack DEF ArmedInv
    <3> QED
      BY <1>s, <2>1, <3>7 DEF Ready
  <2> QED
    BY <2>4, <2>5
<1>2. CASE HandlerPop
  <2> DEFINE f == [top EXCEPT !.pc = "call", !.cb = Head(list).cb, !.removed = TRUE]
  <2>1. /\ frames[current] # <<>> /\ top.pc = "loop" /\ Replace(f) /\ UNCHANGED current
        /\ list # <<>> /\ list' = Tail(list)
    BY <1>2 DEF HandlerPop, At
  <2>2. PICK q \in Seq(Item) : q = list
    BY <1>0 DEF TypeInv
  <2>3. /\ Len(q) \in Nat \ {0} /\ DOMAIN q = 1 .. Len(q) /\ Head(q) \in Item
        /\ DOMAIN Tail(q) = 1 .. Len(q) - 1 /\ \A i \in 1 .. Len(q) - 1 : Tail(q)[i] = q[i + 1]
    BY <2>1, <2>2
  <2>4. InOrder(list')
    <3>1. InOrder(q)
      BY <2>2 DEF ArmedInv
    <3>2. \A i, j \in 1 .. Len(q) - 1 : i < j => i + 1 \in 1 .. Len(q) /\ j + 1 \in 1 .. Len(q) /\ i + 1 < j + 1
      BY <2>3
    <3> QED
      BY <2>1, <2>2, <2>3, <3>1, <3>2 DEF InOrder
  <2>5. Head(list).cb \in Cb
    BY <2>2, <2>3 DEF Item
  <2>6. f \in Frame
    BY <1>0, <1>t, <2>1, <2>5, NewFrames
  <2>7. InHandler(f) /\ f.removed /\ f.tick = top.tick
    BY <1>t, <2>1, <2>6 DEF Frame, InHandler
  <2> HIDE DEF f
  <2> QED
    BY <1>0, <1>t, <2>1, <2>4, <2>6, <2>7, HandlerGoesOn
<1>4. CASE KeepNeeds
  <2> DEFINE f == [top EXCEPT !.pc = "free"]
  <2>1. frames[current] # <<>> /\ top.pc = "called" /\ Replace(f) /\ UNCHANGED <<list, current>>
    BY <1>4 DEF KeepNeeds, At
  <2>2. top \in Frame /\ f \in Frame
    BY <1>0, <2>1, StackFacts, NewFrames
  <2>3. top.removed
    BY <1>0, <2>1, TopRemoved DEF InHandler
  <2>4. InHandler(f) /\ f.removed /\ f.tick = top.tick
    BY <2>1, <2>2, <2>3 DEF Frame, InHandler
  <2> HIDE DEF f
  <2>5. top.pc # "add" /\ f.tick <= 0
    BY <1>t, <2>1, <2>4
  <2>6. Calm(list', current', frames') /\ Ready'
    BY <1>0, <2>1, <2>2, <2>4, <2>5, HandlerGoesOn
  <2> QED
    BY <1>s, <2>1, <2>6
<1>5. CASE CallMsg
  <2> DEFINE f == [top EXCEPT !.pc = "free"]
  <2>1. frames[current] # <<>> /\ top.pc = "call" /\ Replace(f) /\ UNCHANGED <<list, current>>
    BY <1>5 DEF CallMsg, At
  <2>2. top \in Frame /\ f \in Frame
    BY <1>0, <2>1, StackFacts, NewFrames
  <2>3. top.removed
    BY <1>0, <2>1, TopRemoved DEF InHandler
  <2>4. InHandler(f) /\ f.removed /\ f.tick = top.tick
    BY <2>1, <2>2, <2>3 DEF Frame, InHandler
  <2> HIDE DEF f
  <2>5. top.pc # "add" /\ f.tick <= 0
    BY <1>t, <2>1, <2>4
  <2>6. Calm(list', current', frames') /\ Ready'
    BY <1>0, <2>1, <2>2, <2>4, <2>5, HandlerGoesOn
  <2> QED
    BY <1>s, <2>1, <2>6
<1>6. CASE HandlerFree
  <2> DEFINE f == [top EXCEPT !.pc = "loop", !.cb = ""]
  <2>1. frames[current] # <<>> /\ top.pc = "free" /\ Replace(f) /\ UNCHANGED <<list, current>>
    BY <1>6 DEF HandlerFree, At
  <2>2. top \in Frame /\ f \in Frame
    BY <1>0, <2>1, StackFacts, NewFrames
  <2>3. top.removed
    BY <1>0, <2>1, TopRemoved DEF InHandler
  <2>4. InHandler(f) /\ f.removed /\ f.tick = top.tick
    BY <2>1, <2>2, <2>3 DEF Frame, InHandler
  <2> HIDE DEF f
  <2>5. top.pc # "add" /\ f.tick <= 0
    BY <1>t, <2>1, <2>4
  <2>6. Calm(list', current', frames') /\ Ready'
    BY <1>0, <2>1, <2>2, <2>4, <2>5, HandlerGoesOn
  <2> QED
    BY <1>s, <2>1, <2>6
<1>3. CASE CallKeep
  <2> DEFINE f == [top EXCEPT !.pc = "called"]
  <2>1. frames[current] # <<>> /\ top.pc = "call" /\ UNCHANGED <<list, current>>
    BY <1>3 DEF CallKeep, At
  <2>2. top \in Frame /\ f \in Frame
    BY <1>0, <2>1, StackFacts, NewFrames
  <2>3. top.removed
    BY <1>0, <2>1, TopRemoved DEF InHandler
  <2>4. InHandler(f) /\ f.removed /\ f.tick = top.tick /\ top.pc # "add" /\ f.tick <= 0
    BY <1>t, <2>1, <2>2, <2>3 DEF Frame, InHandler
  <2>5. CASE mem = 0
    <3>1. Replace(f)
      BY <1>3, <2>5 DEF CallKeep
    <3> HIDE DEF f
    <3>2. Calm(list', current', frames') /\ Ready'
      BY <1>0, <2>1, <2>2, <2>4, <3>1, HandlerGoesOn
    <3> QED
      BY <1>s, <2>1, <3>2
  <2>6. CASE mem # 0
    <3>1. frames' = [frames EXCEPT ![current] = Front(frames[current]) \o <<f, Add("keep", SLICE)>>]
      BY <1>0, <1>3, <2>6 DEF CallKeep
    <3>2. PICK g \in Frame : g = Add("keep", SLICE) /\ g.pc = "add" /\ g.tick <= 0
      <4>1. "keep" \in Cb /\ SLICE \in Nat
        BY TimerAssumption DEF Cb
      <4>2. Add("keep", SLICE) \in Frame
        BY <4>1, NewFrames
      <4>3. Add("keep", SLICE).pc = "add" /\ Add("keep", SLICE).tick <= 0
        BY DEF Add
      <4> QED
        BY <4>2, <4>3
    <3> HIDE DEF f
    <3>3. PICK s \in Seq(Frame) : /\ s = frames[current] /\ s # <<>> /\ Stacked(s) /\ Late(s)
                                  /\ top = Last(s) /\ Front(s) \in Seq(Frame)
      BY <2>1, CurrentStack
    <3>4. Quiet(Front(s)) /\ Late(Front(s))
      BY <2>4, <3>3, Below
    <3>5. PICK m \in Seq(Frame) : m = Append(Front(s), f)
      BY <2>2, <3>3, AppendFacts
    <3>6. Stacked(m) /\ Late(m) /\ ~ Quiet(m)
      BY <2>2, <2>4, <3>3, <3>4, <3>5, OnQuiet
    <3>7. \A i \in DOMAIN m : InHandler(m[i]) => m[i].removed
      <4>1. /\ DOMAIN m = 1 .. Len(Front(s)) + 1 /\ m[Len(Front(s)) + 1] = f
            /\ Len(Front(s)) \in Nat /\ DOMAIN Front(s) = 1 .. Len(Front(s))
            /\ \A i \in 1 .. Len(Front(s)) : m[i] = Front(s)[i]
        BY <2>2, <3>3, <3>5, AppendFacts
      <4>2. \A n \in Nat : \A i \in 1 .. n + 1 : i \in 1 .. n \/ i = n + 1
        OBVIOUS
      <4> QED
        BY <2>4, <3>4, <4>1, <4>2 DEF Quiet
    <3>8. PICK n \in Seq(Frame) : n = Append(m, g)
      BY AppendFacts
    <3>9. Stacked(n) /\ Late(n) /\ Coming(list, n) /\ ~ Quiet(n)
      BY <3>2, <3>6, <3>7, <3>8, AddOnTop
    <3>10. frames' = [frames EXCEPT ![current] = n]
      BY <1>0, <2>1, <2>2, <3>1, <3>2, <3>3, <3>5, <3>8, CallKeepStack
    <3>11. Calm(list, current, frames') /\ ~ AllQuiet(frames')
      BY <1>0, <3>9, <3>10, CalmStack DEF ArmedInv
    <3> QED
      BY <1>s, <2>1, <3>11 DEF Ready
  <2> QED
    BY <2>5, <2>6
<1>7. CASE HandlerReset
  <2> DEFINE f == [top EXCEPT !.pc = "sched", !.tick = 0]
  <2>1. /\ frames[current] # <<>> /\ top.pc = "loop" /\ Replace(f) /\ UNCHANGED <<list, current>>
        /\ Reset(top) /\ (list # <<>> => Head(list).at > top.tick)
    BY <1>7 DEF HandlerReset, At
  <2>2. top \in Frame /\ f \in Frame
    BY <1>0, <2>1, StackFacts, NewFrames
  <2>3. ~ InHandler(f) /\ f.tick <= 0 /\ top.pc # "add"
    BY <2>1, <2>2 DEF Frame, InHandler
  <2> HIDE DEF f
  <2>4. Calm(list', current', frames')
    BY <1>0, <2>1, <2>2, <2>3, HandlerEnds
  <2>5. ASSUME list # <<>> PROVE enabled' /\ Head(list).at <= cval'
    <3>1. Head(list) \in Item
      BY <1>0, <2>5 DEF TypeInv
    <3>2. Head(list).at \in Int /\ top.tick \in Int /\ top.tick <= 0
      BY <1>t, <2>1, <3>1 DEF Item
    <3>3. top.removed
      <4>1. ~ top.removed => Finds(list, top)
        BY <1>0, <2>1, TopRemoved
      <4> QED
        BY <2>1, <2>5, <3>2, <4>1 DEF Finds
    <3>4. cval' = Head(list).at - top.tick /\ enabled' = TRUE
      BY <2>1, <2>5, <3>3 DEF Reset
    <3> QED
      BY <3>2, <3>4
  <2> QED
    BY <1>s, <2>1, <2>4, <2>5 DEF Ready
<1>8. CASE HandlerSchedule
  <2> DEFINE f == [top EXCEPT !.pc = "exit", !.removed = FALSE]
  <2>1. frames[current] # <<>> /\ top.pc = "sched" /\ Replace(f) /\ UNCHANGED <<list, cval>>
    BY <1>8 DEF HandlerSchedule, At
  <2>2. top \in Frame /\ f \in Frame
    BY <1>0, <2>1, StackFacts, NewFrames
  <2>3. ~ InHandler(f) /\ f.tick <= 0 /\ top.pc # "add" /\ ~ InHandler(top)
    BY <1>t, <2>1, <2>2 DEF Frame, InHandler
  <2> HIDE DEF f
  <2>4. Calm(list', current', frames') /\ AllQuiet(frames)
    BY <1>0, <2>1, <2>2, <2>3, HandlerEnds
  <2>5. enabled => enabled'
    BY <1>8 DEF HandlerSchedule, schedule
  <2>6. Ready'
    BY <2>1, <2>4, <2>5 DEF ArmedInv, Ready
  <2> QED
    BY <1>s, <2>1, <2>4, <2>6
<1>9. CASE HandlerExit
  <2>1. frames[current] # <<>> /\ top.pc = "exit" /\ Leave /\ UNCHANGED <<list, cval, enabled, current>>
    BY <1>9 DEF HandlerExit, At
  <2>2. PICK s \in Seq(Frame) : /\ s = frames[current] /\ s # <<>> /\ Stacked(s) /\ Late(s)
                                /\ top = Last(s) /\ Front(s) \in Seq(Frame)
    BY <2>1, CurrentStack
  <2>3. Stacked(Front(s)) /\ Late(Front(s)) /\ Quiet(Front(s))
    BY <2>1, <2>2, Below
  <2>4. Coming(list, Front(s))
    BY <2>3 DEF Quiet, Coming
  <2>5. Calm(list, current, frames')
    BY <1>0, <2>1, <2>2, <2>3, <2>4, CalmStack DEF ArmedInv, Leave
  <2>6. AllQuiet(frames)
    <3>1. /\ Len(s) \in Nat \ {0} /\ DOMAIN s = 1 .. Len(s) /\ Last(s) = s[Len(s)]
          /\ DOMAIN Front(s) = 1 .. Len(s) - 1
          /\ \A i \in 1 .. Len(s) - 1 : Front(s)[i] = s[i]
      BY <2>2, FrontFacts
    <3>2. \A k \in Nat \ {0} : \A i \in 1 .. k : i \in 1 .. k - 1 \/ i = k
      OBVIOUS
    <3>3. ~ InHandler(top)
      BY <2>1 DEF InHandler
    <3>4. Quiet(s)
      BY <2>2, <2>3, <3>1, <3>2, <3>3 DEF Quiet
    <3> QED
      BY <2>2, <3>4 DEF ArmedInv, Calm, AllQuiet
  <2> QED
    BY <1>s, <2>1, <2>5, <2>6 DEF ArmedInv, Ready
<1>10. CASE add_timer_insert
  <2> DEFINE x == [at |-> top.tick + top.delay, cb |-> top.cb]
             reset == list = <<>> \/ Head(list).at >= x.at
  <2>1. /\ At("add") /\ frames[current] # <<>> /\ top.pc = "add" /\ Leave /\ UNCHANGED current
        /\ list' = Insert(list, x) /\ enabled' = TRUE
        /\ cval' = IF reset THEN top.delay ELSE cval
    BY <1>10 DEF add_timer_insert, At
  <2>2. PICK q \in Seq(Item) : q = list
    BY <1>0 DEF TypeInv
  <2>3. x \in Item
    BY <1>0, <2>1, NewTimer
  <2>4. x.at \in Int /\ top.delay \in Nat /\ x.at <= top.delay
    <3>1. top.tick \in Int /\ top.tick <= 0 /\ top.delay \in Nat
      BY <1>t, <2>1 DEF Frame
    <3> QED
      BY <3>1
  <2> HIDE DEF x
  <2>5. /\ InOrder(list') /\ list' # <<>>
        /\ list = <<>> => Head(list') = x
        /\ list # <<>> => Head(list') = IF Head(list).at >= x.at THEN x ELSE Head(list)
    <3>1. InOrder(q)
      BY <2>2 DEF ArmedInv
    <3> QED
      BY <2>1, <2>2, <2>3, <3>1, InsertFacts
  <2>6. PICK s \in Seq(Frame) : /\ s = frames[current] /\ s # <<>> /\ Stacked(s) /\ Late(s)
                                /\ top = Last(s) /\ Front(s) \in Seq(Frame)
    BY <2>1, CurrentStack
  <2>7. Stacked(Front(s)) /\ Late(Front(s)) /\ (Quiet(Front(s)) => Quiet(s))
    BY <2>1, <2>6, Below
  <2>8. Coming(list', Front(s))
    <3>1. \A i \in DOMAIN s : InHandler(s[i]) => s[i].removed
      BY <2>1, <2>6, TopRemoved
    <3>2. /\ DOMAIN Front(s) = 1 .. Len(s) - 1 /\ DOMAIN s = 1 .. Len(s) /\ Len(s) \in Nat
          /\ \A i \in 1 .. Len(s) - 1 : Front(s)[i] = s[i]
      BY <2>6, FrontFacts
    <3>3. \A i \in 1 .. Len(s) - 1 : i \in 1 .. Len(s)
      BY <3>2
    <3> QED
      BY <3>1, <3>2, <3>3 DEF Coming
  <2>9. frames' = [frames EXCEPT ![current] = Front(s)]
    BY <2>1, <2>6 DEF Leave
  <2>10. Calm(list', current, frames') /\ (AllQuiet(frames') <=> Quiet(Front(s)))
    BY <1>0, <2>6, <2>7, <2>8, <2>9, CalmStack DEF ArmedInv
  <2>11. ASSUME AllQuiet(frames') PROVE Head(list').at <= cval'
    <3>1. AllQuiet(frames)
      BY <2>6, <2>7, <2>10, <2>11 DEF ArmedInv, Calm, AllQuiet
    <3>2. CASE reset
      BY <2>1, <2>4, <2>5, <3>2
    <3>3. CASE ~ reset
      BY <2>1, <2>5, <3>1, <3>3 DEF ArmedInv, Ready
    <3> QED
      BY <3>2, <3>3
  <2> QED
    BY <2>1, <2>5, <2>10, <2>11 DEF Ready
<1>11. ASSUME NEW delay \in Timeouts, set_timeout(delay)
       PROVE  Calm(list', current', frames') /\ InOrder(list') /\ Ready'
  <2>1. UNCHANGED <<list, cval, enabled, current>> /\ frames[current] = <<>> /\ add_timer("msg", delay)
    BY <1>11 DEF set_timeout
  <2>2. CASE mem = 0
    <3>1. UNCHANGED frames
      BY <2>1, <2>2 DEF add_timer
    <3> QED
      BY <1>s, <2>1, <3>1 DEF ArmedInv, Ready
  <2>3. CASE mem # 0
    <3>1. frames' = [frames EXCEPT ![current] = Append(<<>>, Add("msg", delay))]
      BY <1>0, <2>1, <2>3 DEF add_timer, Push
    <3>2. PICK g \in Frame : g = Add("msg", delay) /\ ~ InHandler(g) /\ g.tick <= 0
      <4>1. "msg" \in Cb /\ delay \in Nat
        BY TimerAssumption DEF Cb
      <4>2. Add("msg", delay) \in Frame
        BY <4>1, NewFrames
      <4>3. ~ InHandler(Add("msg", delay)) /\ Add("msg", delay).tick <= 0
        BY DEF Add, InHandler
      <4> QED
        BY <4>2, <4>3
    <3>3. PICK r \in Seq(Frame) : r = <<>>
      <4>1. <<>> \in Seq(Frame)
        OBVIOUS
      <4> QED
        BY <4>1
    <3>4. Quiet(r) /\ Late(r)
      BY <3>3 DEF Quiet, Late
    <3>5. PICK n \in Seq(Frame) : n = Append(r, g)
      BY AppendFacts
    <3>6. Stacked(n) /\ Late(n) /\ Coming(list, n) /\ Quiet(n)
      BY <3>2, <3>4, <3>5, OnQuiet
    <3>7. frames' = [frames EXCEPT ![current] = n]
      BY <3>1, <3>2, <3>3, <3>5
    <3>8. Calm(list, current, frames')
      BY <1>0, <3>6, <3>7, CalmStack DEF ArmedInv
    <3>9. AllQuiet(frames)
      BY <2>1, <3>3, <3>4 DEF ArmedInv, Calm, AllQuiet
    <3> QED
      BY <1>s, <2>1, <3>8, <3>9 DEF ArmedInv, Ready
  <2> QED
    BY <2>2, <2>3
<1>12. CASE Yield
  <2>1. UNCHANGED <<list, cval, frames>> /\ frames[current] = <<>> /\ enabled' = TRUE
    BY <1>12 DEF Yield, schedule
  <2>2. Quiet(<<>>)
    BY DEF Quiet
  <2>3. AllQuiet(frames) /\ \A t \in Thread : Late(frames[t])
    BY <2>1, <2>2 DEF ArmedInv, Calm, AllQuiet
  <2>4. Calm(list, current', frames)
    BY <1>0, <2>3, QuietCalm
  <2> QED
    BY <1>s, <2>1, <2>3, <2>4 DEF ArmedInv, Ready
<1>13. ASSUME NEW u \in Thread, Kill(u)
       PROVE  Calm(list', current', frames') /\ InOrder(list') /\ Ready'
  <2>1. /\ UNCHANGED <<list, cval, enabled, current>> /\ u # current
        /\ frames' = [frames EXCEPT ![u] = <<>>]
    BY <1>13 DEF Kill
  <2>2. Quiet(<<>>) /\ Late(<<>>)
    BY DEF Quiet, Late
  <2>3. PICK G : G = frames'
    OBVIOUS
  <2>4. G[u] = <<>> /\ \A t \in Thread : t # u => G[t] = frames[t]
    BY <1>0, <2>1, <2>3
  <2>5. Calm(list, current, G)
    BY <1>0, <2>1, <2>2, <2>4 DEF ArmedInv, Calm
  <2>6. AllQuiet(G) => AllQuiet(frames)
    BY <2>1, <2>4 DEF ArmedInv, Calm, AllQuiet
  <2> QED
    BY <1>s, <2>1, <2>3, <2>5, <2>6 DEF ArmedInv, Ready
<1>14. CASE Tick
  <2>1. UNCHANGED <<enabled, current>> /\ cval' = IF cval > 0 THEN cval - 1 ELSE 0
    BY <1>14 DEF Tick
  <2>2. cval \in Nat
    BY <1>0 DEF TypeInv
  <2>3. PICK q : q = list'
    OBVIOUS
  <2>4. /\ q \in Seq(Item) /\ DOMAIN q = DOMAIN list /\ (q = <<>> <=> list = <<>>)
        /\ \A i \in DOMAIN list : q[i].at = Down(list[i].at)
    BY <1>0, <1>14, <2>3, TickList
  <2>5. \A i \in DOMAIN list : list[i].at \in Int
    <3>1. list \in Seq(Item) /\ \A e \in Item : e.at \in Int
      BY <1>0 DEF TypeInv, Item
    <3>2. \A i \in DOMAIN list : list[i] \in Item
      BY <3>1
    <3> QED
      BY <3>1, <3>2
  <2>6. InOrder(q)
    BY <2>4, <2>5, DownFacts DEF ArmedInv, InOrder
  <2>7. list # <<>> => /\ 1 \in DOMAIN list /\ Head(list) = list[1] /\ Head(q) = q[1]
                       /\ Head(list).at \in Int /\ Head(q).at = Down(Head(list).at)
    <3>1. list \in Seq(Item)
      BY <1>0 DEF TypeInv
    <3>2. list # <<>> => 1 \in DOMAIN list /\ Head(list) = list[1]
      BY <3>1
    <3>3. list # <<>> => Head(q) = q[1]
      BY <2>4
    <3> QED
      BY <2>4, <2>5, <3>2, <3>3
  <2>8. PICK G : G = frames'
    OBVIOUS
  <2>9. /\ \A t \in Thread : DOMAIN G[t] = DOMAIN frames[t] /\ Len(G[t]) = Len(frames[t])
        /\ \A t \in Thread : \A i \in DOMAIN frames[t] :
              G[t][i] = IF frames[t][i].pc \in {"sched", "exit"} THEN frames[t][i]
                        ELSE [frames[t][i] EXCEPT !.tick = Down(@)]
    BY <1>0, <1>14, <2>8, TickStacks
  <2>10. ASSUME NEW t \in Thread, NEW i \in DOMAIN frames[t]
         PROVE  /\ G[t][i].pc = frames[t][i].pc /\ G[t][i].removed = frames[t][i].removed
                /\ frames[t][i].tick \in Int
                /\ G[t][i].tick \in {frames[t][i].tick, Down(frames[t][i].tick)}
                /\ InHandler(frames[t][i]) => G[t][i].tick = Down(frames[t][i].tick)
    <3>1. PICK f : f = frames[t][i]
      OBVIOUS
    <3>2. f \in Frame
      BY <1>0, <3>1
    <3>3. f.tick \in Int
      BY <3>2 DEF Frame
    <3>4. PICK d : d = Down(f.tick)
      OBVIOUS
    <3>5. /\ [f EXCEPT !.tick = d].pc = f.pc /\ [f EXCEPT !.tick = d].removed = f.removed
          /\ [f EXCEPT !.tick = d].tick = d
      BY <3>2 DEF Frame
    <3>6. G[t][i] = IF f.pc \in {"sched", "exit"} THEN f ELSE [f EXCEPT !.tick = d]
      BY <2>9, <3>1, <3>4
    <3>7. InHandler(f) => f.pc \notin {"sched", "exit"}
      BY DEF InHandler
    <3> QED
      BY <3>1, <3>3, <3>4, <3>5, <3>6, <3>7
  <2>11. \A t \in Thread : \A i \in DOMAIN frames[t] : InHandler(G[t][i]) <=> InHandler(frames[t][i])
    BY <2>10 DEF InHandler
  <2>12. \A t \in Thread : Quiet(G[t]) <=> Quiet(frames[t])
    BY <2>9, <2>11 DEF Quiet
  <2>13. \A t \in Thread : Late(G[t])
    <3>1. \A t \in Thread : \A i \in DOMAIN frames[t] : frames[t][i].tick <= 0
      BY DEF ArmedInv, Calm, Late
    <3>2. \A x \in Int : x <= 0 => Down(x) <= 0
      BY DownFacts
    <3>3. \A t \in Thread : \A i \in DOMAIN frames[t] : G[t][i].tick <= 0
      BY <2>10, <3>1, <3>2
    <3> QED
      BY <2>9, <3>3 DEF Late
  <2>14. Stacked(G[current])
    <3>1. Stacked(frames[current])
      BY DEF ArmedInv, Calm
    <3> QED
      BY <1>0, <2>9, <2>10, <2>11, <3>1 DEF Stacked
  <2>15. Coming(q, G[current])
    <3>1. Coming(list, frames[current])
      BY DEF ArmedInv, Calm
    <3>2. ASSUME NEW i \in DOMAIN frames[current], InHandler(frames[current][i]), Finds(list, frames[current][i])
          PROVE  Finds(q, G[current][i])
      <4>1. CASE list = <<>>
        BY <2>4, <4>1 DEF Finds
      <4>2. CASE list # <<>>
        <5>1. frames[current][i].tick \in Int /\ G[current][i].tick = Down(frames[current][i].tick)
          BY <1>0, <2>10, <3>2
        <5>2. Head(list).at <= frames[current][i].tick
          BY <3>2, <4>2 DEF Finds
        <5>3. Down(Head(list).at) <= Down(frames[current][i].tick)
          BY <2>7, <4>2, <5>1, <5>2, DownFacts
        <5> QED
          BY <2>7, <4>2, <5>1, <5>3 DEF Finds
      <4> QED
        BY <4>1, <4>2
    <3> QED
      BY <1>0, <2>9, <2>10, <2>11, <3>1, <3>2 DEF Coming
  <2>16. Calm(q, current, G)
    BY <2>12, <2>13, <2>14, <2>15 DEF ArmedInv, Calm
  <2>17. ASSUME AllQuiet(G), list # <<>> PROVE enabled /\ Head(q).at <= cval'
    <3>1. AllQuiet(frames)
      BY <2>12, <2>17 DEF AllQuiet
    <3>2. enabled /\ Head(list).at <= cval
      BY <2>17, <3>1 DEF ArmedInv, Ready
    <3>3. Down(Head(list).at) <= IF cval > 0 THEN cval - 1 ELSE 0
      BY <2>2, <2>7, <2>17, <3>2, DownFacts
    <3> QED
      BY <2>1, <2>7, <2>17, <3>2, <3>3
  <2>18. Ready'
    BY <2>1, <2>3, <2>4, <2>8, <2>17 DEF Ready
  <2> QED
    BY <2>1, <2>3, <2>6, <2>8, <2>16, <2>18
<1>15. CASE Halted \/ UNCHANGED vars
  BY <1>s, <1>15 DEF Halted, vars, ArmedInv, Ready
<1> QED
  BY <1>1, <1>2, <1>3, <1>4, <1>5, <1>6, <1>7, <1>8, <1>9, <1>10, <1>11, <1>12, <1>13, <1>14, <1>15
     DEF Next, HandlerStep

\* It is armed at the start.
LEMMA ArmedInit == Init => ArmedInv
<1> SUFFICES ASSUME Init PROVE ArmedInv
  OBVIOUS
<1>1. TypeInv
  BY TypeInit
<1>2. FIRST \in Nat
  BY TimerAssumption
<1>3. \A t \in Thread : frames[t] = <<>>
  BY DEF Init
<1>4. AllQuiet(frames) /\ \A t \in Thread : Late(frames[t])
  BY <1>3 DEF AllQuiet, Quiet, Late
<1>5. current \in Thread
  BY DEF Init
<1>6. Calm(list, current, frames)
  BY <1>4, <1>5, QuietCalm
<1>7. /\ DOMAIN list = {1} /\ list[1].at = FIRST /\ Head(list).at = FIRST
      /\ cval = FIRST /\ enabled = TRUE
  BY DEF Init
<1>8. InOrder(list) /\ Ready
  BY <1>2, <1>7 DEF InOrder, Ready
<1> QED
  BY <1>1, <1>6, <1>8 DEF ArmedInv

\* If the timer does not interrupt its own handler, the hardware timer is always
\* enabled and set for the first timer of the list, or later: add_timer,
\* core_timer_handler and schedule leave no way to lose it.
THEOREM HardwareIsArmed ==
    ASSUME ~ Nested
    PROVE  Spec => []Armed
<1>1. Init => ArmedInv
  BY ArmedInit
<1>2. ArmedInv /\ [Next]_vars => ArmedInv'
  BY ArmedStep
<1>3. ArmedInv => Armed
  BY ReadyArmed DEF ArmedInv
<1> QED
  BY <1>1, <1>2, <1>3, PTL DEF Spec

\* Nor does core_timer_handler then give up with timers in the list.
THEOREM HandlerResets ==
    ASSUME ~ Nested
    PROVE  Spec => NoTimerToReset
<1>1. Init => ArmedInv
  BY ArmedInit
<1>2. ArmedInv /\ [Next]_vars => ArmedInv'
  BY ArmedStep
<1>3. ArmedInv => (HandlerReset /\ ~ top.removed => list = <<>>)
  <2> SUFFICES ASSUME ArmedInv, HandlerReset, ~ top.removed, list # <<>> PROVE FALSE
    OBVIOUS
  <2>1. frames[current] # <<>> /\ top.pc = "loop" /\ Head(list).at > top.tick
    BY DEF HandlerReset, At
  <2>2. Head(list).at <= top.tick
    BY <2>1, TopRemoved DEF Finds
  <2>3. top \in Frame /\ Head(list) \in Item
    BY <2>1, StackFacts DEF ArmedInv, TypeInv
  <2>4. top.tick \in Int /\ Head(list).at \in Int
    BY <2>3 DEF Frame, Item
  <2> QED
    BY <2>1, <2>2, <2>4
<1>4. ArmedInv /\ [Next]_vars => [HandlerReset /\ ~ top.removed => list = <<>>]_vars
  BY <1>3
<1> QED
  BY <1>1, <1>2, <1>4, PTL DEF Spec, NoTimerToReset
=============================================================================
