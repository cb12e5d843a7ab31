-------------------------- MODULE ThreadPoolProofs --------------------------
(***************************************************************************)
(* What is proved of ThreadPool for every capacity, every set of           *)
(* connections and every finite set of workers.                            *)
(***************************************************************************)
EXTENDS ThreadPool, FiniteSetTheorems, SequenceTheorems, TLAPS

(* head, count and tail describe one window of the ring, and every slot of *)
(* that window holds a connection.                                         *)
RingInv ==
  /\ tail = (head + count) % Capacity
  /\ \A n \in 1..count : items[(head + n - 1) % Capacity] \in Item

(* A worker has a connection exactly from tpq_pop to the end of its        *)
(* session, or to the check of the flag that turns the connection away.    *)
Holding(w) == pc[w] \in {"check", "serving"}
HeldInv == \A w \in Worker : Holding(w) <=> held[w] # NoItem

IInv == TypeOK /\ RingInv /\ HeldInv
-----------------------------------------------------------------------------
(* Index arithmetic of the ring: one round of wrapping at most.            *)
LEMMA Wrap ==
  ASSUME NEW c \in Nat \ {0}, NEW h \in 0..(c-1), NEW k \in 0..c
  PROVE  (h + k) % c = IF h + k < c THEN h + k ELSE h + k - c
OBVIOUS

(* An index modulo the capacity is an index of the ring.                   *)
LEMMA ModRange ==
  ASSUME NEW c \in Nat \ {0}, NEW k \in Nat
  PROVE  k % c \in 0..(c-1)
OBVIOUS

(* The slot of the n-th connection is not the slot push writes.            *)
LEMMA WindowAvoidsTail ==
  ASSUME NEW c \in Nat \ {0}, NEW h \in 0..(c-1), NEW k \in 0..(c-1),
         NEW n \in 1..k
  PROVE  (h + n - 1) % c # (h + k) % c
<1>1. n - 1 \in 0..c /\ k \in 0..c /\ h + n - 1 = h + (n - 1)
  OBVIOUS
<1>2. (h + (n - 1)) % c = IF h + (n - 1) < c THEN h + (n - 1) ELSE h + (n - 1) - c
  BY <1>1, Wrap
<1>3. (h + k) % c = IF h + k < c THEN h + k ELSE h + k - c
  BY <1>1, Wrap
<1>4. QED  BY <1>1, <1>2, <1>3

(* Advancing head and counting on from there skips the first connection.   *)
LEMMA AdvanceHead ==
  ASSUME NEW c \in Nat \ {0}, NEW h \in 0..(c-1), NEW k \in 0..(c-1)
  PROVE  (((h + 1) % c) + k) % c = (h + k + 1) % c
<1>1. (h + 1) % c = IF h + 1 < c THEN h + 1 ELSE 0
  <2>1. 1 \in 0..c
    OBVIOUS
  <2>2. (h + 1) % c = IF h + 1 < c THEN h + 1 ELSE h + 1 - c
    BY <2>1, Wrap
  <2>3. QED  BY <2>2
<1>2. CASE h + 1 < c
  <2>1. ((h + 1) % c) + k = h + k + 1
    BY <1>1, <1>2
  <2>2. QED  BY <2>1
<1>3. CASE ~(h + 1 < c)
  <2>1. h = c - 1 /\ ((h + 1) % c) + k = 0 + k
    BY <1>1, <1>3
  <2>2. (0 + k) % c = k
    BY Wrap
  <2>3. h + k + 1 = h + (k + 1) /\ k + 1 \in 0..c
    OBVIOUS
  <2>4. (h + (k + 1)) % c = k
    BY <2>1, <2>3, Wrap
  <2>5. QED  BY <2>1, <2>2, <2>3, <2>4
<1>4. QED  BY <1>2, <1>3

(* The steps that move the window.                                         *)
LEMMA PushStep ==
  ASSUME IInv, NEW i \in Item, tpq_push(i)
  PROVE  /\ RingInv'
         /\ items'[(head + count) % Capacity] = i
         /\ \A n \in 1..count :
              items'[(head + n - 1) % Capacity] = items[(head + n - 1) % Capacity]
<1> USE PoolAssumption
<1>1. /\ count \in 0..(Capacity - 1) /\ count' = count + 1 /\ head' = head
      /\ head \in 0..(Capacity - 1)
      /\ tail = (head + count) % Capacity /\ tail \in Slot
      /\ tail' = (tail + 1) % Capacity
      /\ items \in [Slot -> Item \cup {NoItem}]
      /\ items' = [items EXCEPT ![tail] = i]
  BY DEF IInv, TypeOK, RingInv, tpq_push, Slot
<1>2. tail' = (head + count') % Capacity
  <2>1. count \in 0..Capacity /\ count + 1 \in 0..Capacity /\ head + count' = head + (count + 1)
    BY <1>1
  <2>2. tail = IF head + count < Capacity THEN head + count ELSE head + count - Capacity
    BY <1>1, <2>1, Wrap
  <2>3. (head + (count + 1)) % Capacity = IF head + (count + 1) < Capacity
             THEN head + (count + 1) ELSE head + (count + 1) - Capacity
    BY <1>1, <2>1, Wrap
  <2>4. tail \in 0..(Capacity - 1) /\ 1 \in 0..Capacity
    BY <1>1 DEF Slot
  <2>5. (tail + 1) % Capacity = IF tail + 1 < Capacity THEN tail + 1 ELSE tail + 1 - Capacity
    BY <2>4, Wrap
  <2>6. QED  BY <1>1, <2>1, <2>2, <2>3, <2>5
<1>3. items'[tail] = i
  BY <1>1
<1>4. ASSUME NEW n \in 1..count
      PROVE  items'[(head + n - 1) % Capacity] = items[(head + n - 1) % Capacity]
  <2>1. (head + n - 1) % Capacity # tail
    BY <1>1, WindowAvoidsTail
  <2>2. head + n - 1 \in Nat
    BY <1>1
  <2>3. (head + n - 1) % Capacity \in Slot
    BY <2>2, ModRange DEF PoolAssumption, Slot
  <2>4. QED  BY <1>1, <2>1, <2>3
<1>5. \A n \in 1..count' : items'[(head' + n - 1) % Capacity] \in Item
  <2>1. SUFFICES ASSUME NEW n \in 1..(count + 1)
                 PROVE  items'[(head + n - 1) % Capacity] \in Item
    BY <1>1
  <2>2. CASE n = count + 1
    <3>1. head + n - 1 = head + count
      BY <2>2, <1>1
    <3>2. QED  BY <3>1, <1>1, <1>3
  <2>3. CASE n # count + 1
    <3>1. n \in 1..count
      BY <2>3, <1>1
    <3>2. QED  BY <3>1, <1>4 DEF IInv, RingInv
  <2>4. QED  BY <2>2, <2>3
<1>6. QED  BY <1>1, <1>2, <1>3, <1>4, <1>5 DEF RingInv

(* tpq_pop moves the head by one slot and takes the item it left.          *)
LEMMA PopStep ==
  ASSUME IInv, NEW w \in Worker, PopItem(w)
  PROVE  /\ RingInv'
         /\ items[head] = items[(head + 1 - 1) % Capacity]
         /\ items[head] \in Item
         /\ \A n \in 1..count' :
              (head' + n - 1) % Capacity = (head + (n + 1) - 1) % Capacity
<1> USE PoolAssumption
<1>1. /\ count \in 1..Capacity /\ count' = count - 1
      /\ head \in 0..(Capacity - 1) /\ head' = (head + 1) % Capacity
      /\ tail' = tail /\ items' = items
      /\ tail = (head + count) % Capacity
      /\ \A n \in 1..count : items[(head + n - 1) % Capacity] \in Item
  BY DEF IInv, TypeOK, RingInv, PopItem, Slot
<1>2. ASSUME NEW n \in 1..count'
      PROVE  (head' + n - 1) % Capacity = (head + (n + 1) - 1) % Capacity
  <2>1. n - 1 \in 0..(Capacity - 1)
    BY <1>1
  <2>2. (((head + 1) % Capacity) + (n - 1)) % Capacity = (head + (n - 1) + 1) % Capacity
    BY <1>1, <2>1, AdvanceHead
  <2>3. (head + 1) % Capacity \in Int
    BY <1>1, ModRange
  <2>4. head' + n - 1 = ((head + 1) % Capacity) + (n - 1)
    BY <1>1, <2>3
  <2>5. head + (n + 1) - 1 = head + (n - 1) + 1
    BY <1>1
  <2>6. QED  BY <2>2, <2>4, <2>5
<1>3. tail' = (head' + count') % Capacity
  <2>1. count - 1 \in 0..(Capacity - 1)
    BY <1>1
  <2>2. (((head + 1) % Capacity) + (count - 1)) % Capacity = (head + (count - 1) + 1) % Capacity
    BY <1>1, <2>1, AdvanceHead
  <2>3. head + (count - 1) + 1 = head + count
    BY <1>1
  <2>4. QED  BY <1>1, <2>2, <2>3
<1>4. \A n \in 1..count' : items'[(head' + n - 1) % Capacity] \in Item
  <2>1. SUFFICES ASSUME NEW n \in 1..count'
                 PROVE  items[(head' + n - 1) % Capacity] \in Item
    BY <1>1
  <2>2. n + 1 \in 1..count
    BY <1>1
  <2>3. QED  BY <1>1, <1>2, <2>2
<1>5. head = (head + 1 - 1) % Capacity
  <2>1. head + 1 - 1 = head + 0 /\ 0 \in 0..Capacity
    BY <1>1
  <2>2. (head + 0) % Capacity = head
    BY <1>1, <2>1, Wrap
  <2>3. QED  BY <2>1, <2>2
<1>6. items[head] \in Item
  <2>1. 1 \in 1..count
    BY <1>1
  <2>2. QED  BY <1>1, <1>5, <2>1
<1>7. QED  BY <1>2, <1>3, <1>4, <1>5, <1>6 DEF RingInv
-----------------------------------------------------------------------------
(* The empty queue satisfies the invariant.                                *)
LEMMA InvariantInit == Init => IInv
<1> SUFFICES ASSUME Init PROVE IInv
  OBVIOUS
<1> USE PoolAssumption
<1>1. TypeOK
  <2>1. 0 \in Slot /\ 0 \in 0..Capacity /\ "idle" \in PC
    BY DEF Slot, PC
  <2>2. QED  BY <2>1 DEF Init, TypeOK
<1>2. RingInv
  <2>1. 0 \in 0..(Capacity - 1) /\ 0 \in 0..Capacity
    OBVIOUS
  <2>2. (0 + 0) % Capacity = 0
    BY <2>1, Wrap
  <2>3. QED  BY <2>2 DEF Init, RingInv
<1>3. HeldInv
  BY DEF Init, HeldInv, Holding
<1>4. QED  BY <1>1, <1>2, <1>3 DEF IInv

(* Every critical section of threadpool.c keeps it.                        *)
LEMMA InvariantNext == IInv /\ [Next]_vars => IInv'
<1> SUFFICES ASSUME IInv, [Next]_vars PROVE IInv'
  OBVIOUS
<1> USE PoolAssumption
<1>1. ASSUME NEW i \in Item, tpq_push(i) PROVE IInv'
  <2>1. RingInv'
    BY <1>1, PushStep
  <2>2. pc' \in [Worker -> PC] /\ \A w \in Worker : Holding(w)' <=> Holding(w)
    BY <1>1 DEF IInv, TypeOK, tpq_push, PushSignal, WakeOne, In, PC, Holding
  <2>3. TypeOK'
    <3>1. tail' \in Slot
      BY <1>1, ModRange DEF IInv, TypeOK, tpq_push, Slot
    <3>2. QED  BY <1>1, <2>2, <3>1 DEF IInv, TypeOK, tpq_push
  <2>4. HeldInv'
    BY <1>1, <2>2 DEF IInv, HeldInv, tpq_push
  <2>5. QED  BY <2>1, <2>3, <2>4 DEF IInv
<1>2. ASSUME NEW w \in Worker, PopItem(w) PROVE IInv'
  <2>1. RingInv' /\ items[head] \in Item
    BY <1>2, PopStep
  <2>2. TypeOK'
    <3>1. head' \in Slot
      BY <1>2, ModRange DEF IInv, TypeOK, PopItem, Slot
    <3>2. QED  BY <1>2, <2>1, <3>1 DEF IInv, TypeOK, PopItem, PC
  <2>3. HeldInv'
    BY <1>2, <2>1 DEF IInv, TypeOK, HeldInv, Holding, PopItem
  <2>4. QED  BY <2>1, <2>2, <2>3 DEF IInv
<1>3. ASSUME NEW w \in Worker, PopWait(w) \/ PopFails(w) \/ SpuriousWakeup(w) \/ LoopTest(w)
      PROVE  IInv'
  <2>1. UNCHANGED <<queueVars, running, held>>
    BY <1>3 DEF PopWait, PopFails, SpuriousWakeup, LoopTest
  <2>2. pc' \in [Worker -> PC] /\ \A v \in Worker : Holding(v)' <=> Holding(v)
    BY <1>3 DEF IInv, TypeOK, PopWait, PopFails, SpuriousWakeup, LoopTest, AtLoopTest, Holding, PC
  <2>3. QED  BY <2>1, <2>2 DEF IInv, TypeOK, RingInv, HeldInv, queueVars
<1>4. ASSUME NEW w \in Worker, SessionEnds(w) \/ CheckAfterPop(w) PROVE IInv'
  <2>1. UNCHANGED <<queueVars, running>>
    BY <1>4 DEF SessionEnds, CheckAfterPop
  <2>2. /\ pc' \in [Worker -> PC] /\ held' \in [Worker -> Item \cup {NoItem}]
        /\ HeldInv'
    BY <1>4 DEF IInv, TypeOK, HeldInv, SessionEnds, CheckAfterPop, Holding, PC
  <2>3. QED  BY <2>1, <2>2 DEF IInv, TypeOK, RingInv, queueVars
<1>5. CASE tpq_shutdown
  <2>1. pc' \in [Worker -> PC] /\ \A w \in Worker : Holding(w)' <=> Holding(w)
    BY <1>5 DEF IInv, TypeOK, tpq_shutdown, ShutdownSignal, Holding, PC
  <2>2. QED  BY <1>5, <2>1 DEF IInv, TypeOK, RingInv, HeldInv, tpq_shutdown
<1>6. CASE Stop
  BY <1>6 DEF IInv, TypeOK, RingInv, HeldInv, Holding, Stop, queueVars
<1>7. CASE UNCHANGED vars
  BY <1>7 DEF IInv, TypeOK, RingInv, HeldInv, Holding, vars, queueVars
<1>8. QED  BY <1>1, <1>2, <1>3, <1>4, <1>5, <1>6, <1>7 DEF Next, worker_thread, tpq_pop

(***************************************************************************)
(* The ring buffer of threadpool.c never leaves its types: head, tail and  *)
(* count stay in bounds whatever the interleaving of pushes, pops, wakeups *)
(* and the shutdown.                                                       *)
(***************************************************************************)
THEOREM TypeCorrect == Spec => []TypeOK
<1>1. IInv => TypeOK
  BY DEF IInv
<1>2. QED  BY InvariantInit, InvariantNext, <1>1, PTL DEF Spec

(***************************************************************************)
(* tpq_push, tpq_pop and tpq_shutdown lose no wakeup.                      *)
(***************************************************************************)
LEMMA WokenFinite == IsFiniteSet(In("woken")) /\ Cardinality(In("woken")) \in Nat
<1>1. In("woken") \subseteq Worker
  BY DEF In
<1>2. QED  BY <1>1, PoolAssumption, FS_Subset, FS_CardinalityType

(* A worker that stops being counted takes at most one from the count.     *)
LEMMA OneFewer ==
  ASSUME NEW S, NEW x, IsFiniteSet(S)
  PROVE  Cardinality(S \ {x}) \in Nat /\ Cardinality(S \ {x}) >= Cardinality(S) - 1
<1>1. Cardinality(S) \in Nat
  BY FS_CardinalityType
<1>2. IsFiniteSet(S \ {x})
  BY FS_RemoveElement
<1>3. Cardinality(S \ {x}) \in Nat
  BY <1>2, FS_CardinalityType
<1>4. Cardinality(S \ {x}) = IF x \in S THEN Cardinality(S) - 1 ELSE Cardinality(S)
  BY FS_RemoveElement
<1>5. QED  BY <1>1, <1>3, <1>4

(* No step leaves a worker asleep beside an item that no woken worker will *)
(* take.                                                                   *)
LEMMA WakeupStep == TypeOK /\ NoLostWakeup /\ [Next]_vars => NoLostWakeup'
<1> SUFFICES ASSUME TypeOK, NoLostWakeup, [Next]_vars, (In("asleep") # {})'
             PROVE  (~shutdown /\ count <= Cardinality(In("woken")))'
  BY DEF NoLostWakeup
<1> DEFINE Woken == In("woken")
<1>0. IsFiniteSet(Woken) /\ Cardinality(Woken) \in Nat
  BY WokenFinite
<1>1. ASSUME NEW i \in Item, tpq_push(i)
      PROVE  (~shutdown /\ count <= Cardinality(In("woken")))'
  <2>1. CASE In("asleep") = {} /\ UNCHANGED pc
    BY <2>1 DEF In
  <2>2. ASSUME NEW w \in In("asleep"), pc' = [pc EXCEPT ![w] = "woken"]
        PROVE  (~shutdown /\ count <= Cardinality(In("woken")))'
    <3>1. Woken' = Woken \cup {w} /\ w \notin Woken
      BY <2>2 DEF In, TypeOK
    <3>2. Cardinality(Woken') = Cardinality(Woken) + 1
      BY <1>0, <3>1, FS_AddElement
    <3>3. ~shutdown /\ count <= Cardinality(Woken)
      BY <2>2 DEF NoLostWakeup
    <3>4. count' = count + 1 /\ shutdown' = shutdown /\ count \in Nat
      BY <1>1 DEF tpq_push, TypeOK
    <3>5. QED  BY <1>0, <3>2, <3>3, <3>4
  <2>3. QED  BY <1>1, <2>1, <2>2 DEF tpq_push, PushSignal, WakeOne
<1>2. ASSUME NEW w \in Worker, PopItem(w)
      PROVE  (~shutdown /\ count <= Cardinality(In("woken")))'
  <2>1. In("asleep") # {}
    BY <1>2 DEF PopItem, In, TypeOK
  <2>2. ~shutdown /\ count <= Cardinality(Woken)
    BY <2>1 DEF NoLostWakeup
  <2>3. Woken' = Woken \ {w}
    BY <1>2 DEF PopItem, AtLoopTest, In, TypeOK
  <2>4. Cardinality(Woken \ {w}) \in Nat /\ Cardinality(Woken \ {w}) >= Cardinality(Woken) - 1
    BY <1>0, OneFewer
  <2>5. Cardinality(Woken') \in Nat /\ Cardinality(Woken') >= Cardinality(Woken) - 1
    BY <2>3, <2>4
  <2>6. count' = count - 1 /\ shutdown' = shutdown /\ count \in Nat
    BY <1>2 DEF PopItem, TypeOK
  <2>7. QED  BY <1>0, <2>2, <2>5, <2>6
<1>3. ASSUME NEW w \in Worker, PopWait(w)
      PROVE  (~shutdown /\ count <= Cardinality(In("woken")))'
  <2>1. Woken' = Woken \ {w}
    BY <1>3 DEF PopWait, AtLoopTest, In, TypeOK
  <2>2. Cardinality(Woken') \in Nat
    BY <1>0, <2>1, OneFewer
  <2>3. count' = 0 /\ ~shutdown'
    BY <1>3 DEF PopWait, queueVars
  <2>4. QED  BY <2>2, <2>3
<1>4. ASSUME NEW w \in Worker, PopFails(w)
      PROVE  FALSE
  BY <1>4 DEF PopFails, AtLoopTest, In, TypeOK, NoLostWakeup
<1>5. ASSUME NEW w \in Worker, SpuriousWakeup(w)
      PROVE  (~shutdown /\ count <= Cardinality(In("woken")))'
  <2>1. In("asleep") # {} /\ Woken' = Woken \cup {w} /\ w \notin Woken
    BY <1>5 DEF SpuriousWakeup, In, TypeOK
  <2>2. Cardinality(Woken') = Cardinality(Woken) + 1
    BY <1>0, <2>1, FS_AddElement
  <2>3. ~shutdown /\ count <= Cardinality(Woken)
    BY <2>1 DEF NoLostWakeup
  <2>4. count' = count /\ shutdown' = shutdown /\ count \in Nat
    BY <1>5 DEF SpuriousWakeup, TypeOK, queueVars
  <2>5. QED  BY <1>0, <2>2, <2>3, <2>4
<1>6. ASSUME NEW w \in Worker, SessionEnds(w) \/ CheckAfterPop(w) \/ LoopTest(w)
      PROVE  (~shutdown /\ count <= Cardinality(In("woken")))'
  <2>1. In("asleep") # {} /\ Woken' = Woken
    BY <1>6 DEF SessionEnds, CheckAfterPop, LoopTest, In, TypeOK
  <2>2. UNCHANGED <<count, shutdown>>
    BY <1>6 DEF SessionEnds, CheckAfterPop, LoopTest, queueVars
  <2>3. QED  BY <2>1, <2>2 DEF NoLostWakeup
<1>7. CASE tpq_shutdown
  BY <1>7 DEF tpq_shutdown, ShutdownSignal, In, TypeOK
<1>8. CASE Stop \/ UNCHANGED vars
  BY <1>8 DEF NoLostWakeup, In, Stop, vars, queueVars
<1>9. QED
  BY <1>1, <1>2, <1>3, <1>4, <1>5, <1>6, <1>7, <1>8 DEF Next, worker_thread, tpq_pop

(* No connection waits in the queue while every worker that could take it  *)
(* sleeps: the wakeups tpq_push has sent always cover the queue, and       *)
(* nobody sleeps once tpq_shutdown has run.                                *)
THEOREM WakeupsSuffice == Spec => []NoLostWakeup
<1>1. Init => NoLostWakeup
  BY DEF Init, NoLostWakeup, In
<1>2. QED  BY <1>1, TypeCorrect, WakeupStep, PTL DEF Spec
-----------------------------------------------------------------------------
(***************************************************************************)
(* Refinement: the window of the ring, read from head, is the abstract     *)
(* queue.                                                                  *)
(***************************************************************************)
LEMMA ContentsSeq ==
  IInv => Contents \in Seq(Item) /\ Len(Contents) = count
<1> SUFFICES ASSUME IInv PROVE Contents \in Seq(Item) /\ Len(Contents) = count
  OBVIOUS
<1>1. count \in Nat /\ \A n \in 1..count : Contents[n] \in Item
  BY PoolAssumption DEF IInv, TypeOK, RingInv, Contents
<1>2. Contents \in [1..count -> Item]
  BY <1>1 DEF Contents
<1>3. QED  BY <1>1, <1>2

(* The contents after a step, as a sequence.                               *)
LEMMA ContentsSeqNext ==
  ASSUME IInv'
  PROVE  Contents' \in Seq(Item) /\ Len(Contents') = count'
<1>1. count' \in Nat /\ \A n \in 1..count' : Contents'[n] \in Item
  BY PoolAssumption DEF IInv, TypeOK, RingInv, Contents
<1>2. Contents' \in [1..count' -> Item]
  BY <1>1 DEF Contents
<1>3. QED  BY <1>1, <1>2

(* tpq_push puts its item behind the contents.                             *)
LEMMA PushAppends ==
  ASSUME IInv, IInv', NEW i \in Item, tpq_push(i)
  PROVE  Contents' = Append(Contents, i)
<1>1. /\ count \in Nat /\ count' = count + 1 /\ head' = head
      /\ head \in Int /\ Capacity \in Nat \ {0}
  BY PoolAssumption DEF IInv, TypeOK, tpq_push, Slot
<1>2. /\ Append(Contents, i) \in Seq(Item) /\ Len(Append(Contents, i)) = count + 1
      /\ \A n \in 1..count : Append(Contents, i)[n] = Contents[n]
      /\ Append(Contents, i)[count + 1] = i
  BY ContentsSeq, AppendProperties
<1>3. Contents' \in Seq(Item) /\ Len(Contents') = count + 1
  BY ContentsSeqNext, <1>1
<1>4. ASSUME NEW n \in 1..(count + 1)
      PROVE  Contents'[n] = Append(Contents, i)[n]
  <2>1. Contents'[n] = items'[(head + n - 1) % Capacity]
    BY <1>1 DEF Contents
  <2>2. CASE n = count + 1
    <3>1. head + n - 1 = head + count
      BY <1>1, <2>2
    <3>2. QED  BY <1>2, <2>1, <2>2, <3>1, PushStep
  <2>3. CASE n # count + 1
    <3>1. n \in 1..count
      BY <1>1, <2>3
    <3>2. QED  BY <1>2, <2>1, <3>1, PushStep DEF Contents
  <2>4. QED  BY <2>2, <2>3
<1>5. QED  BY <1>2, <1>3, <1>4, SeqEqual

(* tpq_pop takes the first of the contents.                                *)
LEMMA PopTakesHead ==
  ASSUME IInv, IInv', NEW w \in Worker, PopItem(w)
  PROVE  /\ Contents # <<>>
         /\ Head(Contents) = items[head]
         /\ Contents' = Tail(Contents)
<1>1. /\ count \in Nat \ {0} /\ count' = count - 1 /\ items' = items
  BY DEF IInv, TypeOK, PopItem
<1>2. Contents # <<>> /\ Head(Contents) = Contents[1]
  BY ContentsSeq, <1>1
<1>3. Contents[1] = items[head]
  BY PopStep, <1>1 DEF Contents
<1>4. /\ Tail(Contents) \in Seq(Item) /\ Len(Tail(Contents)) = count - 1
      /\ \A n \in 1..(count - 1) : Tail(Contents)[n] = Contents[n + 1]
  BY ContentsSeq, <1>2, HeadTailProperties
<1>5. Contents' \in Seq(Item) /\ Len(Contents') = count - 1
  BY ContentsSeqNext, <1>1
<1>6. ASSUME NEW n \in 1..(count - 1)
      PROVE  Contents'[n] = Tail(Contents)[n]
  <2>1. n + 1 \in 1..count /\ n \in 1..count'
    BY <1>1
  <2>2. Contents'[n] = Contents[n + 1]
    BY <1>1, <2>1, PopStep DEF Contents
  <2>3. QED  BY <1>4, <2>2
<1>7. QED  BY <1>2, <1>3, <1>4, <1>5, <1>6, SeqEqual

(* The empty ring is the empty abstract queue.                             *)
LEMMA InitRefines == Init => WQ!Init
<1> SUFFICES ASSUME Init PROVE WQ!Init
  OBVIOUS
<1>1. Contents = <<>>
  BY DEF Init, Contents
<1>2. In("refused") = {} /\ In("quit") = {}
  BY DEF Init, In
<1>3. QED  BY <1>1, <1>2 DEF Init, WQ!Init

(* Every step is one of the abstract queue, or none.                       *)
LEMMA StepRefines == IInv /\ IInv' /\ [Next]_vars => [WQ!Next]_(WQ!vars)
<1> SUFFICES ASSUME IInv, IInv', [Next]_vars PROVE WQ!Next \/ UNCHANGED WQ!vars
  OBVIOUS
<1> DEFINE Refused == In("refused")
           Quitted == In("quit")
<1>0. UNCHANGED <<items, head, count>> => Contents' = Contents
  BY DEF Contents
<1>1. ASSUME NEW i \in Item, Fresh(i), tpq_push(i) PROVE WQ!Put(i)
  <2>1. Contents' = Append(Contents, i)
    BY <1>1, PushAppends
  <2>2. Len(Contents) = count /\ ~WQ!Queued(i) /\ \A w \in Worker : held[w] # i
    BY <1>1, ContentsSeq DEF Fresh, WQ!Queued
  <2>3. Refused' = Refused /\ Quitted' = Quitted
    BY <1>1 DEF tpq_push, PushSignal, WakeOne, In, IInv, TypeOK
  <2>4. ~shutdown /\ count < Capacity /\ UNCHANGED <<shutdown, running, held>>
    BY <1>1 DEF tpq_push
  <2>5. QED  BY <2>1, <2>2, <2>3, <2>4 DEF WQ!Put
<1>2. ASSUME NEW w \in Worker, PopItem(w) PROVE WQ!Take(w)
  <2>1. Contents # <<>> /\ Head(Contents) = items[head] /\ Contents' = Tail(Contents)
    BY <1>2, PopTakesHead
  <2>2. /\ Refused' = Refused /\ Quitted' = Quitted
        /\ w \notin Refused \cup Quitted /\ held[w] = NoItem
    BY <1>2 DEF PopItem, AtLoopTest, In, IInv, TypeOK, HeldInv, Holding
  <2>3. held' = [held EXCEPT ![w] = items[head]] /\ UNCHANGED <<shutdown, running>>
    BY <1>2 DEF PopItem
  <2>4. QED  BY <2>1, <2>2, <2>3 DEF WQ!Take
<1>3. ASSUME NEW w \in Worker,
             \/ PopWait(w) \/ SpuriousWakeup(w)
             \/ (LoopTest(w) /\ running) \/ (CheckAfterPop(w) /\ running)
      PROVE  UNCHANGED WQ!vars
  <2>1. Refused' = Refused /\ Quitted' = Quitted
    BY <1>3 DEF PopWait, SpuriousWakeup, LoopTest, CheckAfterPop, AtLoopTest, In, IInv, TypeOK
  <2>2. UNCHANGED <<queueVars, running, held>>
    BY <1>3 DEF PopWait, SpuriousWakeup, LoopTest, CheckAfterPop
  <2>3. QED  BY <1>0, <2>1, <2>2 DEF WQ!vars, queueVars
<1>4. ASSUME NEW w \in Worker, PopFails(w) PROVE WQ!Refuse(w)
  <2>1. Refused' = Refused \cup {w} /\ Quitted' = Quitted /\ held[w] = NoItem
    BY <1>4 DEF PopFails, AtLoopTest, In, IInv, TypeOK, HeldInv, Holding
  <2>2. Contents = <<>> /\ Contents' = Contents
    BY <1>4 DEF PopFails, Contents, queueVars
  <2>3. shutdown /\ UNCHANGED <<shutdown, running, held>>
    BY <1>4 DEF PopFails, queueVars
  <2>4. QED  BY <2>1, <2>2, <2>3 DEF WQ!Refuse
<1>5. ASSUME NEW w \in Worker, SessionEnds(w) PROVE WQ!Finish(w)
  <2>1. Refused' = Refused /\ Quitted' = Quitted /\ held[w] # NoItem
    BY <1>5 DEF SessionEnds, In, IInv, TypeOK, HeldInv, Holding
  <2>2. Contents' = Contents /\ UNCHANGED <<shutdown, running>>
        /\ held' = [held EXCEPT ![w] = NoItem]
    BY <1>0, <1>5 DEF SessionEnds, queueVars
  <2>3. QED  BY <2>1, <2>2 DEF WQ!Finish
<1>6. ASSUME NEW w \in Worker, LoopTest(w) \/ CheckAfterPop(w), ~running PROVE WQ!Quit(w)
  <2>1. Refused' = Refused /\ Quitted' = Quitted \cup {w}
    BY <1>6 DEF LoopTest, CheckAfterPop, In, IInv, TypeOK
  <2>2. held' = [held EXCEPT ![w] = NoItem]
    BY <1>6 DEF LoopTest, CheckAfterPop, IInv, TypeOK, HeldInv, Holding
  <2>3. Contents' = Contents /\ UNCHANGED <<shutdown, running>>
    BY <1>0, <1>6 DEF LoopTest, CheckAfterPop, queueVars
  <2>4. QED  BY <1>6, <2>1, <2>2, <2>3 DEF WQ!Quit
<1>7. CASE tpq_shutdown
  <2>1. Refused' = Refused /\ Quitted' = Quitted
    BY <1>7 DEF tpq_shutdown, ShutdownSignal, In, IInv, TypeOK
  <2>2. Contents' = Contents /\ ~running /\ shutdown' /\ UNCHANGED <<running, held>>
    BY <1>0, <1>7 DEF tpq_shutdown
  <2>3. WQ!Close
    BY <2>1, <2>2 DEF WQ!Close
  <2>4. QED  BY <2>3 DEF WQ!Next
<1>8. CASE Stop
  <2>1. Refused' = Refused /\ Quitted' = Quitted /\ Contents' = Contents
    BY <1>0, <1>8 DEF Stop, In, queueVars
  <2>2. WQ!Stop
    BY <1>8, <2>1 DEF Stop, queueVars, WQ!Stop
  <2>3. QED  BY <2>2 DEF WQ!Next
<1>9. CASE UNCHANGED vars
  BY <1>0, <1>9 DEF vars, queueVars, In, WQ!vars
<1>10. QED
  <2>1. ASSUME NEW w \in Worker, worker_thread(w) \/ SpuriousWakeup(w)
        PROVE  WQ!Next \/ UNCHANGED WQ!vars
    <3>1. CASE PopItem(w)
      BY <1>2, <3>1 DEF WQ!Next
    <3>2. CASE PopWait(w) \/ SpuriousWakeup(w)
      BY <1>3, <3>2
    <3>3. CASE PopFails(w)
      BY <1>4, <3>3 DEF WQ!Next
    <3>4. CASE SessionEnds(w)
      BY <1>5, <3>4 DEF WQ!Next
    <3>5. CASE LoopTest(w) \/ CheckAfterPop(w)
      <4>1. CASE running
        BY <1>3, <3>5, <4>1
      <4>2. CASE ~running
        <5>1. WQ!Quit(w)
          BY <1>6, <3>5, <4>2
        <5>2. QED  BY <5>1 DEF WQ!Next
      <4>3. QED  BY <4>1, <4>2 DEF IInv, TypeOK
    <3>6. QED  BY <2>1, <3>1, <3>2, <3>3, <3>4, <3>5 DEF worker_thread, tpq_pop
  <2>2. ASSUME NEW i \in Item, Fresh(i), tpq_push(i)  PROVE WQ!Next
    BY <1>1, <2>2 DEF WQ!Next
  <2>3. QED  BY <1>7, <1>8, <1>9, <2>1, <2>2 DEF Next

(* threadpool.c implements the bounded FIFO of WorkQueue: connections      *)
(* leave in the order they came, each to one worker, none is lost across   *)
(* the wrap-around of the indices, none is accepted after the shutdown,    *)
(* and tpq_pop turns no worker away while one is still queued.             *)
THEOREM RefinesWorkQueue == Spec => ImplementsWorkQueue
<1>1. Spec => []IInv
  BY InvariantInit, InvariantNext, PTL DEF Spec
<1>2. QED  BY <1>1, InitRefines, StepRefines, PTL DEF Spec, WQ!Spec, ImplementsWorkQueue
=============================================================================
