----------------------------- MODULE ThreadPool -----------------------------
(***************************************************************************)
(* The connection queue of src/common/threadpool.c: a ring buffer guarded  *)
(* by one mutex, with one condition variable (not_empty) on which idle     *)
(* workers sleep.                                                          *)
(*                                                                         *)
(* Every body of code between pthread_mutex_lock and the next              *)
(* pthread_mutex_unlock or pthread_cond_wait is one step: nothing else can *)
(* read or write the queue meanwhile.  What the steps interleave on is     *)
(* what the mutex leaves open: between the signal that wakes a worker and  *)
(* that worker's next look at the queue any other thread may run, and a    *)
(* worker may wake up without any signal.  The workers' loop around        *)
(* tpq_pop (src/server/worker.c) reads the running flag before and after   *)
(* it: a worker may leave with connections still in the queue.             *)
(***************************************************************************)
EXTENDS Integers, Sequences, FiniteSets

CONSTANTS
  Item,       \* accepted connections, told apart by their descriptors
  NoItem,     \* the zeroed tpq_item_t of an unused slot
  Worker,     \* worker threads
  Capacity    \* q->capacity, QUEUE_CAPACITY of the configuration

(* tpq_init refuses capacity <= 0; worker_thread passes its own item.      *)
ASSUME PoolAssumption ==
  /\ Capacity \in Nat \ {0}
  /\ NoItem \notin Item
  /\ IsFiniteSet(Worker)

VARIABLES
  items,      \* q->items[0 .. capacity-1]
  head,       \* q->head
  tail,       \* q->tail
  count,      \* q->count
  shutdown,   \* q->shutdown
  running,    \* g_running, the flag worker_thread follows
  pc,         \* where each worker stands in the loop around tpq_pop
  held        \* the item a worker's last tpq_pop returned

queueVars == <<items, head, tail, count, shutdown>>
vars == <<queueVars, running, pc, held>>

Slot == 0 .. Capacity - 1

(* "idle":    at the loop's test of the flag                               *)
(* "pop":     about to call tpq_pop                                        *)
(* "asleep":  in pthread_cond_wait, nobody has woken it                    *)
(* "woken":   returning from pthread_cond_wait, not holding the lock yet   *)
(* "check":   tpq_pop returned 0, the flag is about to be read again       *)
(* "serving": the worker runs the session of held                          *)
(* "refused": tpq_pop returned -1 and the worker left                      *)
(* "quit":    the worker left because the flag was down                    *)
PC == {"idle", "pop", "asleep", "woken", "check", "serving", "refused", "quit"}

In(state) == {w \in Worker : pc[w] = state}
Left      == In("refused") \cup In("quit")

Init ==
  /\ items = [s \in Slot |-> NoItem]
  /\ head = 0 /\ tail = 0 /\ count = 0
  /\ shutdown = FALSE /\ running = TRUE
  /\ pc = [w \in Worker |-> "idle"]
  /\ held = [w \in Worker |-> NoItem]

(* Inside tpq_pop, holding the lock, at the loop test.                     *)
AtLoopTest(w) == pc[w] \in {"pop", "woken"}

(* The connections in the queue, oldest first.                             *)
Contents == [n \in 1..count |-> items[(head + n - 1) % Capacity]]

(* A descriptor is not handed out by accept() again before the connection  *)
(* that has it is closed.                                                  *)
Fresh(i) ==
  /\ \A n \in 1..count : Contents[n] # i
  /\ \A w \in Worker : held[w] # i

(* pthread_cond_signal: one sleeper, whichever, wakes; none if none sleeps *)
WakeOne ==
  \/ /\ In("asleep") = {}
     /\ UNCHANGED pc
  \/ \E w \in In("asleep") : pc' = [pc EXCEPT ![w] = "woken"]

(* Faulty variants, which the properties below must rule out: a push that  *)
(* never signals, or only when the queue was empty; a shutdown that wakes  *)
(* one sleeper, a push that does not look at the capacity, a pop that      *)
(* advances head before reading the slot.                                  *)
NoSignal == UNCHANGED pc
SignalWhenEmpty == IF count = 0 THEN WakeOne ELSE UNCHANGED pc
BroadcastOne == WakeOne
PushUnchecked(i) ==
  /\ ~shutdown
  /\ items' = [items EXCEPT ![tail] = i]
  /\ tail' = (tail + 1) % Capacity
  /\ count' = count + 1
  /\ WakeOne
  /\ UNCHANGED <<head, shutdown, running, held>>
PopPastHead(w) ==
  /\ AtLoopTest(w) /\ count > 0
  /\ held' = [held EXCEPT ![w] = items[(head + 1) % Capacity]]
  /\ head' = (head + 1) % Capacity
  /\ count' = count - 1
  /\ pc' = [pc EXCEPT ![w] = "check"]
  /\ UNCHANGED <<items, tail, shutdown, running>>

(* The wakeup of tpq_push, and the pthread_cond_broadcast of tpq_shutdown.  *)
PushSignal == WakeOne
ShutdownSignal == pc' = [w \in Worker |-> IF pc[w] = "asleep" THEN "woken" ELSE pc[w]]

(* tpq_push when it succeeds; when the queue is shut down or full it       *)
(* returns -1 and changes nothing.                                         *)
tpq_push(i) ==
  /\ ~shutdown /\ count < Capacity
  /\ items' = [items EXCEPT ![tail] = i]
  /\ tail' = (tail + 1) % Capacity
  /\ count' = count + 1
  /\ PushSignal
  /\ UNCHANGED <<head, shutdown, running, held>>

PopItem(w) ==
  /\ AtLoopTest(w) /\ count > 0
  /\ held' = [held EXCEPT ![w] = items[head]]
  /\ head' = (head + 1) % Capacity
  /\ count' = count - 1
  /\ pc' = [pc EXCEPT ![w] = "check"]
  /\ UNCHANGED <<items, tail, shutdown, running>>

PopWait(w) ==
  /\ AtLoopTest(w) /\ ~shutdown /\ count = 0
  /\ pc' = [pc EXCEPT ![w] = "asleep"]
  /\ UNCHANGED <<queueVars, running, held>>

PopFails(w) ==
  /\ AtLoopTest(w) /\ shutdown /\ count = 0
  /\ pc' = [pc EXCEPT ![w] = "refused"]
  /\ UNCHANGED <<queueVars, running, held>>

(* POSIX lets pthread_cond_wait return without a signal.                   *)
SpuriousWakeup(w) ==
  /\ pc[w] = "asleep"
  /\ pc' = [pc EXCEPT ![w] = "woken"]
  /\ UNCHANGED <<queueVars, running, held>>

tpq_shutdown ==
  /\ ~running /\ ~shutdown
  /\ shutdown' = TRUE
  /\ ShutdownSignal
  /\ UNCHANGED <<items, head, tail, count, running, held>>

tpq_pop(w) == PopItem(w) \/ PopWait(w) \/ PopFails(w)
-----------------------------------------------------------------------------
(* worker_thread: the loop runs while the flag is up.                      *)
LoopTest(w) ==
  /\ pc[w] = "idle"
  /\ pc' = [pc EXCEPT ![w] = IF running THEN "pop" ELSE "quit"]
  /\ UNCHANGED <<queueVars, running, held>>

(* The flag is read again: the connection is served, or closed unserved    *)
(* and the loop left.                                                      *)
CheckAfterPop(w) ==
  /\ pc[w] = "check"
  /\ IF running
     THEN pc' = [pc EXCEPT ![w] = "serving"] /\ UNCHANGED held
     ELSE pc' = [pc EXCEPT ![w] = "quit"] /\ held' = [held EXCEPT ![w] = NoItem]
  /\ UNCHANGED <<queueVars, running>>

(* The worker has finished and closed its connection.                      *)
SessionEnds(w) ==
  /\ pc[w] = "serving"
  /\ pc' = [pc EXCEPT ![w] = "idle"]
  /\ held' = [held EXCEPT ![w] = NoItem]
  /\ UNCHANGED <<queueVars, running>>

worker_thread(w) == LoopTest(w) \/ tpq_pop(w) \/ CheckAfterPop(w) \/ SessionEnds(w)

(* SIGINT or SIGTERM, or the first step of server_request_shutdown, which  *)
(* calls tpq_shutdown later.                                               *)
Stop ==
  /\ running /\ running' = FALSE
  /\ UNCHANGED <<queueVars, pc, held>>

Next ==
  \/ \E i \in Item : Fresh(i) /\ tpq_push(i)
  \/ \E w \in Worker : worker_thread(w) \/ SpuriousWakeup(w)
  \/ Stop \/ tpq_shutdown

Spec == Init /\ [][Next]_vars

(* The operating system runs every worker that can run, the mutex is not   *)
(* withheld from a worker forever, and sessions end.  Nothing makes the    *)
(* acceptor push, the server shut down, or a sleeper wake by itself.       *)
Fairness == \A w \in Worker : WF_vars(worker_thread(w))

FairSpec == Spec /\ Fairness
-----------------------------------------------------------------------------
TypeOK ==
  /\ items \in [Slot -> Item \cup {NoItem}]
  /\ head \in Slot /\ tail \in Slot
  /\ count \in 0..Capacity
  /\ shutdown \in BOOLEAN /\ running \in BOOLEAN
  /\ pc \in [Worker -> PC]
  /\ held \in [Worker -> Item \cup {NoItem}]

(* No wakeup of tpq_push is lost: whenever a worker sleeps, every          *)
(* connection in the queue has a worker of its own that was woken and has  *)
(* not looked yet, even when idle workers overtake the woken ones or one   *)
(* wakes without a signal; and after tpq_shutdown no worker sleeps.        *)
NoLostWakeup ==
  In("asleep") # {} => ~shutdown /\ count <= Cardinality(In("woken"))

(* tpq_push, tpq_pop and tpq_shutdown implement the abstract FIFO: order   *)
(* is kept across the wrap-around of head and tail, nothing is dropped,    *)
(* handed out twice or accepted after shutdown, and tpq_pop refuses a      *)
(* worker only once nothing is left.                                       *)
WQ == INSTANCE WorkQueue WITH
        queue <- Contents, open <- ~shutdown, refused <- In("refused"), quit <- In("quit")

ImplementsWorkQueue == WQ!Spec

(* A connection that tpq_push accepted is eventually served by a worker,   *)
(* unless the server is told to stop: then workers leave it in the queue,  *)
(* or close it unserved.                                                   *)
EveryConnectionServed ==
  \A i \in Item :
    WQ!Queued(i) ~> (\E w \in Worker : pc[w] = "serving" /\ held[w] = i) \/ ~running

(* After tpq_shutdown every worker eventually leaves, asleep in tpq_pop or *)
(* on its way there, so that cleanup_server can join it.                   *)
ShutdownReleasesWorkers == shutdown ~> Left = Worker
=============================================================================
