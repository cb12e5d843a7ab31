------------------------------ MODULE WorkQueue ------------------------------
(***************************************************************************)
(* What the server's connection queue promises to the acceptor and to the  *)
(* workers (include/threadpool.h): a bounded FIFO of accepted connections, *)
(* each handed to exactly one worker, refusing new ones once it is full or *)
(* closed, and still handing out what it holds after it was closed, as     *)
(* long as a worker asks: a worker leaves by itself once the server was    *)
(* told to stop.                                                           *)
(*                                                                         *)
(* ThreadPool implements this specification with a ring buffer, a mutex    *)
(* and a condition variable.                                               *)
(***************************************************************************)
EXTENDS Naturals, Sequences

CONSTANTS
  Item,       \* accepted connections (tpq_item_t, identified by their fd)
  NoItem,     \* "no connection"
  Worker,     \* worker threads
  Capacity    \* QUEUE_CAPACITY of the server configuration

VARIABLES
  queue,      \* accepted connections no worker has yet, oldest first
  open,       \* the queue still accepts connections
  running,    \* the server was not told to stop
  held,       \* the connection each worker has taken, or NoItem
  refused,    \* workers that were told the queue is closed and drained
  quit        \* workers that left because the server stops

vars == <<queue, open, running, held, refused, quit>>

Queued(i) == \E n \in 1..Len(queue) : queue[n] = i

Init ==
  /\ queue = <<>>
  /\ open = TRUE /\ running = TRUE
  /\ held = [w \in Worker |-> NoItem]
  /\ refused = {} /\ quit = {}

Put(i) ==
  /\ open /\ Len(queue) < Capacity
  /\ ~Queued(i) /\ \A w \in Worker : held[w] # i
  /\ queue' = Append(queue, i)
  /\ UNCHANGED <<open, running, held, refused, quit>>

Take(w) ==
  /\ w \notin refused \cup quit /\ held[w] = NoItem /\ queue # <<>>
  /\ held' = [held EXCEPT ![w] = Head(queue)]
  /\ queue' = Tail(queue)
  /\ UNCHANGED <<open, running, refused, quit>>

Finish(w) ==
  /\ held[w] # NoItem
  /\ held' = [held EXCEPT ![w] = NoItem]
  /\ UNCHANGED <<queue, open, running, refused, quit>>

Stop ==
  /\ running' = FALSE
  /\ UNCHANGED <<queue, open, held, refused, quit>>

Close ==
  /\ ~running /\ open' = FALSE
  /\ UNCHANGED <<queue, running, held, refused, quit>>

Refuse(w) ==
  /\ ~open /\ queue = <<>> /\ held[w] = NoItem
  /\ refused' = refused \cup {w}
  /\ UNCHANGED <<queue, open, running, held, quit>>

(* A connection the worker had taken is closed unserved.                   *)
Quit(w) ==
  /\ ~running
  /\ held' = [held EXCEPT ![w] = NoItem]
  /\ quit' = quit \cup {w}
  /\ UNCHANGED <<queue, open, running, refused>>

Next ==
  \/ \E i \in Item : Put(i)
  \/ \E w \in Worker : Take(w) \/ Finish(w) \/ Refuse(w) \/ Quit(w)
  \/ Stop \/ Close

Spec == Init /\ [][Next]_vars
=============================================================================
