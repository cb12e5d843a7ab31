---------------------------- MODULE UpdateServer ----------------------------
(***************************************************************************)
(* The threads of the server process: main, the shutdown watcher, the      *)
(* acceptor and the workers, with what they share: the running flag, the   *)
(* connection queue, the registry of active client ids, the table of       *)
(* worker descriptors and the busy counter.  From the creation of the      *)
(* workers to the moment cleanup_server frees the queue.                   *)
(*                                                                         *)
(* The queue is used through WorkQueue, which ThreadPool implements; what  *)
(* happens inside a session is UpdateProtocol's subject, here a session    *)
(* only reserves its id, lasts, and ends.                                  *)
(***************************************************************************)
EXTENDS Integers, Sequences, FiniteSets

CONSTANTS
  Conn,        \* connections, each opened by a client once
  NoConn,
  Silent,      \* connections whose peer says nothing more once it is served
  Id, NoId,    \* client ids, and the empty slot of g_active_client_ids
  IdOf,        \* the id each connection authenticates as
  Workers,     \* MAX_WORKERS
  Capacity,    \* QUEUE_CAPACITY
  Slots        \* ACTIVE_CLIENT_MAX

ASSUME ServerAssumption ==
  /\ NoConn \notin Conn /\ Silent \subseteq Conn
  /\ NoId \notin Id /\ IdOf \in [Conn -> Id]
  /\ Workers \in Nat \ {0} /\ Capacity \in Nat \ {0} /\ Slots \in Nat \ {0}

Worker == 1..Workers

VARIABLES
  running,     \* g_running
  listening,   \* g_listen_fd is open
  queue, qopen,\* the connection queue, and that it is not shut down
  freed,       \* tpq_destroy was called
  creating,    \* where main stands in the creation of its threads
  astarted,    \* g_acceptor_started, as cleanup_server finds it
  fate,        \* who is responsible for each connection
  cut,         \* connections shutdown_active_worker_fds shut down
  apc, aheld,  \* the acceptor, and the connection it has just accepted
  wpc, held,   \* the workers, and the connection each one serves
  tracked,     \* g_worker_fds
  registry,    \* g_active_client_ids
  busy,        \* stats.busy_workers
  spc, scan,   \* server_request_shutdown in each of its callers
  lock         \* holder of g_shutdown_lock

queueVars  == <<queue, qopen, freed>>
workerVars == <<wpc, held, tracked, registry, busy>>
acceptVars == <<apc, aheld>>
mainVars   == <<creating, astarted>>
stopVars   == <<spc, scan, lock>>
vars == <<running, listening, queueVars, fate, cut, acceptVars, workerVars, mainVars, stopVars>>

(* Who calls server_request_shutdown: shutdown_watcher_thread, and main    *)
(* once from its dashboard (only in a build that has one) and once from    *)
(* cleanup_server.                                                         *)
Caller == {"watcher", "dashboard", "cleanup"}
NoOne  == "nobody"

(* "taken" by the acceptor or a worker, "closed" by either, "busy" refused.*)
Fate == {"new", "taken", "queued", "closed", "busy"}

Init ==
  /\ running = TRUE /\ listening = TRUE
  /\ queue = <<>> /\ qopen = TRUE /\ freed = FALSE
  /\ fate = [c \in Conn |-> "new"] /\ cut = {}
  /\ creating = "threads" /\ astarted = FALSE
  /\ apc = "unborn" /\ aheld = NoConn
  /\ wpc = [w \in Worker |-> "unborn"] /\ held = [w \in Worker |-> NoConn]
  /\ tracked = [w \in Worker |-> NoConn]
  /\ registry = [s \in 1..Slots |-> NoId]
  /\ busy = 0
  /\ spc = [p \in Caller |-> "before"] /\ scan = 1 /\ lock = NoOne
-----------------------------------------------------------------------------
(* Threads are created and the server is told to stop                      *)

(* handle_signal for SIGINT and SIGTERM.  A pthread_create that fails      *)
(* takes the flag down in the same way.                                    *)
Signal ==
  /\ running /\ running' = FALSE
  /\ UNCHANGED <<listening, queueVars, fate, cut, acceptVars, workerVars, mainVars, stopVars>>

(* main before it calls server_dashboard_run or cleanup_server.            *)
Starting == creating = "threads" /\ spc["cleanup"] = "before"
Unborn == {w \in Worker : wpc[w] = "unborn"}

(* main creates the workers one after another while the flag is up.        *)
CreateWorker(w) ==
  /\ Starting /\ running
  /\ w \in Unborn /\ \A v \in Unborn : w <= v
  /\ wpc' = [wpc EXCEPT ![w] = "top"]
  /\ UNCHANGED <<running, listening, queueVars, fate, cut, acceptVars, held, tracked,
                 registry, busy, mainVars, stopVars>>

CreateAcceptor ==
  /\ Starting /\ running /\ Unborn = {}
  /\ apc' = "top" /\ creating' = "mark"
  /\ UNCHANGED <<running, listening, queueVars, fate, cut, aheld, workerVars, astarted, stopVars>>

(* The acceptor runs, and main reads the flag a second time before it      *)
(* notes that there is a thread to join.                                   *)
MarkAcceptor ==
  /\ creating = "mark"
  /\ creating' = "done" /\ astarted' = running
  /\ UNCHANGED <<running, listening, queueVars, fate, cut, acceptVars, workerVars, stopVars>>
-----------------------------------------------------------------------------
(* acceptor_thread                                                         *)

(* The flag is read, then select and accept run on the listening socket: a *)
(* connection can still be accepted after the flag went down.              *)
AcceptTop ==
  /\ apc = "top"
  /\ apc' = IF running THEN "select" ELSE "gone"
  /\ UNCHANGED <<running, listening, queueVars, fate, cut, aheld, workerVars, mainVars, stopVars>>

Accept(c) ==
  /\ apc = "select" /\ listening /\ fate[c] = "new"
  /\ apc' = "push" /\ aheld' = c
  /\ fate' = [fate EXCEPT ![c] = "taken"]
  /\ UNCHANGED <<running, listening, queueVars, cut, workerVars, mainVars, stopVars>>

(* select times out, or fails on the closed descriptor.                    *)
AcceptNothing ==
  /\ apc = "select"
  /\ apc' = IF listening THEN "top" ELSE "gone"
  /\ UNCHANGED <<running, listening, queueVars, fate, cut, aheld, workerVars, mainVars, stopVars>>

(* tpq_push, or BUSY and close when it refuses.                            *)
AcceptsWhileOpen == qopen
QueueAccepts     == qopen /\ Len(queue) < Capacity

AcceptPush ==
  /\ apc = "push"
  /\ IF QueueAccepts
     THEN queue' = Append(queue, aheld) /\ fate' = [fate EXCEPT ![aheld] = "queued"]
     ELSE fate' = [fate EXCEPT ![aheld] = "busy"] /\ UNCHANGED queue
  /\ apc' = "top" /\ aheld' = NoConn
  /\ UNCHANGED <<running, listening, qopen, freed, cut, workerVars, mainVars, stopVars>>
-----------------------------------------------------------------------------
(* worker_thread                                                           *)

Step(w, pc) == wpc' = [wpc EXCEPT ![w] = pc]
OthersIdle  == UNCHANGED <<running, listening, qopen, freed, cut, acceptVars, mainVars, stopVars>>

WorkerTop(w) ==
  /\ wpc[w] = "top"
  /\ Step(w, IF running THEN "pop" ELSE "gone")
  /\ OthersIdle /\ UNCHANGED <<queue, fate, held, tracked, registry, busy>>

(* tpq_pop: waits while the queue is empty and open.                       *)
WorkerPop(w) ==
  /\ wpc[w] = "pop"
  /\ \/ /\ queue # <<>>
        /\ held' = [held EXCEPT ![w] = Head(queue)] /\ queue' = Tail(queue)
        /\ fate' = [fate EXCEPT ![Head(queue)] = "taken"]
        /\ Step(w, "check")
     \/ /\ queue = <<>> /\ ~qopen
        /\ Step(w, "gone") /\ UNCHANGED <<held, queue, fate>>
  /\ OthersIdle /\ UNCHANGED <<tracked, registry, busy>>

CloseHeld(w) ==
  /\ fate' = [fate EXCEPT ![held[w]] = "closed"]
  /\ held' = [held EXCEPT ![w] = NoConn]

(* The flag is read again: the connection is closed unserved, or counted.  *)
WorkerCheck(w) ==
  /\ wpc[w] = "check"
  /\ IF running
     THEN busy' = busy + 1 /\ Step(w, "track") /\ UNCHANGED <<fate, held>>
     ELSE CloseHeld(w) /\ Step(w, "gone") /\ UNCHANGED busy
  /\ OthersIdle /\ UNCHANGED <<queue, tracked, registry>>

(* server_track_worker_fd.                                                 *)
WorkerTrack(w) ==
  /\ wpc[w] = "track"
  /\ tracked' = [tracked EXCEPT ![w] = held[w]]
  /\ Step(w, "handshake")
  /\ OthersIdle /\ UNCHANGED <<queue, fate, held, registry, busy>>

(* TLS, HELLO and AUTH: they succeed, or the connection is closed.         *)
HandshakeOrQuit(w) ==
  /\ wpc[w] = "handshake"
  /\ \/ held[w] \notin cut /\ Step(w, "reserve")
     \/ Step(w, "gone")
  /\ OthersIdle /\ UNCHANGED <<queue, fate, held, tracked, registry, busy>>

WorkerHandshake(w) ==
  /\ wpc[w] = "handshake"
  /\ \/ held[w] \notin cut /\ Step(w, "reserve")
     \/ Step(w, "close")
  /\ OthersIdle /\ UNCHANGED <<queue, fate, held, tracked, registry, busy>>

(* reserve_active_client_id looks at every slot for the id before it takes *)
(* the first free one: a slot freed below the id's own must not hide it.   *)
FreeSlot == {s \in 1..Slots : registry[s] = NoId}
ReservedBeforeGap(id) ==
  \E s \in 1..Slots : registry[s] = id /\ \A t \in FreeSlot : s < t
AlreadyActive(id) == \E s \in 1..Slots : registry[s] = id

WorkerReserve(w) ==
  /\ wpc[w] = "reserve"
  /\ LET id == IdOf[held[w]] IN
     IF AlreadyActive(id) \/ FreeSlot = {}
     THEN Step(w, "close") /\ UNCHANGED registry
     ELSE /\ \E s \in FreeSlot : /\ \A t \in FreeSlot : s <= t
                                 /\ registry' = [registry EXCEPT ![s] = id]
          /\ Step(w, "session")
  /\ OthersIdle /\ UNCHANGED <<queue, fate, held, tracked, busy>>

(* The rest of handle_client_session.  With a silent peer it lasts until   *)
(* its descriptor is shut down.                                            *)
WorkerSession(w) ==
  /\ wpc[w] = "session" /\ held[w] \notin Silent \ cut
  /\ Step(w, "release")
  /\ OthersIdle /\ UNCHANGED <<queue, fate, held, tracked, registry, busy>>

(* release_active_client_id.                                               *)
WorkerRelease(w) ==
  /\ wpc[w] = "release"
  /\ \E s \in 1..Slots :
       /\ registry[s] = IdOf[held[w]]
       /\ \A t \in 1..(s - 1) : registry[t] # IdOf[held[w]]
       /\ registry' = [registry EXCEPT ![s] = NoId]
  /\ Step(w, "close")
  /\ OthersIdle /\ UNCHANGED <<queue, fate, held, tracked, busy>>

(* conn_close, then the descriptor is untracked, then the worker counts as *)
(* idle again.                                                             *)
WorkerClose(w) ==
  /\ wpc[w] = "close"
  /\ CloseHeld(w) /\ Step(w, "untrack")
  /\ OthersIdle /\ UNCHANGED <<queue, tracked, registry, busy>>

UntrackUncounted(w) ==
  /\ wpc[w] = "untrack"
  /\ tracked' = [tracked EXCEPT ![w] = NoConn] /\ Step(w, "top")
  /\ OthersIdle /\ UNCHANGED <<queue, fate, held, registry, busy>>

WorkerUntrack(w) ==
  /\ wpc[w] = "untrack"
  /\ tracked' = [tracked EXCEPT ![w] = NoConn] /\ Step(w, "count")
  /\ OthersIdle /\ UNCHANGED <<queue, fate, held, registry, busy>>

WorkerCount(w) ==
  /\ wpc[w] = "count"
  /\ busy' = busy - 1 /\ Step(w, "top")
  /\ OthersIdle /\ UNCHANGED <<queue, fate, held, tracked, registry>>
-----------------------------------------------------------------------------
(* server_request_shutdown and cleanup_server                              *)

At(p, pc) == spc' = [spc EXCEPT ![p] = pc]

(* The watcher and cleanup_server follow the flag; the dashboard, which    *)
(* runs once every thread is created, with the flag up, also follows its   *)
(* window's close.                                                         *)
MayRequest(p) ==
  \/ p = "watcher" /\ ~running
  \/ p = "dashboard" /\ astarted /\ spc["cleanup"] = "before"
  \/ p = "cleanup" /\ ~running /\ creating # "mark" /\ spc["dashboard"] # "scan"

RequestShutdown(p) ==
  /\ spc[p] = "before" /\ MayRequest(p) /\ lock = NoOne
  /\ lock' = p /\ scan' = 1 /\ At(p, "scan")
  /\ running' = FALSE /\ listening' = FALSE
  /\ UNCHANGED <<queueVars, fate, cut, acceptVars, workerVars, mainVars>>

(* One slot of g_worker_fds.  A descriptor its worker has closed already   *)
(* is not a connection any more.                                           *)
ScanSlot(p) ==
  /\ spc[p] = "scan" /\ scan <= Workers
  /\ scan' = scan + 1
  /\ IF tracked[scan] = NoConn THEN UNCHANGED <<cut, tracked>>
     ELSE /\ tracked' = [tracked EXCEPT ![scan] = NoConn]
          /\ cut' = IF fate[tracked[scan]] = "taken" THEN cut \cup {tracked[scan]} ELSE cut
  /\ UNCHANGED <<running, listening, queueVars, fate, acceptVars, wpc, held, registry, busy,
                 mainVars, spc, lock>>

CloseNothing == UNCHANGED qopen
tpq_shutdown == qopen' = FALSE

CloseQueue(p) ==
  /\ spc[p] = "scan" /\ scan > Workers
  /\ tpq_shutdown /\ lock' = NoOne /\ At(p, "asked")
  /\ UNCHANGED <<running, listening, queue, freed, fate, cut, acceptVars, workerVars, mainVars,
                 scan>>

(* pthread_join of the watcher and of every worker that was started, and   *)
(* of the acceptor if main noted that it was; then the queue is destroyed. *)
(* What an acceptor that was not joined still accepts is refused: the      *)
(* queue is shut down, and of capacity 0 once it is destroyed.             *)
Ended(pc) == pc \in {"unborn", "gone"}
AllJoined ==
  /\ spc["watcher"] = "asked"
  /\ astarted => Ended(apc)
  /\ \A w \in Worker : Ended(wpc[w])

Cleanup ==
  /\ spc["cleanup"] = "asked" /\ AllJoined /\ ~freed
  /\ freed' = TRUE
  /\ UNCHANGED <<running, listening, queue, qopen, fate, cut, acceptVars, workerVars, mainVars,
                 stopVars>>

Main     == (\E w \in Worker : CreateWorker(w)) \/ CreateAcceptor \/ MarkAcceptor \/ Cleanup
Acceptor == AcceptTop \/ (\E c \in Conn : Accept(c)) \/ AcceptNothing \/ AcceptPush
Work(w)  == \/ WorkerTop(w) \/ WorkerPop(w) \/ WorkerCheck(w) \/ WorkerTrack(w)
            \/ WorkerHandshake(w) \/ WorkerReserve(w) \/ WorkerSession(w)
            \/ WorkerRelease(w) \/ WorkerClose(w) \/ WorkerUntrack(w) \/ WorkerCount(w)
Stop(p)  == RequestShutdown(p) \/ ScanSlot(p) \/ CloseQueue(p)

Next == Signal \/ Main \/ Acceptor \/ (\E w \in Worker : Work(w)) \/ (\E p \in Caller : Stop(p))

Spec == Init /\ [][Next]_vars

(* Every thread that can run does.  Nobody has to send a signal, close the *)
(* window or connect; whoever calls server_request_shutdown does so once   *)
(* the flag is down.                                                       *)
Fairness ==
  /\ WF_vars(Main) /\ WF_vars(Acceptor)
  /\ \A w \in Worker : WF_vars(Work(w))
  /\ \A p \in Caller : WF_vars(~running /\ Stop(p))

FairSpec == Spec /\ Fairness
-----------------------------------------------------------------------------
AcceptorPC == {"unborn", "top", "select", "push", "gone"}
WorkerPC   == {"unborn", "top", "pop", "check", "track", "handshake", "reserve", "session",
               "release", "close", "untrack", "count", "gone"}

TypeOK ==
  /\ running \in BOOLEAN /\ listening \in BOOLEAN
  /\ queue \in Seq(Conn) /\ Len(queue) <= Capacity /\ qopen \in BOOLEAN /\ freed \in BOOLEAN
  /\ creating \in {"threads", "mark", "done"} /\ astarted \in BOOLEAN
  /\ fate \in [Conn -> Fate] /\ cut \subseteq Conn
  /\ apc \in AcceptorPC /\ aheld \in Conn \cup {NoConn}
  /\ wpc \in [Worker -> WorkerPC] /\ held \in [Worker -> Conn \cup {NoConn}]
  /\ tracked \in [Worker -> Conn \cup {NoConn}]
  /\ registry \in [1..Slots -> Id \cup {NoId}]
  /\ busy \in 0..Workers
  /\ spc \in [Caller -> {"before", "scan", "asked"}] /\ scan \in 1..(Workers + 1)
  /\ lock \in Caller \cup {NoOne}

(* An id never has two sessions, and a slot of g_active_client_ids is      *)
(* taken exactly while a worker serves that id, whichever slots were freed *)
(* in between and however many workers reserve and release at once.        *)
Serving(id) == {w \in Worker : wpc[w] \in {"session", "release"} /\ IdOf[held[w]] = id}
RegistryIsSessions ==
  \A id \in Id :
    /\ Cardinality({s \in 1..Slots : registry[s] = id}) = Cardinality(Serving(id))
    /\ Cardinality(Serving(id)) <= 1

(* When cleanup_server is through, every connection was closed, refused or *)
(* is still in the queue, no id stays reserved, no descriptor tracked and  *)
(* no worker counted as busy.  Only an acceptor that main did not note as  *)
(* started may still have the connection it accepted last.                 *)
NothingLeftBehind ==
  freed =>
    /\ \A c \in Conn : fate[c] = "taken" => c = aheld /\ ~astarted
    /\ busy = 0
    /\ \A s \in 1..Slots : registry[s] = NoId
    /\ \A w \in Worker : tracked[w] = NoConn

(* Once the flag is down, cleanup_server gets through all its joins, as    *)
(* long as no session waits for a silent peer.                             *)
ShutdownCompletes == ~running ~> freed

(* A connection the acceptor took is refused or served and closed, unless  *)
(* the server is told to stop.                                             *)
AcceptedIsSettled ==
  \A c \in Conn :
    fate[c] \in {"taken", "queued"} ~> fate[c] \in {"closed", "busy"} \/ ~running

(* In-flight transfers are allowed to complete, so no client is cut off    *)
(* mid-update during a clean shutdown.                                     *)
InFlightCompletes == \A w \in Worker : wpc[w] = "session" => held[w] \notin cut
=============================================================================
