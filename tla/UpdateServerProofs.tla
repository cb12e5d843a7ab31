------------------------- MODULE UpdateServerProofs -------------------------
(***************************************************************************)
(* What is proved of UpdateServer for every number of workers, registry    *)
(* slots and queue slots, and any connections and client ids.              *)
(***************************************************************************)
EXTENDS UpdateServer, FiniteSetTheorems, SequenceTheorems, TLAPS

(* The types, but for the busy counter, whose bound is a matter of         *)
(* counting workers.                                                       *)
StateType ==
  /\ running \in BOOLEAN /\ listening \in BOOLEAN
  /\ queue \in Seq(Conn) /\ Len(queue) <= Capacity /\ qopen \in BOOLEAN /\ freed \in BOOLEAN
  /\ creating \in {"threads", "mark", "done"} /\ astarted \in BOOLEAN
  /\ fate \in [Conn -> Fate] /\ cut \subseteq Conn
  /\ apc \in AcceptorPC /\ aheld \in Conn \cup {NoConn}
  /\ wpc \in [Worker -> WorkerPC] /\ held \in [Worker -> Conn \cup {NoConn}]
  /\ tracked \in [Worker -> Conn \cup {NoConn}]
  /\ registry \in [1..Slots -> Id \cup {NoId}]
  /\ spc \in [Caller -> {"before", "scan", "asked"}] /\ scan \in 1..(Workers + 1)
  /\ lock \in Caller \cup {NoOne}

(* A thread has a connection in hand where its code works on one.          *)
Holding == {"check", "track", "handshake", "reserve", "session", "release", "close"}
HandInv ==
  /\ apc = "push" => aheld \in Conn
  /\ \A w \in Worker : wpc[w] \in Holding => held[w] \in Conn

(* busy counts the workers between the second look at the flag and the     *)
(* last statement of their loop.                                           *)
CountedPC == (Holding \ {"check"}) \cup {"untrack", "count"}
Counted   == {w \in Worker : wpc[w] \in CountedPC}
BusyInv   == busy = Cardinality(Counted)

BaseInv == StateType /\ HandInv /\ BusyInv
-----------------------------------------------------------------------------
(* The queue stays a bounded sequence of connections.                      *)
LEMMA QueueGrows ==
  ASSUME NEW S, NEW q \in Seq(S), NEW x \in S, NEW k \in Nat, Len(q) < k
  PROVE  Append(q, x) \in Seq(S) /\ Len(Append(q, x)) <= k
<1>1. Append(q, x) \in Seq(S) /\ Len(Append(q, x)) = Len(q) + 1
  BY AppendProperties
<1>2. Len(q) \in Nat
  BY LenProperties
<1>3. QED  BY <1>1, <1>2

(* A queue that gave its head away.                                        *)
LEMMA QueueShrinks ==
  ASSUME NEW S, NEW q \in Seq(S), q # <<>>, NEW k \in Nat, Len(q) <= k
  PROVE  Head(q) \in S /\ Tail(q) \in Seq(S) /\ Len(Tail(q)) <= k
<1>1. Head(q) \in S /\ Tail(q) \in Seq(S) /\ Len(Tail(q)) = Len(q) - 1
  BY HeadTailProperties
<1>2. Len(q) \in Nat
  BY LenProperties
<1>3. QED  BY <1>1, <1>2

(* The server starts with idle workers and an empty queue.                 *)
LEMMA BaseInit == Init => StateType /\ HandInv /\ BusyInv
<1> SUFFICES ASSUME Init  PROVE StateType /\ HandInv /\ BusyInv
  OBVIOUS
<1> USE ServerAssumption
<1>1. StateType
  <2>1. <<>> \in Seq(Conn) /\ Len(<<>>) = 0
    BY EmptySeq
  <2>2. 1 \in 1..(Workers + 1)
    OBVIOUS
  <2>3. queue \in Seq(Conn) /\ Len(queue) <= Capacity
    BY <2>1 DEF Init
  <2>4. QED
    BY <2>2, <2>3 DEF Init, StateType, Fate, AcceptorPC, WorkerPC, Caller, NoOne
<1>2. HandInv
  BY DEF Init, HandInv, Holding
<1>3. Counted = {}
  BY DEF Init, Counted, CountedPC, Holding
<1>4. QED  BY <1>1, <1>2, <1>3, FS_EmptySet DEF Init, BusyInv

(* main, the acceptor and the callers of server_request_shutdown.          *)
LEMMA OthersKeepTypes ==
  ASSUME StateType, HandInv,
         Signal \/ Main \/ Acceptor \/ \E p \in Caller : Stop(p)
  PROVE  StateType' /\ HandInv'
<1> USE ServerAssumption DEF StateType, HandInv, AcceptorPC, Fate, vars, queueVars, workerVars,
        acceptVars, mainVars, stopVars
<1>1. CASE Signal
  BY <1>1 DEF Signal
<1>2. CASE Main
  <2>1. ASSUME NEW w \in Worker, CreateWorker(w)  PROVE StateType' /\ HandInv'
    BY <2>1 DEF CreateWorker, WorkerPC, Holding
  <2>2. CASE CreateAcceptor
    BY <2>2 DEF CreateAcceptor
  <2>3. CASE MarkAcceptor
    BY <2>3 DEF MarkAcceptor
  <2>4. CASE Cleanup
    BY <2>4 DEF Cleanup
  <2>5. QED  BY <1>2, <2>1, <2>2, <2>3, <2>4 DEF Main
<1>3. CASE Acceptor
  <2>1. CASE AcceptTop
    BY <2>1 DEF AcceptTop
  <2>2. ASSUME NEW c \in Conn, Accept(c)  PROVE StateType' /\ HandInv'
    BY <2>2 DEF Accept
  <2>3. CASE AcceptNothing
    BY <2>3 DEF AcceptNothing
  <2>4. CASE AcceptPush
    <3>1. aheld \in Conn
      BY <2>4 DEF AcceptPush
    <3>2. queue' \in Seq(Conn) /\ Len(queue') <= Capacity
      <4>1. CASE QueueAccepts
        <5>1. queue \in Seq(Conn) /\ Capacity \in Nat /\ Len(queue) < Capacity
          BY <4>1 DEF QueueAccepts
        <5>2. queue' = Append(queue, aheld)
          BY <2>4, <4>1 DEF AcceptPush
        <5>3. QED  BY <3>1, <5>1, <5>2, QueueGrows
      <4>2. CASE ~QueueAccepts
        BY <2>4, <4>2 DEF AcceptPush
      <4>3. QED  BY <4>1, <4>2
    <3>3. QED  BY <2>4, <3>1, <3>2 DEF AcceptPush
  <2>5. QED  BY <1>3, <2>1, <2>2, <2>3, <2>4 DEF Acceptor
<1>4. CASE \E p \in Caller : Stop(p)
  <2> PICK p \in Caller : Stop(p)
    BY <1>4
  <2>1. CASE RequestShutdown(p)
    <3>1. 1 \in 1..(Workers + 1)
      OBVIOUS
    <3>2. QED  BY <2>1, <3>1 DEF RequestShutdown, At
  <2>2. CASE ScanSlot(p)
    <3>1. scan \in Worker /\ scan + 1 \in 1..(Workers + 1)
      BY <2>2 DEF ScanSlot, Worker
    <3>2. QED  BY <2>2, <3>1 DEF ScanSlot
  <2>3. CASE CloseQueue(p)
    BY <2>3 DEF CloseQueue, At, tpq_shutdown
  <2>4. QED  BY <2>1, <2>2, <2>3 DEF Stop
<1>5. QED  BY <1>1, <1>2, <1>3, <1>4

(* Every step of a worker keeps types and the hands connections are in.    *)
LEMMA WorkersKeepTypes ==
  ASSUME StateType, HandInv, NEW w \in Worker, Work(w)
  PROVE  StateType' /\ HandInv'
<1> USE ServerAssumption DEF StateType, HandInv, WorkerPC, Holding, Fate, OthersIdle, Step,
        acceptVars, mainVars, stopVars, CloseHeld
<1>1. CASE WorkerTop(w)
  BY <1>1 DEF WorkerTop
<1>2. CASE WorkerPop(w)
  <2>1. CASE queue # <<>>
    <3>1. Head(queue) \in Conn /\ Tail(queue) \in Seq(Conn) /\ Len(Tail(queue)) <= Capacity
      <4>1. queue \in Seq(Conn) /\ Capacity \in Nat /\ Len(queue) <= Capacity
        OBVIOUS
      <4>2. QED  BY <2>1, <4>1, QueueShrinks
    <3>2. held' = [held EXCEPT ![w] = Head(queue)] /\ queue' = Tail(queue)
          /\ fate' = [fate EXCEPT ![Head(queue)] = "taken"] /\ Step(w, "check")
          /\ OthersIdle /\ UNCHANGED <<tracked, registry, busy>>
      BY <1>2, <2>1 DEF WorkerPop
    <3>3. QED  BY <3>1, <3>2
  <2>2. CASE queue = <<>>
    BY <1>2, <2>2 DEF WorkerPop
  <2>3. QED  BY <2>1, <2>2
<1>3. CASE WorkerCheck(w)
  BY <1>3 DEF WorkerCheck
<1>4. CASE WorkerTrack(w)
  BY <1>4 DEF WorkerTrack
<1>5. CASE WorkerHandshake(w)
  BY <1>5 DEF WorkerHandshake
<1>6. CASE WorkerReserve(w)
  <2>1. IdOf[held[w]] \in Id
    BY <1>6 DEF WorkerReserve
  <2>2. registry' \in [1..Slots -> Id \cup {NoId}]
    BY <1>6, <2>1 DEF WorkerReserve, FreeSlot
  <2>3. QED  BY <1>6, <2>2 DEF WorkerReserve
<1>7. CASE WorkerSession(w)
  BY <1>7 DEF WorkerSession
<1>8. CASE WorkerRelease(w)
  BY <1>8 DEF WorkerRelease
<1>9. CASE WorkerClose(w)
  BY <1>9 DEF WorkerClose
<1>10. CASE WorkerUntrack(w)
  BY <1>10 DEF WorkerUntrack
<1>11. CASE WorkerCount(w)
  BY <1>11 DEF WorkerCount
<1>12. QED
  BY <1>1, <1>2, <1>3, <1>4, <1>5, <1>6, <1>7, <1>8, <1>9, <1>10, <1>11 DEF Work
-----------------------------------------------------------------------------
(* The busy counter                                                        *)

(* There are no more counted workers than workers.                         *)
LEMMA CountedFinite ==
  /\ IsFiniteSet(Counted) /\ Cardinality(Counted) \in Nat
  /\ Cardinality(Counted) <= Workers
<1>1. IsFiniteSet(Worker) /\ Cardinality(Worker) = Workers
  BY ServerAssumption, FS_Interval DEF Worker
<1>2. Counted \in SUBSET Worker
  BY DEF Counted
<1>3. QED  BY <1>1, <1>2, FS_Subset, FS_CardinalityType

(* Only WorkerCheck and WorkerCount move a worker in or out.               *)
LEMMA BusyStep ==
  ASSUME StateType, BusyInv, [Next]_vars
  PROVE  BusyInv'
<1> USE DEF BusyInv
<1>1. ASSUME UNCHANGED busy, Counted' = Counted  PROVE BusyInv'
  BY <1>1
<1>2. ASSUME NEW w \in Worker, Work(w)  PROVE BusyInv'
  <2> USE DEF StateType, OthersIdle, Step
  <2>1. CASE WorkerCheck(w)
    <3>1. CASE running
      <4>1. Counted' = Counted \cup {w} /\ w \notin Counted
        BY <2>1, <3>1 DEF WorkerCheck, Counted, CountedPC, Holding
      <4>2. busy' = busy + 1
        BY <2>1, <3>1 DEF WorkerCheck
      <4>3. Cardinality(Counted \cup {w}) = Cardinality(Counted) + 1
        BY <4>1, CountedFinite, FS_AddElement
      <4>4. QED  BY <4>1, <4>2, <4>3
    <3>2. CASE ~running
      <4>1. Counted' = Counted /\ UNCHANGED busy
        BY <2>1, <3>2 DEF WorkerCheck, Counted, CountedPC, Holding
      <4>2. QED  BY <4>1, <1>1
    <3>3. QED  BY <3>1, <3>2
  <2>2. CASE WorkerCount(w)
    <3>1. Counted' = Counted \ {w} /\ w \in Counted /\ busy' = busy - 1
      BY <2>2 DEF WorkerCount, Counted, CountedPC, Holding
    <3>2. Cardinality(Counted \ {w}) = Cardinality(Counted) - 1
      BY <3>1, CountedFinite, FS_RemoveElement
    <3>3. QED  BY <3>1, <3>2
  <2>3. CASE WorkerTop(w) \/ WorkerPop(w)
    <3>1. Counted' = Counted /\ UNCHANGED busy
      BY <2>3 DEF WorkerTop, WorkerPop, Counted, CountedPC, Holding
    <3>2. QED  BY <3>1, <1>1
  <2>4. CASE WorkerTrack(w) \/ WorkerHandshake(w) \/ WorkerReserve(w) \/ WorkerSession(w)
    <3>1. Counted' = Counted /\ UNCHANGED busy
      BY <2>4 DEF WorkerTrack, WorkerHandshake, WorkerReserve, WorkerSession, Counted, CountedPC,
                  Holding
    <3>2. QED  BY <3>1, <1>1
  <2>5. CASE WorkerRelease(w) \/ WorkerClose(w) \/ WorkerUntrack(w)
    <3>1. Counted' = Counted /\ UNCHANGED busy
      BY <2>5 DEF WorkerRelease, WorkerClose, WorkerUntrack, Counted, CountedPC, Holding
    <3>2. QED  BY <3>1, <1>1
  <2>6. QED  BY <1>2, <2>1, <2>2, <2>3, <2>4, <2>5 DEF Work
<1>3. ASSUME NEW w \in Worker, CreateWorker(w)  PROVE BusyInv'
  <2>1. Counted' = Counted /\ UNCHANGED busy
    BY <1>3 DEF StateType, CreateWorker, Unborn, Counted, CountedPC, Holding
  <2>2. QED  BY <2>1, <1>1
<1>4. ASSUME UNCHANGED <<wpc, busy>>  PROVE BusyInv'
  BY <1>4 DEF Counted
<1>5. ASSUME Signal \/ CreateAcceptor \/ MarkAcceptor \/ Cleanup \/ Acceptor \/ UNCHANGED vars
      PROVE  UNCHANGED <<wpc, busy>>
  BY <1>5 DEF Signal, CreateAcceptor, MarkAcceptor, Cleanup, Acceptor, AcceptTop, Accept,
              AcceptNothing, AcceptPush, workerVars, vars
<1>6. ASSUME NEW p \in Caller, Stop(p)  PROVE UNCHANGED <<wpc, busy>>
  BY <1>6 DEF Stop, RequestShutdown, ScanSlot, CloseQueue, workerVars
<1>7. QED  BY <1>2, <1>3, <1>4, <1>5, <1>6 DEF Next, Main

(* Every step keeps types, hands and the busy counter.                     *)
LEMMA BaseStep == BaseInv /\ [Next]_vars => BaseInv'
<1> SUFFICES ASSUME BaseInv, [Next]_vars  PROVE BaseInv'
  OBVIOUS
<1>1. BusyInv'
  BY BusyStep DEF BaseInv
<1>2. StateType' /\ HandInv'
  <2>1. CASE \E w \in Worker : Work(w)
    BY <2>1, WorkersKeepTypes DEF BaseInv
  <2>2. CASE Signal \/ Main \/ Acceptor \/ \E p \in Caller : Stop(p)
    BY <2>2, OthersKeepTypes DEF BaseInv
  <2>3. CASE UNCHANGED vars
    BY <2>3 DEF BaseInv, StateType, HandInv, vars, queueVars, workerVars, acceptVars, mainVars,
                   stopVars
  <2>4. QED  BY <2>1, <2>2, <2>3 DEF Next
<1>3. QED  BY <1>1, <1>2 DEF BaseInv

(* They hold in every behaviour.                                           *)
LEMMA BaseHolds == Spec => []BaseInv
<1>1. Init => BaseInv
  BY BaseInit DEF BaseInv
<1>2. QED  BY <1>1, BaseStep, PTL DEF Spec

(* The types; the busy counter never goes below zero or above the number   *)
(* of workers.                                                             *)
THEOREM ServerTypeCorrect == Spec => []TypeOK
<1>1. BaseInv => TypeOK
  <2> SUFFICES ASSUME BaseInv  PROVE TypeOK
    OBVIOUS
  <2>1. busy \in 0..Workers
    BY CountedFinite, ServerAssumption DEF BaseInv, BusyInv
  <2>2. QED  BY <2>1 DEF BaseInv, StateType, TypeOK
<1>2. QED  BY <1>1, BaseHolds, PTL
-----------------------------------------------------------------------------
(* The registry of active client ids                                       *)

(* A worker's session is the time between its reservation and its release. *)
InSession(w) == wpc[w] \in {"session", "release"}

(* RegistryIsSessions without counting: an id is in one slot and served by *)
(* one worker at most, and it has a slot exactly when it has a worker.     *)
SlotsApart   == \A s, t \in 1..Slots : registry[s] # NoId /\ registry[s] = registry[t] => s = t
ServersApart ==
  \A v, w \in Worker : InSession(v) /\ InSession(w) /\ IdOf[held[v]] = IdOf[held[w]] => v = w
SlotHasServer ==
  \A s \in 1..Slots : registry[s] # NoId =>
    \E w \in Worker : InSession(w) /\ IdOf[held[w]] = registry[s]
ServerHasSlot ==
  \A w \in Worker : InSession(w) => \E s \in 1..Slots : registry[s] = IdOf[held[w]]

RegistryInv == SlotsApart /\ ServersApart /\ SlotHasServer /\ ServerHasSlot

(* A step that neither takes nor gives back a slot of the registry.        *)
LEMMA RegistryUntouched ==
  ASSUME RegistryInv, UNCHANGED registry,
         \A w \in Worker : InSession(w)' = InSession(w) /\ (InSession(w) => held'[w] = held[w])
  PROVE  RegistryInv'
BY DEF RegistryInv, SlotsApart, ServersApart, SlotHasServer, ServerHasSlot

(* The new id is in no slot, so no worker serves it.                       *)
LEMMA ReserveStep ==
  ASSUME StateType, HandInv, RegistryInv, NEW w \in Worker, WorkerReserve(w)
  PROVE  RegistryInv'
<1> DEFINE id == IdOf[held[w]]
<1>1. held[w] \in Conn /\ id \in Id /\ id # NoId
  BY ServerAssumption DEF HandInv, WorkerReserve, Holding
<1>2. held' = held /\ ~InSession(w)
  BY DEF WorkerReserve, InSession
<1>3. CASE AlreadyActive(id) \/ FreeSlot = {}
  <2>1. UNCHANGED registry /\ wpc' = [wpc EXCEPT ![w] = "close"]
    BY <1>3 DEF WorkerReserve, Step
  <2>2. \A v \in Worker : InSession(v)' = InSession(v)
    BY <2>1, <1>2 DEF InSession, StateType
  <2>3. QED  BY <2>1, <2>2, <1>2, RegistryUntouched
<1>4. CASE ~(AlreadyActive(id) \/ FreeSlot = {})
  <2>1. PICK s \in FreeSlot : registry' = [registry EXCEPT ![s] = id]
    BY <1>4 DEF WorkerReserve
  <2>2. s \in 1..Slots /\ registry[s] = NoId
    BY <2>1 DEF FreeSlot
  <2>3. \A t \in 1..Slots : registry[t] # id
    BY <1>4 DEF AlreadyActive
  <2>4. /\ registry'[s] = id
        /\ \A t \in 1..Slots : t # s => registry'[t] = registry[t]
    BY <2>1, <2>2 DEF StateType
  <2>5. wpc' = [wpc EXCEPT ![w] = "session"]
    BY <1>4 DEF WorkerReserve, Step
  <2>6. InSession(w)' /\ \A v \in Worker : v # w => InSession(v)' = InSession(v)
    BY <2>5 DEF InSession, StateType
  <2>7. \A v \in Worker : InSession(v) => IdOf[held[v]] # id
    BY <2>3 DEF RegistryInv, ServerHasSlot
  <2>8. SlotsApart'
    BY <2>3, <2>4 DEF RegistryInv, SlotsApart
  <2>9. ServersApart'
    BY <1>2, <2>6, <2>7 DEF RegistryInv, ServersApart
  <2>10. SlotHasServer'
    <3> SUFFICES ASSUME NEW t \in 1..Slots, registry'[t] # NoId
                 PROVE  \E v \in Worker : InSession(v)' /\ IdOf[held'[v]] = registry'[t]
      BY DEF SlotHasServer
    <3>1. CASE t = s
      BY <3>1, <1>2, <2>4, <2>6
    <3>2. CASE t # s
      <4>1. PICK v \in Worker : InSession(v) /\ IdOf[held[v]] = registry[t]
        BY <3>2, <2>4 DEF RegistryInv, SlotHasServer
      <4>2. v # w
        BY <4>1, <1>2
      <4>3. QED  BY <3>2, <4>1, <4>2, <1>2, <2>4, <2>6
    <3>3. QED  BY <3>1, <3>2
  <2>11. ServerHasSlot'
    <3> SUFFICES ASSUME NEW v \in Worker, InSession(v)'
                 PROVE  \E t \in 1..Slots : registry'[t] = IdOf[held'[v]]
      BY DEF ServerHasSlot
    <3>1. CASE v = w
      BY <3>1, <1>2, <2>2, <2>4
    <3>2. CASE v # w
      <4>1. PICK t \in 1..Slots : registry[t] = IdOf[held[v]]
        BY <3>2, <2>6 DEF RegistryInv, ServerHasSlot
      <4>2. IdOf[held[v]] \in Id
        BY <3>2, <2>6, ServerAssumption DEF HandInv, Holding, InSession
      <4>3. t # s
        BY <4>1, <4>2, <2>2, ServerAssumption
      <4>4. QED  BY <4>1, <4>3, <1>2, <2>4
    <3>3. QED  BY <3>1, <3>2
  <2>12. QED  BY <2>8, <2>9, <2>10, <2>11 DEF RegistryInv
<1>5. QED  BY <1>3, <1>4

(* The only slot of the id is freed, by the only worker that serves it.    *)
LEMMA ReleaseStep ==
  ASSUME StateType, HandInv, RegistryInv, NEW w \in Worker, WorkerRelease(w)
  PROVE  RegistryInv'
<1> DEFINE id == IdOf[held[w]]
<1>1. held[w] \in Conn /\ id \in Id /\ id # NoId
  BY ServerAssumption DEF HandInv, WorkerRelease, Holding
<1>2. held' = held /\ InSession(w) /\ wpc' = [wpc EXCEPT ![w] = "close"]
  BY DEF WorkerRelease, InSession, Step
<1>3. PICK s \in 1..Slots : registry[s] = id /\ registry' = [registry EXCEPT ![s] = NoId]
  BY DEF WorkerRelease
<1>4. /\ registry'[s] = NoId
      /\ \A t \in 1..Slots : t # s => registry'[t] = registry[t] /\ registry[t] # id
  BY <1>1, <1>3 DEF StateType, RegistryInv, SlotsApart
<1>5. ~InSession(w)' /\ \A v \in Worker : v # w => InSession(v)' = InSession(v)
  BY <1>2 DEF InSession, StateType
<1>6. \A v \in Worker : InSession(v) /\ v # w => IdOf[held[v]] # id
  BY <1>2 DEF RegistryInv, ServersApart
<1>7. SlotsApart'
  BY <1>4 DEF RegistryInv, SlotsApart
<1>8. ServersApart'
  BY <1>2, <1>5 DEF RegistryInv, ServersApart
<1>9. SlotHasServer'
  <2> SUFFICES ASSUME NEW t \in 1..Slots, registry'[t] # NoId
               PROVE  \E v \in Worker : InSession(v)' /\ IdOf[held'[v]] = registry'[t]
    BY DEF SlotHasServer
  <2>1. t # s /\ registry'[t] = registry[t] /\ registry[t] # id
    BY <1>4
  <2>2. PICK v \in Worker : InSession(v) /\ IdOf[held[v]] = registry[t]
    BY <2>1 DEF RegistryInv, SlotHasServer
  <2>3. v # w
    BY <2>1, <2>2
  <2>4. QED  BY <2>1, <2>2, <2>3, <1>2, <1>5
<1>10. ServerHasSlot'
  <2> SUFFICES ASSUME NEW v \in Worker, InSession(v)'
               PROVE  \E t \in 1..Slots : registry'[t] = IdOf[held'[v]]
    BY DEF ServerHasSlot
  <2>1. v # w /\ InSession(v)
    BY <1>5
  <2>2. PICK t \in 1..Slots : registry[t] = IdOf[held[v]]
    BY <2>1 DEF RegistryInv, ServerHasSlot
  <2>3. t # s
    BY <2>1, <2>2, <1>3, <1>6
  <2>4. QED  BY <2>2, <2>3, <1>2, <1>4
<1>11. QED  BY <1>7, <1>8, <1>9, <1>10 DEF RegistryInv

(* Nobody but a worker that reserves or releases comes near the registry.  *)
LEMMA RegistryStep ==
  ASSUME StateType, HandInv, RegistryInv, [Next]_vars
  PROVE  RegistryInv'
<1>1. ASSUME NEW w \in Worker, Work(w)  PROVE RegistryInv'
  <2> USE DEF StateType, OthersIdle, Step, InSession, CloseHeld
  <2>1. CASE WorkerTop(w) \/ WorkerPop(w) \/ WorkerCheck(w)
    <3>1. /\ UNCHANGED registry
          /\ \A v \in Worker : InSession(v)' = InSession(v) /\ (InSession(v) => held'[v] = held[v])
      BY <2>1 DEF WorkerTop, WorkerPop, WorkerCheck
    <3>2. QED  BY <3>1, RegistryUntouched
  <2>2. CASE WorkerTrack(w) \/ WorkerHandshake(w) \/ WorkerSession(w)
    <3>1. /\ UNCHANGED registry
          /\ \A v \in Worker : InSession(v)' = InSession(v) /\ (InSession(v) => held'[v] = held[v])
      BY <2>2 DEF WorkerTrack, WorkerHandshake, WorkerSession
    <3>2. QED  BY <3>1, RegistryUntouched
  <2>3. CASE WorkerClose(w) \/ WorkerUntrack(w) \/ WorkerCount(w)
    <3>1. /\ UNCHANGED registry
          /\ \A v \in Worker : InSession(v)' = InSession(v) /\ (InSession(v) => held'[v] = held[v])
      BY <2>3 DEF WorkerClose, WorkerUntrack, WorkerCount
    <3>2. QED  BY <3>1, RegistryUntouched
  <2>4. CASE WorkerReserve(w)
    BY <2>4, ReserveStep
  <2>5. CASE WorkerRelease(w)
    BY <2>5, ReleaseStep
  <2>6. QED  BY <1>1, <2>1, <2>2, <2>3, <2>4, <2>5 DEF Work
<1>2. ASSUME NEW w \in Worker, CreateWorker(w)  PROVE RegistryInv'
  <2>1. /\ UNCHANGED registry
        /\ \A v \in Worker : InSession(v)' = InSession(v) /\ held'[v] = held[v]
    BY <1>2 DEF CreateWorker, Unborn, StateType, InSession
  <2>2. QED  BY <2>1, RegistryUntouched
<1>3. ASSUME UNCHANGED <<wpc, held, registry>>  PROVE RegistryInv'
  BY <1>3, RegistryUntouched DEF InSession
<1>4. ASSUME Signal \/ CreateAcceptor \/ MarkAcceptor \/ Cleanup \/ Acceptor \/ UNCHANGED vars
      PROVE  UNCHANGED <<wpc, held, registry>>
  BY <1>4 DEF Signal, CreateAcceptor, MarkAcceptor, Cleanup, Acceptor, AcceptTop, Accept,
              AcceptNothing, AcceptPush, workerVars, vars
<1>5. ASSUME NEW p \in Caller, Stop(p)  PROVE UNCHANGED <<wpc, held, registry>>
  BY <1>5 DEF Stop, RequestShutdown, ScanSlot, CloseQueue, workerVars
<1>6. QED  BY <1>1, <1>2, <1>3, <1>4, <1>5 DEF Next, Main

(* The registry is that of the sessions in every behaviour.                *)
LEMMA RegistryHolds == Spec => []RegistryInv
<1>1. Init => RegistryInv
  BY DEF Init, RegistryInv, SlotsApart, ServersApart, SlotHasServer, ServerHasSlot, InSession
<1>2. BaseInv /\ RegistryInv /\ [Next]_vars => RegistryInv'
  BY RegistryStep DEF BaseInv
<1>3. QED  BY <1>1, <1>2, BaseHolds, PTL DEF Spec

(* An id never has two sessions, and it has a slot of g_active_client_ids  *)
(* exactly while a worker serves it, for any number of slots and workers   *)
(* that reserve and release in any order.                                  *)
THEOREM RegistryIsRight == Spec => []RegistryIsSessions
<1>1. RegistryInv => RegistryIsSessions
  <2> SUFFICES ASSUME RegistryInv, NEW id \in Id
               PROVE  /\ Cardinality({s \in 1..Slots : registry[s] = id}) = Cardinality(Serving(id))
                      /\ Cardinality(Serving(id)) <= 1
    BY DEF RegistryIsSessions
  <2> DEFINE Taken == {s \in 1..Slots : registry[s] = id}
  <2>0. id # NoId
    BY ServerAssumption
  <2>1. \A w \in Worker : w \in Serving(id) <=> InSession(w) /\ IdOf[held[w]] = id
    BY DEF Serving, InSession
  <2>2. Serving(id) \subseteq Worker
    BY DEF Serving
  <2>3. CASE Taken = {}
    <3>1. Serving(id) = {}
      BY <2>1, <2>2, <2>3 DEF RegistryInv, ServerHasSlot
    <3>2. QED  BY <2>3, <3>1, FS_EmptySet
  <2>4. CASE Taken # {}
    <3>1. PICK s \in 1..Slots : registry[s] = id
      BY <2>4
    <3>2. Taken = {s}
      BY <3>1, <2>0 DEF RegistryInv, SlotsApart
    <3>3. PICK w \in Worker : InSession(w) /\ IdOf[held[w]] = id
      BY <3>1, <2>0 DEF RegistryInv, SlotHasServer
    <3>4. Serving(id) = {w}
      BY <3>3, <2>1, <2>2 DEF RegistryInv, ServersApart
    <3>5. Cardinality({s}) = 1 /\ Cardinality({w}) = 1
      BY FS_Singleton
    <3>6. QED  BY <3>2, <3>4, <3>5
  <2>5. QED  BY <2>3, <2>4
<1>2. QED  BY <1>1, RegistryHolds, PTL
-----------------------------------------------------------------------------
(* What cleanup_server leaves                                              *)

(* Where a worker's descriptor may be in g_worker_fds, and who has a       *)
(* connection that is neither queued nor done with.                        *)
TrackedPC == {"handshake", "reserve", "session", "release", "close", "untrack"}
TrackInv  == \A w \in Worker : tracked[w] # NoConn => wpc[w] \in TrackedPC
OwnerInv  ==
  \A c \in Conn : fate[c] = "taken" =>
    \/ apc = "push" /\ aheld = c
    \/ \E w \in Worker : wpc[w] \in Holding /\ held[w] = c

(* The acceptor does not run before main creates it, and main notes what   *)
(* it started before it calls cleanup_server.                              *)
NotedInv ==
  /\ creating = "threads" => apc = "unborn"
  /\ spc["cleanup"] # "before" => creating # "mark"

(* The queue is freed when every thread main noted has ended and none can  *)
(* be created or noted.                                                    *)
FreedInv == freed => spc["cleanup"] = "asked" /\ AllJoined

EndInv == TrackInv /\ OwnerInv /\ NotedInv /\ FreedInv

(* At the start nothing is tracked.                                        *)
LEMMA EndInit == Init => EndInv
BY ServerAssumption DEF Init, EndInv, TrackInv, OwnerInv, NotedInv, FreedInv, Caller

(* Every step of a worker keeps who closes a connection.                   *)
LEMMA WorkersKeepEnd ==
  ASSUME StateType, HandInv, EndInv, NEW w \in Worker, Work(w)
  PROVE  EndInv'
<1>1. FreedInv'
  <2>1. ~freed
    <3>1. wpc[w] \notin {"unborn", "gone"}
      BY DEF Work, WorkerTop, WorkerPop, WorkerCheck, WorkerTrack, WorkerHandshake, WorkerReserve,
             WorkerSession, WorkerRelease, WorkerClose, WorkerUntrack, WorkerCount
    <3>2. QED  BY <3>1 DEF EndInv, FreedInv, AllJoined, Ended
  <2>2. UNCHANGED freed
    BY DEF Work, WorkerTop, WorkerPop, WorkerCheck, WorkerTrack, WorkerHandshake, WorkerReserve,
           WorkerSession, WorkerRelease, WorkerClose, WorkerUntrack, WorkerCount, OthersIdle
  <2>3. QED  BY <2>1, <2>2 DEF FreedInv
<1>2. TrackInv'
  <2> USE DEF StateType, EndInv, TrackInv, TrackedPC, OthersIdle, Step
  <2>1. CASE WorkerTop(w) \/ WorkerPop(w) \/ WorkerCheck(w) \/ WorkerTrack(w)
    BY <2>1 DEF WorkerTop, WorkerPop, WorkerCheck, WorkerTrack
  <2>2. CASE WorkerHandshake(w) \/ WorkerReserve(w) \/ WorkerSession(w) \/ WorkerRelease(w)
    BY <2>2 DEF WorkerHandshake, WorkerReserve, WorkerSession, WorkerRelease
  <2>3. CASE WorkerClose(w) \/ WorkerUntrack(w) \/ WorkerCount(w)
    BY <2>3 DEF WorkerClose, WorkerUntrack, WorkerCount
  <2>4. QED  BY <2>1, <2>2, <2>3 DEF Work
<1>3. OwnerInv'
  <2> USE DEF StateType, EndInv, OwnerInv, Holding, OthersIdle, Step, CloseHeld, acceptVars
  <2>1. CASE WorkerTop(w) \/ WorkerTrack(w) \/ WorkerHandshake(w) \/ WorkerReserve(w)
    BY <2>1 DEF WorkerTop, WorkerTrack, WorkerHandshake, WorkerReserve
  <2>2. CASE WorkerSession(w) \/ WorkerRelease(w) \/ WorkerUntrack(w) \/ WorkerCount(w)
    BY <2>2 DEF WorkerSession, WorkerRelease, WorkerUntrack, WorkerCount
  <2>3. CASE WorkerPop(w)
    BY <2>3 DEF WorkerPop
  <2>4. CASE WorkerCheck(w)
    BY <2>4 DEF WorkerCheck, HandInv
  <2>5. CASE WorkerClose(w)
    BY <2>5 DEF WorkerClose, HandInv
  <2>6. QED  BY <2>1, <2>2, <2>3, <2>4, <2>5 DEF Work
<1>4. NotedInv'
  <2>1. UNCHANGED <<creating, apc, spc>>
    BY DEF Work, WorkerTop, WorkerPop, WorkerCheck, WorkerTrack, WorkerHandshake, WorkerReserve,
           WorkerSession, WorkerRelease, WorkerClose, WorkerUntrack, WorkerCount, OthersIdle,
           acceptVars, mainVars, stopVars
  <2>2. QED  BY <2>1 DEF EndInv, NotedInv
<1>5. QED  BY <1>1, <1>2, <1>3, <1>4 DEF EndInv

(* So do the acceptor, main and the callers of server_request_shutdown.    *)
LEMMA OthersKeepEnd ==
  ASSUME StateType, HandInv, EndInv,
         Signal \/ Main \/ Acceptor \/ (\E p \in Caller : Stop(p)) \/ UNCHANGED vars
  PROVE  EndInv'
<1> USE DEF StateType, HandInv, EndInv, TrackInv, OwnerInv, NotedInv, FreedInv, AllJoined, vars,
        queueVars, workerVars, acceptVars, mainVars, stopVars
<1>1. CASE Signal \/ UNCHANGED vars
  BY <1>1 DEF Signal
<1>2. CASE Main
  <2>1. ASSUME NEW w \in Worker, CreateWorker(w)  PROVE EndInv'
    <3>1. ~freed /\ wpc[w] = "unborn"
      BY <2>1 DEF CreateWorker, Starting, Unborn
    <3>2. QED  BY <2>1, <3>1 DEF CreateWorker, Holding, TrackedPC
  <2>2. CASE CreateAcceptor
    BY <2>2 DEF CreateAcceptor, Starting
  <2>3. CASE MarkAcceptor
    BY <2>3 DEF MarkAcceptor
  <2>4. CASE Cleanup
    BY <2>4 DEF Cleanup
  <2>5. QED  BY <1>2, <2>1, <2>2, <2>3, <2>4 DEF Main
<1>3. CASE Acceptor
  <2>1. freed => ~astarted
    BY <1>3 DEF Acceptor, AcceptTop, Accept, AcceptNothing, AcceptPush, Ended
  <2>2. CASE AcceptTop \/ AcceptNothing
    BY <2>1, <2>2 DEF AcceptTop, AcceptNothing
  <2>3. ASSUME NEW c \in Conn, Accept(c)  PROVE EndInv'
    BY <2>1, <2>3 DEF Accept
  <2>4. CASE AcceptPush
    BY <2>1, <2>4 DEF AcceptPush
  <2>5. QED  BY <1>3, <2>2, <2>3, <2>4 DEF Acceptor
<1>4. ASSUME NEW p \in Caller, Stop(p)  PROVE EndInv'
  <2>1. CASE RequestShutdown(p)
    BY <2>1 DEF RequestShutdown, MayRequest, At, Caller
  <2>2. CASE ScanSlot(p)
    <3>1. TrackInv'
      BY <2>2 DEF ScanSlot, Worker
    <3>2. QED  BY <2>2, <3>1 DEF ScanSlot
  <2>3. CASE CloseQueue(p)
    BY <2>3 DEF CloseQueue, At, Caller
  <2>4. QED  BY <1>4, <2>1, <2>2, <2>3 DEF Stop
<1>5. QED  BY <1>1, <1>2, <1>3, <1>4

(* It holds in every behaviour.                                            *)
LEMMA EndHolds == Spec => []EndInv
<1>1. BaseInv /\ EndInv /\ [Next]_vars => EndInv'
  BY WorkersKeepEnd, OthersKeepEnd DEF BaseInv, Next
<1>2. QED  BY <1>1, EndInit, BaseHolds, PTL DEF Spec

(* When cleanup_server is through its joins, every connection was closed,  *)
(* refused or is still in the queue, no id stays reserved, no descriptor   *)
(* stays tracked and no worker is counted as busy; but for the connection  *)
(* an acceptor has just accepted that main did not note as started.        *)
THEOREM ShutdownLeavesNothing == Spec => []NothingLeftBehind
<1>1. BaseInv /\ RegistryInv /\ EndInv => NothingLeftBehind
  <2> SUFFICES ASSUME BaseInv, RegistryInv, EndInv, freed
               PROVE  /\ \A c \in Conn : fate[c] = "taken" => c = aheld /\ ~astarted
                      /\ busy = 0
                      /\ \A s \in 1..Slots : registry[s] = NoId
                      /\ \A w \in Worker : tracked[w] = NoConn
    BY DEF NothingLeftBehind
  <2>1. \A w \in Worker : wpc[w] \in {"unborn", "gone"}
    BY DEF EndInv, FreedInv, AllJoined, Ended
  <2>2. \A c \in Conn : fate[c] = "taken" => c = aheld /\ ~astarted
    <3>1. \A c \in Conn : fate[c] = "taken" => apc = "push" /\ aheld = c
      BY <2>1 DEF EndInv, OwnerInv, Holding
    <3>2. apc = "push" => ~astarted
      BY DEF EndInv, FreedInv, AllJoined, Ended
    <3>3. QED  BY <3>1, <3>2
  <2>3. Counted = {}
    BY <2>1 DEF Counted, CountedPC, Holding
  <2>4. busy = 0
    BY <2>3, FS_EmptySet DEF BaseInv, BusyInv
  <2>5. \A s \in 1..Slots : registry[s] = NoId
    BY <2>1 DEF RegistryInv, SlotHasServer, InSession
  <2>6. \A w \in Worker : tracked[w] = NoConn
    BY <2>1 DEF EndInv, TrackInv, TrackedPC
  <2>7. QED  BY <2>2, <2>4, <2>5, <2>6
<1>2. QED  BY <1>1, BaseHolds, RegistryHolds, EndHolds, PTL
=============================================================================
