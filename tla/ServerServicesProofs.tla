------------------------ MODULE ServerServicesProofs ------------------------
(***************************************************************************)
(* What is proved of ServerServices: the composition implements both of    *)
(* its parts, whose theorems therefore hold of it, the log file has every  *)
(* accepted line once and in order, none missing at the end of a server    *)
(* that joined all its threads, and otherwise none that was logged before  *)
(* logger_stop.                                                            *)
(***************************************************************************)
EXTENDS ServerServices, ManifestProofs, LoggerProofs

(* cleanup_server has joined the threads it knows.                         *)
CleanedUp == main \in {"destroyed", "stopping", "ended"}

(* The steps of cleanup_server come in their order.                        *)
OrderInv ==
  /\ CleanedUp => AllJoined
  /\ ~started => main = "ended"

(* The types of what main and the acceptor own.                            *)
ServerOK ==
  /\ main \in MainPC /\ born \subseteq {Acceptor, Reloader} /\ marked \subseteq born
  /\ acceptor \in {"start", "loop", "line", "stop", "gone"} /\ accepts \in 0..MaxAccepts
  /\ due \in [lines : Nat, drops : Nat]
  /\ main = "acceptor created" => Acceptor \in born
  /\ main = "reloader created" => Reloader \in born
-----------------------------------------------------------------------------
(* Every step of the composition is one of the manifest's threads, or      *)
(* leaves the manifest alone.                                              *)
LEMMA StepOfManifest == [Next]_vars => [ManifestStep]_manifestVars
<1>1. ASSUME ReloadThread  PROVE [ManifestStep]_manifestVars
  BY <1>1 DEF ReloadThread, Logging, ManifestStep
<1>2. ASSUME NEW r \in Reader, Worker(r)  PROVE [ManifestStep]_manifestVars
  BY <1>2 DEF Worker, Logging, ManifestStep
<1>3. ASSUME MainThread  PROVE UNCHANGED manifestVars
  BY <1>3 DEF MainThread, StartThreads, Create, MarkStarted, Destroy, SayGoodbye, StopLogger
<1>4. ASSUME AcceptorThread \/ Accept \/ Log \/ (WriterWakesUp /\ UNCHANGED manifestVars /\ Quiet)
      PROVE  UNCHANGED manifestVars
  BY <1>4 DEF AcceptorThread, Accept, Log
<1>5. ASSUME Operator \/ SigTerm  PROVE ManifestStep
  BY <1>5 DEF ManifestStep
<1>6. ASSUME UNCHANGED vars  PROVE UNCHANGED manifestVars
  BY <1>6 DEF vars
<1>7. CASE Next
  <2>1. CASE ReloadThread
    BY <1>1, <2>1
  <2>2. CASE \E r \in Reader : Worker(r)
    BY <1>2, <2>2
  <2>3. CASE MainThread
    BY <1>3, <2>3
  <2>4. CASE AcceptorThread \/ Accept \/ Log \/ (WriterWakesUp /\ UNCHANGED manifestVars /\ Quiet)
    BY <1>4, <2>4
  <2>5. CASE Operator \/ SigTerm
    BY <1>5, <2>5
  <2>6. QED  BY <1>7, <2>1, <2>2, <2>3, <2>4, <2>5 DEF Next
<1>8. QED  BY <1>6, <1>7

(* Every step of the composition is one of the logger's, or leaves the     *)
(* logger alone.                                                           *)
LEMMA StepOfLogger == [Next]_vars => [LoggerStep]_loggerVars
<1> USE ServicesAssumption
<1>1. ASSUME ReloadThread  PROVE [LoggerStep]_loggerVars
  BY <1>1 DEF ReloadThread, Logging, LoggerStep, LogMsg
<1>2. ASSUME NEW r \in Reader, Worker(r)  PROVE [LoggerStep]_loggerVars
  BY <1>2 DEF Worker, Logging, LoggerStep, LogMsg
<1>3. ASSUME MainThread  PROVE [LoggerStep]_loggerVars
  <2>1. ASSUME StartThreads \/ Destroy  PROVE UNCHANGED loggerVars
    BY <2>1 DEF StartThreads, Create, MarkStarted, Destroy
  <2>2. ASSUME SayGoodbye \/ StopLogger  PROVE LoggerStep
    BY <2>2 DEF SayGoodbye, StopLogger, Logging, LoggerStep, LogMsg
  <2>3. QED  BY <1>3, <2>1, <2>2 DEF MainThread
<1>4. ASSUME Log \/ WriterWakesUp  PROVE LoggerStep
  BY <1>4 DEF Log, LoggerStep
<1>5. ASSUME ((Operator \/ SigTerm) /\ UNCHANGED loggerVars /\ Quiet) \/ Accept
      PROVE  UNCHANGED loggerVars
  BY <1>5 DEF Accept
<1>6. ASSUME UNCHANGED vars  PROVE UNCHANGED loggerVars
  BY <1>6 DEF vars
<1>7. ASSUME AcceptorThread  PROVE [LoggerStep]_loggerVars
  BY <1>7 DEF AcceptorThread, Logging, LoggerStep, LogMsg
<1>8. QED  BY <1>1, <1>2, <1>3, <1>4, <1>5, <1>6, <1>7 DEF Next

(* The composition implements the manifest and the logger.                 *)
LEMMA Parts == Spec => ManifestSpec /\ LoggerSpec
<1>1. Init => ManifestInit /\ LoggerInit
  BY DEF Init
<1>2. QED  BY <1>1, StepOfManifest, StepOfLogger, PTL DEF Spec, ManifestSpec, LoggerSpec
-----------------------------------------------------------------------------
(* log_msg neither starts nor stops the logger.                            *)
LEMMA LoggingStops ==
  ASSUME NEW t \in Thread, LogEnter(t) \/ LogPut(t)
  PROVE  UNCHANGED <<started, stopping>>
BY DEF LogEnter, LogPut, queueVars

(* What a step of the reload thread or of a worker does outside log_msg    *)
(* leaves a thread that is gone alone.                                     *)
LEMMA ReloaderMoves ==
  ASSUME ReloadWork
  PROVE  reloader # "gone" /\ UNCHANGED reader
BY DEF ReloadWork, ReloadTest, ReloadClear, ReloadConf, ReloadSize, ReloadHash, ReloadRead,
   ReloadUnread, ReloadCompare, ReloadLock, ReloadAssign, ReloadUnlock, OthersStill, readVars

(* A worker that copies the manifest is not gone.                          *)
LEMMA ReaderMoves ==
  ASSUME NEW r \in Reader, ReadWork(r)
  PROVE  reader[r] # "gone"
BY DEF ReadWork, ReadLock, ReadCopy, ReaderLeaves

(* The reload thread moves only as long as it is not joined.               *)
LEMMA ReloaderNotJoined ==
  ASSUME ReloadThread
  PROVE  /\ Reloader \in born /\ reloader # "gone"
         /\ UNCHANGED <<reader, acceptor, main, born, marked>> /\ UNCHANGED started
<1> USE ServicesAssumption
<1>1. Reloader \in born /\ reloader # "gone" /\ UNCHANGED <<acceptor, main, born, marked>>
  BY ReloaderMoves DEF ReloadThread, startVars, acceptVars
<1>2. UNCHANGED started
  <2>1. CASE UNCHANGED loggerVars
    BY <2>1 DEF loggerVars, queueVars
  <2>2. CASE LogEnter(Reloader) \/ LogPut(Reloader)
    BY <2>2, LoggingStops
  <2>3. QED  BY <2>1, <2>2 DEF ReloadThread, Logging
<1>3. UNCHANGED reader
  BY ReloaderMoves DEF ReloadThread, Logging, ReloadLogged, OthersStill, readVars, manifestVars
<1>4. QED  BY <1>1, <1>2, <1>3

(* Nor does a worker.                                                      *)
LEMMA WorkerNotJoined ==
  ASSUME NEW r \in Reader, Worker(r)
  PROVE  reader[r] # "gone" /\ UNCHANGED <<main, born, marked>> /\ UNCHANGED started
<1> USE ServicesAssumption
<1>1. reader[r] # "gone" /\ UNCHANGED <<main, born, marked>>
  BY ReaderMoves DEF Worker, startVars
<1>2. UNCHANGED started
  <2>1. CASE UNCHANGED loggerVars
    BY <2>1 DEF loggerVars, queueVars
  <2>2. CASE LogEnter(r) \/ LogPut(r)
    BY <2>2, LoggingStops
  <2>3. QED  BY <2>1, <2>2 DEF Worker, Logging
<1>3. QED  BY <1>1, <1>2

(* Nor does the acceptor.                                                  *)
LEMMA AcceptorNotJoined ==
  ASSUME AcceptorThread \/ Accept
  PROVE  /\ Acceptor \in born /\ acceptor # "gone"
         /\ UNCHANGED <<reader, reloader, main, born, marked>> /\ UNCHANGED started
<1> USE ServicesAssumption
<1>1. /\ Acceptor \in born /\ acceptor # "gone"
      /\ UNCHANGED <<reader, reloader, main, born, marked>>
  BY DEF AcceptorThread, Accept, manifestVars, loadVars, readVars, startVars
<1>2. UNCHANGED started
  <2>1. CASE UNCHANGED loggerVars
    BY <2>1 DEF loggerVars, queueVars
  <2>2. CASE LogEnter(Acceptor) \/ LogPut(Acceptor)
    BY <2>2, LoggingStops
  <2>3. QED  BY <2>1, <2>2 DEF AcceptorThread, Accept, Logging
<1>3. QED  BY <1>1, <1>2

(* Every step keeps the order.                                             *)
LEMMA OrderStep ==
  ASSUME OrderInv, [Next]_vars
  PROVE  OrderInv'
<1> USE ServicesAssumption
<1>1. ASSUME UNCHANGED <<started, main, marked, acceptor, reloader, reader>>  PROVE OrderInv'
  BY <1>1 DEF OrderInv, CleanedUp, AllJoined, ThreadsJoined, WorkersJoined
<1>2. CASE AcceptorThread \/ Accept
  <2>1. CleanedUp => Acceptor \notin marked
    BY <1>2, AcceptorNotJoined DEF OrderInv, AllJoined, ThreadsJoined
  <2>2. UNCHANGED <<started, main, marked, reloader, reader>>
    BY <1>2, AcceptorNotJoined
  <2>3. QED  BY <2>1, <2>2 DEF OrderInv, CleanedUp, AllJoined, ThreadsJoined, WorkersJoined
<1>3. CASE ReloadThread
  <2>1. CleanedUp => Reloader \notin marked
    BY <1>3, ReloaderNotJoined DEF OrderInv, AllJoined, ThreadsJoined
  <2>2. UNCHANGED <<started, main, marked, acceptor, reader>>
    BY <1>3, ReloaderNotJoined
  <2>3. QED  BY <2>1, <2>2 DEF OrderInv, CleanedUp, AllJoined, ThreadsJoined, WorkersJoined
<1>4. ASSUME NEW r \in Reader, Worker(r)  PROVE OrderInv'
  <2>1. ~CleanedUp /\ UNCHANGED <<main, started>>
    BY <1>4, WorkerNotJoined DEF OrderInv, AllJoined, WorkersJoined
  <2>2. QED  BY <2>1 DEF OrderInv, CleanedUp
<1>5. CASE StartThreads
  <2>1. ~CleanedUp /\ ~CleanedUp'
    BY <1>5 DEF StartThreads, Create, MarkStarted, CleanedUp
  <2>2. UNCHANGED started
    BY <1>5 DEF StartThreads, Create, MarkStarted, loggerVars, queueVars
  <2>3. QED  BY <2>1, <2>2 DEF OrderInv, CleanedUp
<1>6. CASE Destroy
  <2>1. AllJoined /\ main # "ended"
        /\ UNCHANGED <<started, marked, acceptor, reloader, reader>>
    BY <1>6 DEF Destroy, manifestVars, loadVars, readVars, loggerVars, queueVars, startVars,
       acceptVars
  <2>2. QED  BY <2>1 DEF OrderInv, AllJoined, ThreadsJoined, WorkersJoined
<1>7. CASE SayGoodbye \/ StopLogger
  <2>1. /\ CleanedUp /\ main # "ended"
        /\ UNCHANGED <<marked, acceptor, reloader, reader>>
    BY <1>7 DEF SayGoodbye, StopLogger, CleanedUp, manifestVars, loadVars, readVars, startVars,
       acceptVars
  <2>2. ~started' => main' = "ended"
    <3>1. CASE SayGoodbye
      <4>1. LogEnter(Main) \/ LogPut(Main)
        BY <3>1 DEF SayGoodbye, Logging
      <4>2. QED  BY <2>1, <4>1, LoggingStops DEF OrderInv
    <3>2. CASE StopLogger
      BY <2>1, <3>2 DEF StopLogger, StopAsk, OrderInv
    <3>3. QED  BY <1>7, <3>1, <3>2
  <2>3. QED  BY <2>1, <2>2 DEF OrderInv, AllJoined, ThreadsJoined, WorkersJoined
<1>8. CASE (LoggerThread \/ WriterWakesUp) /\ UNCHANGED manifestVars /\ Quiet
  <2>1. UNCHANGED started
    BY <1>8 DEF LoggerThread, WriterTake, WriterWarn, WriterWrite, WriterLeave, WriterWait,
       WriterWakesUp, queueVars
  <2>2. QED
    BY <1>1, <1>8, <2>1 DEF Quiet, manifestVars, loadVars, readVars, startVars, acceptVars
<1>9. CASE (Operator \/ SigTerm) /\ UNCHANGED loggerVars /\ Quiet
  <2>1. UNCHANGED <<reloader, reader>>
    BY <1>9 DEF Operator, EditConf, EditPackage, SigHup, SigTerm, loadVars, readVars
  <2>2. QED  BY <1>1, <1>9, <2>1 DEF Quiet, startVars, acceptVars, loggerVars, queueVars
<1>10. CASE UNCHANGED vars
  BY <1>1, <1>10 DEF vars, manifestVars, loadVars, readVars, loggerVars, queueVars, startVars,
     acceptVars
<1>11. QED
  BY <1>2, <1>3, <1>4, <1>5, <1>6, <1>7, <1>8, <1>9, <1>10 DEF Next, MainThread, Log

(* Nothing is cleaned up at the start.                                     *)
LEMMA OrderInit ==
  ASSUME Init
  PROVE  OrderInv
BY DEF Init, LoggerInit, OrderInv, CleanedUp

(* Every step keeps the types of main and the acceptor.                    *)
LEMMA ServerTypes ==
  ASSUME LoggerTypeOK, ServerOK, [Next]_vars
  PROVE  ServerOK'
<1>1. ASSUME UNCHANGED <<main, startVars, acceptVars, due>>  PROVE ServerOK'
  BY <1>1 DEF ServerOK, startVars, acceptVars
<1>2. CASE AcceptorThread
  BY <1>2 DEF AcceptorThread, Logging, startVars, ServerOK
<1>3. CASE Accept
  <2>1. accepts > 0 /\ accepts' = accepts - 1 /\ acceptor' = "line"
    BY <1>3 DEF Accept
  <2>2. UNCHANGED <<main, born, marked, due>>
    BY <1>3 DEF Accept, startVars
  <2>3. accepts \in 0..MaxAccepts /\ MaxAccepts \in Nat
    BY ServicesAssumption DEF ServerOK
  <2>4. accepts' \in 0..MaxAccepts
    BY <2>1, <2>3
  <2>5. QED  BY <2>1, <2>2, <2>4 DEF ServerOK
<1>4. CASE StartThreads
  <2>1. UNCHANGED <<acceptor, accepts, due>>
    BY <1>4 DEF StartThreads, Create, MarkStarted, acceptVars
  <2>2. CASE \/ Create(Acceptor, "acceptor", "acceptor created", "reloader")
             \/ Create(Reloader, "reloader", "reloader created", "serving")
    BY <2>1, <2>2, ServicesAssumption DEF Create, ServerOK, MainPC
  <2>3. CASE \/ MarkStarted(Acceptor, "acceptor created", "reloader")
             \/ MarkStarted(Reloader, "reloader created", "serving")
    BY <2>1, <2>3, ServicesAssumption DEF MarkStarted, ServerOK, MainPC
  <2>4. QED  BY <1>4, <2>2, <2>3 DEF StartThreads
<1>5. CASE Destroy \/ SayGoodbye
  BY <1>5 DEF Destroy, SayGoodbye, Logging, startVars, acceptVars, ServerOK, MainPC
<1>6. CASE StopLogger
  <2>1. /\ main' = main \/ main' = "ended"
        /\ main = "stopping" /\ UNCHANGED <<born, marked, acceptor, accepts>>
    BY <1>6 DEF StopLogger, startVars, acceptVars
  <2>2. UNCHANGED due \/ due' = [lines |-> Len(accepted), drops |-> lost]
    BY <1>6, Zenon DEF StopLogger
  <2>3. Len(accepted) \in Nat /\ lost \in Nat
    BY DEF LoggerTypeOK
  <2>4. due' \in [lines : Nat, drops : Nat]
    <3>1. CASE UNCHANGED due
      BY <3>1 DEF ServerOK
    <3>2. CASE due' = [lines |-> Len(accepted), drops |-> lost]
      BY <2>3, <3>2
    <3>3. QED  BY <2>2, <3>1, <3>2
  <2>5. QED  BY <2>1, <2>4 DEF ServerOK, MainPC
<1>7. QED
  BY <1>1, <1>2, <1>3, <1>4, <1>5, <1>6
     DEF Next, vars, ReloadThread, Worker, MainThread, Log, Quiet

(* They are right at the start.                                            *)
LEMMA ServerInit ==
  ASSUME Init
  PROVE  ServerOK
BY ServicesAssumption DEF Init, ServerOK, MainPC
-----------------------------------------------------------------------------
(* A recursion along the numbers up to n has a solution.                   *)
LEMMA RecursionExists ==
  ASSUME NEW S, NEW a \in S, NEW n \in Nat, NEW G \in [1..n -> [S -> S]]
  PROVE  \E u \in [0..n -> S] : u[0] = a /\ \A k \in 1..n : u[k] = G[k][u[k - 1]]
<1> DEFINE Solves(u, j) == u \in [0..j -> S] /\ u[0] = a /\ \A k \in 1..j : u[k] = G[k][u[k - 1]]
           T == {j \in Nat : j <= n => \E u : Solves(u, j)}
<1>1. 0 \in T
  <2>1. Solves([k \in 0..0 |-> a], 0)
    OBVIOUS
  <2> HIDE DEF Solves
  <2>2. QED  BY <2>1
<1>2. ASSUME NEW j \in T  PROVE j + 1 \in T
  <2>1. SUFFICES ASSUME j + 1 <= n  PROVE \E u : Solves(u, j + 1)
    <3> HIDE DEF Solves
    <3>1. j + 1 \in Nat
      OBVIOUS
    <3>2. QED  BY <3>1
  <2>2. j \in Nat /\ j <= n /\ j + 1 \in 1..n
    BY <2>1
  <2>3. PICK u : Solves(u, j)
    <3> HIDE DEF Solves
    <3>1. QED  BY <2>2
  <2> DEFINE w == [k \in 0..(j + 1) |-> IF k = j + 1 THEN G[j + 1][u[j]] ELSE u[k]]
  <2>4. \A k \in 0..j : w[k] = u[k] /\ k \in 0..(j + 1)
    BY <2>2
  <2>5. w[j + 1] = G[j + 1][u[j]]
    BY <2>2
  <2>6. u[j] \in S /\ G[j + 1][u[j]] \in S
    BY <2>2, <2>3
  <2>7. w \in [0..(j + 1) -> S]
    BY <2>2, <2>3, <2>6
  <2> HIDE DEF w
  <2>8. w[0] = a
    BY <2>2, <2>3, <2>4
  <2>9. ASSUME NEW k \in 1..(j + 1)  PROVE w[k] = G[k][w[k - 1]]
    <3>1. CASE k = j + 1
      <4>1. k - 1 = j /\ j \in 0..j
        BY <2>2, <3>1
      <4>2. QED  BY <2>4, <2>5, <3>1, <4>1
    <3>2. CASE k # j + 1
      <4>1. k \in 1..j /\ k \in 0..j /\ k - 1 \in 0..j
        BY <2>2, <3>2
      <4>2. QED  BY <2>3, <2>4, <4>1
    <3>3. QED  BY <3>1, <3>2
  <2>10. Solves(w, j + 1)
    BY <2>7, <2>8, <2>9
  <2> HIDE DEF Solves
  <2>11. QED  BY <2>10
<1>3. T = Nat
  <2> HIDE DEF T
  <2>1. T \in SUBSET Nat
    BY DEF T
  <2>2. QED  BY <1>1, <1>2, <2>1, SetInduction
<1>4. \E u : Solves(u, n)
  <2> HIDE DEF Solves
  <2>1. QED  BY <1>3
<1>5. QED  BY <1>4

(* The recursion of LinesOf, for the first n entries of a file.            *)
LinesUpTo(f, n, u) ==
  /\ u[0] = <<>>
  /\ \A k \in 1..n : u[k] = IF IsLine(f[k]) THEN Append(u[k - 1], f[k]) ELSE u[k - 1]

(* Files that agree up to an entry have the same lines up to there.        *)
LEMMA LinesAgree ==
  ASSUME NEW n \in Nat, NEW f \in Seq(Entries), NEW g \in Seq(Entries), NEW u, NEW w,
         LinesUpTo(f, n, u), LinesUpTo(g, n, w),
         \A k \in 1..n : f[k] = g[k]
  PROVE  \A k \in 0..n : u[k] = w[k]
<1> DEFINE T == {k \in Nat : k <= n => u[k] = w[k]}
<1>1. 0 \in T
  BY DEF LinesUpTo
<1>2. ASSUME NEW k \in T  PROVE k + 1 \in T
  <2>1. SUFFICES ASSUME k + 1 <= n  PROVE u[k + 1] = w[k + 1]
    OBVIOUS
  <2>2. k + 1 \in 1..n /\ (k + 1) - 1 = k /\ k <= n
    BY <2>1
  <2>3. u[k] = w[k] /\ f[k + 1] = g[k + 1]
    BY <2>2
  <2>4. u[k + 1] = IF IsLine(f[k + 1]) THEN Append(u[k], f[k + 1]) ELSE u[k]
    BY <2>2 DEF LinesUpTo
  <2>5. w[k + 1] = IF IsLine(g[k + 1]) THEN Append(w[k], g[k + 1]) ELSE w[k]
    BY <2>2 DEF LinesUpTo
  <2>6. QED  BY <2>3, <2>4, <2>5
<1>3. T = Nat
  <2> HIDE DEF T
  <2>1. T \in SUBSET Nat
    BY DEF T
  <2>2. QED  BY <1>1, <1>2, <2>1, SetInduction
<1>4. QED  BY <1>3

(* LinesOf is the end of that recursion.                                   *)
LEMMA LinesAreCounted ==
  ASSUME NEW f \in Seq(Entries)
  PROVE  \E u \in [0..Len(f) -> Seq(Entries)] : LinesUpTo(f, Len(f), u) /\ LinesOf(f) = u[Len(f)]
<1> DEFINE n == Len(f)
           G == [k \in 1..n |-> [s \in Seq(Entries) |-> IF IsLine(f[k]) THEN Append(s, f[k]) ELSE s]]
           upTo(u) == [k \in 0..n |-> IF k = 0 THEN <<>>
                                      ELSE IF IsLine(f[k]) THEN Append(u[k - 1], f[k]) ELSE u[k - 1]]
           v == CHOOSE u : u = upTo(u)
<1>1. n \in Nat /\ <<>> \in Seq(Entries) /\ \A k \in 1..n : f[k] \in Entries
  BY EmptySeq, ElementOfSeq
<1>2. G \in [1..n -> [Seq(Entries) -> Seq(Entries)]]
  <2>1. ASSUME NEW k \in 1..n, NEW s \in Seq(Entries)
        PROVE  (IF IsLine(f[k]) THEN Append(s, f[k]) ELSE s) \in Seq(Entries)
    BY <1>1, AppendProperties
  <2>2. QED  BY <2>1
<1>3. PICK u \in [0..n -> Seq(Entries)] : u[0] = <<>> /\ \A k \in 1..n : u[k] = G[k][u[k - 1]]
  <2> DEFINE S == Seq(Entries)
             a == <<>>
  <2>1. a \in S /\ G \in [1..n -> [S -> S]]
    BY <1>1, <1>2
  <2> HIDE DEF G, n, S, a
  <2>2. \E u \in [0..n -> S] : u[0] = a /\ \A k \in 1..n : u[k] = G[k][u[k - 1]]
    <3>1. n \in Nat /\ a \in S /\ G \in [1..n -> [S -> S]]
      BY <1>1, <2>1
    <3>2. QED  BY ONLY <3>1, RecursionExists, SMT
  <2>3. QED  BY <2>2 DEF S, a
<1>4. ASSUME NEW k \in 1..n
      PROVE  u[k] = IF IsLine(f[k]) THEN Append(u[k - 1], f[k]) ELSE u[k - 1]
  <2>1. k - 1 \in 0..n
    BY <1>1
  <2>2. u[k - 1] \in Seq(Entries)
    BY <1>3, <2>1
  <2>3. QED  BY <1>3, <2>2
<1>5. LinesUpTo(f, n, u)
  BY <1>3, <1>4 DEF LinesUpTo
<1>6. u = upTo(u)
  <2>1. u = [k \in 0..n |-> u[k]]
    BY <1>3
  <2>2. \A k \in 0..n : k # 0 => k \in 1..n
    BY <1>1
  <2>3. QED  BY <1>3, <1>4, <2>1, <2>2
<1>7. v = upTo(v)
  <2> HIDE DEF upTo
  <2>1. \E w : w = upTo(w)
    BY <1>6
  <2>2. QED  BY <2>1
<1>8. LinesUpTo(f, n, v)
  <2> HIDE DEF v
  <2>1. 0 \in 0..n /\ \A k \in 1..n : k \in 0..n /\ k # 0
    BY <1>1
  <2>2. v[0] = <<>>
    BY <1>7, <2>1
  <2>3. \A k \in 1..n : v[k] = IF IsLine(f[k]) THEN Append(v[k - 1], f[k]) ELSE v[k - 1]
    BY <1>7, <2>1
  <2>4. QED  BY <2>2, <2>3 DEF LinesUpTo
<1>9. LinesOf(f) = v[n]
  BY Zenon DEF LinesOf
<1>10. v[n] = u[n]
  <2> HIDE DEF v, n
  <2>1. n \in 0..n
    BY <1>1
  <2>2. QED  BY <1>1, <1>5, <1>8, <2>1, LinesAgree
<1>11. QED  BY <1>3, <1>5, <1>9, <1>10

(* A file with nothing in it has no lines.                                 *)
LEMMA LinesOfNone == LinesOf(<<>>) = <<>>
<1>1. <<>> \in Seq(Entries) /\ Len(<<>>) = 0
  BY EmptySeq
<1>2. PICK u \in [0..0 -> Seq(Entries)] : LinesUpTo(<<>>, 0, u) /\ LinesOf(<<>>) = u[0]
  BY <1>1, LinesAreCounted
<1>3. QED  BY <1>2 DEF LinesUpTo

(* Writing an entry appends it to the lines if it is one.                  *)
LEMMA LinesOfMore ==
  ASSUME NEW f \in Seq(Entries), NEW e \in Entries
  PROVE  /\ LinesOf(f) \in Seq(Entries)
         /\ LinesOf(Append(f, e)) = IF IsLine(e) THEN Append(LinesOf(f), e) ELSE LinesOf(f)
<1> DEFINE g == Append(f, e)
           n == Len(f)
<1>1. /\ g \in Seq(Entries) /\ Len(g) = n + 1 /\ g[n + 1] = e
      /\ \A k \in 1..n : g[k] = f[k]
  BY AppendProperties
<1>2. n \in Nat
  OBVIOUS
<1> HIDE DEF g, n
<1>3. PICK u : u \in [0..n -> Seq(Entries)] /\ LinesUpTo(f, n, u) /\ LinesOf(f) = u[n]
  BY LinesAreCounted DEF n
<1>4. PICK w : LinesUpTo(g, n + 1, w) /\ LinesOf(g) = w[n + 1]
  BY <1>1, LinesAreCounted
<1>5. LinesUpTo(g, n, w)
  <2>1. \A k \in 1..n : k \in 1..(n + 1)
    BY <1>2
  <2>2. QED  BY <1>4, <2>1 DEF LinesUpTo
<1>6. w[n] = u[n]
  <2>1. n \in 0..n /\ \A k \in 1..n : f[k] = g[k]
    BY <1>1, <1>2
  <2>2. \A k \in 0..n : u[k] = w[k]
    <3>1. LinesUpTo(f, n, u) /\ LinesUpTo(g, n, w) /\ n \in Nat /\ \A k \in 1..n : f[k] = g[k]
      BY <1>2, <1>3, <1>5, <2>1
    <3>2. QED  BY <1>1, <3>1, LinesAgree
  <2>3. QED  BY <2>1, <2>2
<1>7. w[n + 1] = IF IsLine(e) THEN Append(w[n], e) ELSE w[n]
  <2>1. n + 1 \in 1..(n + 1) /\ (n + 1) - 1 = n
    BY <1>2
  <2>2. QED  BY <1>1, <1>4, <2>1 DEF LinesUpTo
<1>8. LinesOf(f) \in Seq(Entries)
  <2>1. n \in 0..n
    BY <1>2
  <2>2. QED  BY <1>3, <2>1
<1>9. QED  BY <1>3, <1>4, <1>6, <1>7, <1>8 DEF g

(* The recursion of DropsOf, likewise.                                     *)
DropsUpTo(f, n, u) ==
  /\ u[0] = 0
  /\ \A k \in 1..n : u[k] = IF f[k].is = "dropped" THEN u[k - 1] + f[k].n ELSE u[k - 1]

(* Files that agree up to an entry report as many dropped lines up to      *)
(* there.                                                                  *)
LEMMA DropsAgree ==
  ASSUME NEW n \in Nat, NEW f \in Seq(Entries), NEW g \in Seq(Entries), NEW u, NEW w,
         DropsUpTo(f, n, u), DropsUpTo(g, n, w), \A k \in 1..n : f[k] = g[k]
  PROVE  \A k \in 0..n : u[k] = w[k]
<1> DEFINE T == {k \in Nat : k <= n => u[k] = w[k]}
<1>1. 0 \in T
  BY DEF DropsUpTo
<1>2. ASSUME NEW k \in T  PROVE k + 1 \in T
  <2>1. SUFFICES ASSUME k + 1 <= n  PROVE u[k + 1] = w[k + 1]
    OBVIOUS
  <2>2. k + 1 \in 1..n /\ (k + 1) - 1 = k /\ k <= n
    BY <2>1
  <2>3. u[k] = w[k] /\ f[k + 1] = g[k + 1]
    BY <2>2
  <2>4. u[k + 1] = IF f[k + 1].is = "dropped" THEN u[k] + f[k + 1].n ELSE u[k]
    BY <2>2 DEF DropsUpTo
  <2>5. w[k + 1] = IF g[k + 1].is = "dropped" THEN w[k] + g[k + 1].n ELSE w[k]
    BY <2>2 DEF DropsUpTo
  <2>6. QED  BY <2>3, <2>4, <2>5
<1>3. T = Nat
  <2> HIDE DEF T
  <2>1. T \in SUBSET Nat
    BY DEF T
  <2>2. QED  BY <1>1, <1>2, <2>1, SetInduction
<1>4. QED  BY <1>3

(* DropsOf is the end of that recursion.                                   *)
LEMMA DropsAreCounted ==
  ASSUME NEW f \in Seq(Entries)
  PROVE  \E u : u \in [0..Len(f) -> Nat] /\ DropsUpTo(f, Len(f), u) /\ DropsOf(f) = u[Len(f)]
<1> DEFINE n == Len(f)
           G == [k \in 1..n |-> [s \in Nat |-> IF f[k].is = "dropped" THEN s + f[k].n ELSE s]]
           upTo(u) == [k \in 0..n |-> IF k = 0 THEN 0
                                      ELSE IF f[k].is = "dropped" THEN u[k - 1] + f[k].n ELSE u[k - 1]]
           v == CHOOSE u : u = upTo(u)
<1>1. n \in Nat /\ \A k \in 1..n : f[k] \in Entries /\ f[k].n \in Nat
  <2>1. n \in Nat /\ \A k \in 1..n : f[k] \in Entries
    BY ElementOfSeq
  <2>2. \A e \in Entries : e.n \in Nat
    BY DEF Entries
  <2>3. QED  BY <2>1, <2>2
<1>2. G \in [1..n -> [Nat -> Nat]]
  <2>1. ASSUME NEW k \in 1..n
        PROVE  [s \in Nat |-> IF f[k].is = "dropped" THEN s + f[k].n ELSE s] \in [Nat -> Nat]
    <3>1. PICK d \in Nat : d = f[k].n
      BY <1>1
    <3>2. \A s \in Nat : (IF f[k].is = "dropped" THEN s + d ELSE s) \in Nat
      OBVIOUS
    <3>3. QED  BY <3>1, <3>2
  <2>2. QED  BY <2>1
<1>3. PICK u : u \in [0..n -> Nat] /\ u[0] = 0 /\ \A k \in 1..n : u[k] = G[k][u[k - 1]]
  <2> DEFINE S == Nat
             a == 0
  <2>1. n \in Nat /\ a \in S /\ G \in [1..n -> [S -> S]]
    BY <1>1, <1>2
  <2> HIDE DEF G, n, S, a
  <2>2. \E u \in [0..n -> S] : u[0] = a /\ \A k \in 1..n : u[k] = G[k][u[k - 1]]
    BY ONLY <2>1, RecursionExists, SMT
  <2>3. QED  BY <2>2 DEF S, a
<1>4. ASSUME NEW k \in 1..n
      PROVE  u[k] = IF f[k].is = "dropped" THEN u[k - 1] + f[k].n ELSE u[k - 1]
  <2>1. k - 1 \in 0..n
    BY <1>1
  <2>2. u[k - 1] \in Nat
    BY <1>3, <2>1
  <2>3. QED  BY <1>3, <2>2
<1>5. DropsUpTo(f, n, u)
  BY <1>3, <1>4 DEF DropsUpTo
<1>6. u = upTo(u)
  <2>1. u = [k \in 0..n |-> u[k]]
    BY <1>3
  <2>2. \A k \in 0..n : k # 0 => k \in 1..n
    BY <1>1
  <2>3. QED  BY <1>3, <1>4, <2>1, <2>2
<1>7. v = upTo(v)
  <2> HIDE DEF upTo
  <2>1. \E w : w = upTo(w)
    BY <1>6
  <2>2. QED  BY <2>1
<1>8. DropsUpTo(f, n, v)
  <2> HIDE DEF v
  <2>1. 0 \in 0..n /\ \A k \in 1..n : k \in 0..n /\ k # 0
    BY <1>1
  <2>2. v[0] = 0
    BY <1>7, <2>1
  <2>3. \A k \in 1..n : v[k] = IF f[k].is = "dropped" THEN v[k - 1] + f[k].n ELSE v[k - 1]
    BY <1>7, <2>1
  <2>4. QED  BY <2>2, <2>3 DEF DropsUpTo
<1>9. DropsOf(f) = v[n]
  BY Zenon DEF DropsOf
<1>10. v[n] = u[n]
  <2> HIDE DEF v, n
  <2>1. n \in 0..n
    BY <1>1
  <2>2. QED  BY <1>1, <1>5, <1>8, <2>1, DropsAgree
<1>11. QED  BY <1>3, <1>5, <1>9, <1>10

(* A file with nothing in it reports no dropped line, and a warning adds   *)
(* its count.                                                              *)
LEMMA DropsOfNone == DropsOf(<<>>) = 0
<1>1. <<>> \in Seq(Entries) /\ Len(<<>>) = 0
  BY EmptySeq
<1>2. PICK u : DropsUpTo(<<>>, 0, u) /\ DropsOf(<<>>) = u[0]
  BY <1>1, DropsAreCounted
<1>3. QED  BY <1>2 DEF DropsUpTo

(* A warning more in the file adds its count to the drops reported.        *)
LEMMA DropsOfMore ==
  ASSUME NEW f \in Seq(Entries), NEW e \in Entries
  PROVE  /\ DropsOf(f) \in Nat
         /\ DropsOf(Append(f, e)) = IF e.is = "dropped" THEN DropsOf(f) + e.n ELSE DropsOf(f)
<1> DEFINE g == Append(f, e)
           n == Len(f)
<1>1. /\ g \in Seq(Entries) /\ Len(g) = n + 1 /\ g[n + 1] = e
      /\ \A k \in 1..n : g[k] = f[k]
  BY AppendProperties
<1>2. n \in Nat
  OBVIOUS
<1> HIDE DEF g, n
<1>3. PICK u : u \in [0..n -> Nat] /\ DropsUpTo(f, n, u) /\ DropsOf(f) = u[n]
  BY DropsAreCounted DEF n
<1>4. PICK w : DropsUpTo(g, n + 1, w) /\ DropsOf(g) = w[n + 1]
  BY <1>1, DropsAreCounted
<1>5. DropsUpTo(g, n, w)
  <2>1. \A k \in 1..n : k \in 1..(n + 1)
    BY <1>2
  <2>2. QED  BY <1>4, <2>1 DEF DropsUpTo
<1>6. w[n] = u[n]
  <2>1. n \in 0..n /\ \A k \in 1..n : f[k] = g[k]
    BY <1>1, <1>2
  <2>2. \A k \in 0..n : u[k] = w[k]
    <3>1. DropsUpTo(f, n, u) /\ DropsUpTo(g, n, w) /\ n \in Nat /\ \A k \in 1..n : f[k] = g[k]
      BY <1>2, <1>3, <1>5, <2>1
    <3>2. QED  BY <1>1, <3>1, DropsAgree
  <2>3. QED  BY <2>1, <2>2
<1>7. w[n + 1] = IF e.is = "dropped" THEN w[n] + e.n ELSE w[n]
  <2>1. n + 1 \in 1..(n + 1) /\ (n + 1) - 1 = n
    BY <1>2
  <2>2. QED  BY <1>1, <1>4, <2>1 DEF DropsUpTo
<1>8. DropsOf(f) \in Nat
  <2>1. n \in 0..n
    BY <1>2
  <2>2. QED  BY <1>3, <2>1
<1>9. QED  BY <1>3, <1>4, <1>6, <1>7, <1>8 DEF g
-----------------------------------------------------------------------------
(* The numbers of lines as entries of the file.                            *)
EntriesOf(s) == [i \in 1..Len(s) |-> Entry(s[i])]

(* They are entries, in the order of the lines.                            *)
LEMMA EntriesTyped ==
  ASSUME NEW s \in Seq(Nat)
  PROVE  EntriesOf(s) \in Seq(Entries) /\ Len(EntriesOf(s)) = Len(s)
         /\ \A i \in 1..Len(s) : EntriesOf(s)[i] = Entry(s[i])
<1>1. Len(s) \in Nat /\ \A i \in 1..Len(s) : Entry(s[i]) \in Entries
  BY ElementOfSeq DEF Entry, Entries
<1>2. EntriesOf(s) \in [1..Len(s) -> Entries] /\ \A i \in 1..Len(s) : EntriesOf(s)[i] = Entry(s[i])
  BY <1>1 DEF EntriesOf
<1>3. EntriesOf(s) \in Seq(Entries)
  BY <1>1, <1>2, SeqDef
<1>4. QED  BY <1>1, <1>2, <1>3, LenProperties

(* A line put last is the last entry; the line taken first is the first.   *)
LEMMA EntriesAppend ==
  ASSUME NEW s \in Seq(Nat), NEW n \in Nat
  PROVE  EntriesOf(Append(s, n)) = Append(EntriesOf(s), Entry(n))
<1> DEFINE t == Append(s, n)
           a == EntriesOf(s)
           b == EntriesOf(t)
           e == Entry(n)
           k == Len(s)
<1>1. t \in Seq(Nat) /\ Len(t) = k + 1 /\ t[k + 1] = n /\ \A i \in 1..k : t[i] = s[i]
  BY AppendProperties
<1>2. a \in Seq(Entries) /\ Len(a) = k /\ \A i \in 1..k : a[i] = Entry(s[i])
  BY EntriesTyped
<1> HIDE DEF t, a
<1>3. b \in Seq(Entries) /\ Len(b) = k + 1 /\ \A i \in 1..(k + 1) : b[i] = Entry(t[i])
  BY <1>1, EntriesTyped
<1>4. e \in Entries /\ k \in Nat
  BY DEF Entry, Entries
<1> HIDE DEF b, e, k
<1>5. /\ Append(a, e) \in Seq(Entries) /\ Len(Append(a, e)) = k + 1
      /\ (\A i \in 1..k : Append(a, e)[i] = a[i]) /\ Append(a, e)[k + 1] = e
  BY <1>2, <1>4, AppendProperties
<1>6. ASSUME NEW i \in 1..(k + 1)  PROVE b[i] = Append(a, e)[i]
  <2>1. CASE i = k + 1
    BY <1>1, <1>3, <1>5, <2>1 DEF e
  <2>2. CASE i # k + 1
    <3>1. i \in 1..k
      BY <1>4, <2>2
    <3>2. QED  BY <1>1, <1>2, <1>3, <1>5, <3>1
  <2>3. QED  BY <2>1, <2>2
<1>7. b = Append(a, e)
  BY <1>3, <1>5, <1>6, SeqEqual
<1>8. QED  BY <1>7 DEF a, b, t, e
-----------------------------------------------------------------------------
(* The entries of the queued lines, as that of the first and those of the  *)
(* rest.                                                                   *)
LEMMA EntriesHead ==
  ASSUME NEW s \in Seq(Nat), s # <<>>
  PROVE  /\ Entry(Head(s)) \in Entries /\ EntriesOf(Tail(s)) \in Seq(Entries)
         /\ EntriesOf(s) = <<Entry(Head(s))>> \o EntriesOf(Tail(s))
<1> DEFINE t == Tail(s)
           e == Entry(Head(s))
           a == EntriesOf(s)
           b == EntriesOf(t)
           k == Len(s)
<1>1. /\ Head(s) \in Nat /\ Head(s) = s[1] /\ t \in Seq(Nat) /\ Len(t) = k - 1
      /\ \A i \in 1..Len(t) : t[i] = s[i + 1]
  BY HeadTailProperties
<1>2. k \in Nat \ {0}
  BY EmptySeq
<1>3. e \in Entries /\ e = Entry(s[1])
  BY <1>1 DEF Entry, Entries
<1>4. a \in Seq(Entries) /\ Len(a) = k /\ \A i \in 1..k : a[i] = Entry(s[i])
  BY EntriesTyped
<1> HIDE DEF t, a, e
<1>5. b \in Seq(Entries) /\ Len(b) = k - 1 /\ \A i \in 1..(k - 1) : b[i] = Entry(t[i])
  BY <1>1, EntriesTyped
<1> HIDE DEF b, k
<1>6. <<e>> \in Seq(Entries) /\ Len(<<e>>) = 1 /\ <<e>>[1] = e
  BY <1>3
<1>7. /\ <<e>> \o b \in Seq(Entries) /\ Len(<<e>> \o b) = k
      /\ \A i \in 1..k : (<<e>> \o b)[i] = IF i <= 1 THEN <<e>>[i] ELSE b[i - 1]
  BY <1>2, <1>5, <1>6, ConcatProperties
<1>8. ASSUME NEW i \in 1..k  PROVE a[i] = (<<e>> \o b)[i]
  <2>1. CASE i = 1
    BY <1>3, <1>4, <1>6, <1>7, <2>1
  <2>2. CASE i # 1
    <3>1. i - 1 \in 1..(k - 1) /\ (i - 1) + 1 = i /\ ~(i <= 1)
      BY <1>2, <2>2
    <3>2. QED  BY <1>1, <1>4, <1>5, <1>7, <3>1
  <2>3. QED  BY <2>1, <2>2
<1>9. a = <<e>> \o b
  BY <1>4, <1>7, <1>8, SeqEqual
<1>10. QED  BY <1>3, <1>5, <1>9 DEF a, b, e, t

(* What is in the file, in the writer's hand and in the queue is what was  *)
(* accepted, and every refused line is counted somewhere; a count is in    *)
(* the writer's hand only while it warns.                                  *)
Counted == started => Reported + overflow + dropped = lost
FileInv == WrittenInOrder /\ Counted /\ (writer # "warn" => overflow = 0)

(* The types of what FileInv speaks of.                                    *)
LEMMA FileTypes ==
  ASSUME LoggerTypeOK
  PROVE  /\ file \in Seq(Entries) /\ Written \in Seq(Entries) /\ InHand \in Seq(Entries)
         /\ Queued \in Seq(Entries) /\ Accepted \in Seq(Entries)
         /\ Queued = EntriesOf(lines) /\ Accepted = EntriesOf(accepted)
         /\ Reported \in Nat
<1>1. file \in Seq(Entries) /\ lines \in Seq(Nat) /\ accepted \in Seq(Nat) /\ taken \in Nat
  BY LinesType DEF LoggerTypeOK, Entries
<1>2. Entry(0) \in Entries /\ Entry(taken) \in Entries
  BY <1>1 DEF Entry, Entries
<1>3. Written \in Seq(Entries) /\ Reported \in Nat
  BY <1>1, <1>2, LinesOfMore, DropsOfMore DEF Written, Reported
<1>4. InHand \in Seq(Entries)
  BY <1>2 DEF InHand
<1>5. Queued = EntriesOf(lines) /\ Accepted = EntriesOf(accepted)
  BY DEF Queued, Accepted, EntriesOf
<1>6. QED  BY <1>1, <1>3, <1>4, <1>5, EntriesTyped

(* A line that is put at the end of the queue comes after all others.      *)
LEMMA PutKeepsFile ==
  ASSUME LoggerInv, FileInv, NEW t \in Thread, LogPut(t), ~QueueFull
  PROVE  FileInv'
<1>1. /\ lines' = Append(lines, calls') /\ accepted' = Append(accepted, calls') /\ calls' \in Nat
      /\ Wake /\ UNCHANGED <<started, taken, overflow, file, dropped, lost>>
  <2>1. lines' = Append(lines, calls')
    BY LinesPut DEF LoggerInv
  <2>2. QED  BY <2>1 DEF LogPut, outVars, LoggerInv, LoggerTypeOK
<1>2. lines \in Seq(Nat) /\ accepted \in Seq(Nat)
  BY LinesType DEF LoggerInv, LoggerTypeOK
<1> DEFINE e == Entry(calls')
<1>3. e \in Entries
  BY <1>1 DEF Entry, Entries
<1>4. InHand' = InHand /\ Written' = Written /\ Reported' = Reported
  BY <1>1 DEF Wake, InHand, Written, Reported
<1>5. Queued' = Append(Queued, e) /\ Accepted' = Append(Accepted, e)
  <2>1. Queued' = EntriesOf(Append(lines, calls')) /\ Accepted' = EntriesOf(Append(accepted, calls'))
    BY <1>1 DEF Queued, Accepted, EntriesOf
  <2>2. Queued = EntriesOf(lines) /\ Accepted = EntriesOf(accepted)
    BY DEF Queued, Accepted, EntriesOf
  <2>3. /\ EntriesOf(Append(lines, calls')) = Append(EntriesOf(lines), e)
        /\ EntriesOf(Append(accepted, calls')) = Append(EntriesOf(accepted), e)
    BY <1>1, <1>2, EntriesAppend
  <2>4. QED  BY <2>1, <2>2, <2>3
<1>6. /\ Written \in Seq(Entries) /\ InHand \in Seq(Entries) /\ Queued \in Seq(Entries)
      /\ Accepted \in Seq(Entries)
  BY FileTypes DEF LoggerInv
<1> HIDE DEF e
<1>7. (Written \o InHand) \o Append(Queued, e) = Append((Written \o InHand) \o Queued, e)
  <2>1. PICK h : h \in Seq(Entries) /\ h = Written \o InHand
    BY <1>6, ConcatProperties
  <2>2. <<e>> \in Seq(Entries) /\ Append(Queued, e) = Queued \o <<e>>
    BY <1>3, <1>6, AppendIsConcat
  <2>3. h \o (Queued \o <<e>>) = (h \o Queued) \o <<e>>
    BY <1>6, <2>1, <2>2, ConcatAssociative
  <2>4. h \o Queued \in Seq(Entries)
    BY <1>6, <2>1, ConcatProperties
  <2>5. Append(h \o Queued, e) = (h \o Queued) \o <<e>>
    BY <1>3, <2>4, AppendIsConcat
  <2>6. QED  BY <2>1, <2>2, <2>3, <2>5
<1>8. WrittenInOrder'
  BY <1>1, <1>4, <1>5, <1>7 DEF FileInv, WrittenInOrder
<1>9. Counted' /\ (writer' # "warn" => overflow' = 0)
  BY <1>1, <1>4 DEF FileInv, Counted, Wake
<1>10. QED  BY <1>8, <1>9 DEF FileInv

(* The writer takes the line that comes next in the file.                  *)
LEMMA TakeKeepsFile ==
  ASSUME LoggerInv, FileInv, WriterTake
  PROVE  FileInv'
<1>1. /\ lines # <<>> /\ taken' = Head(lines) /\ lines' = Tail(lines)
      /\ overflow' = dropped /\ dropped' = 0 /\ writer' = (IF dropped > 0 THEN "warn" ELSE "write")
      /\ writer \in {"top", "woken"} /\ UNCHANGED <<started, file, accepted, lost>>
  <2>1. lines # <<>> /\ taken' = Head(lines) /\ lines' = Tail(lines)
    BY LinesTake DEF LoggerInv
  <2>2. QED  BY <2>1 DEF WriterTake, outVars, callVars
<1>2. lines \in Seq(Nat) /\ dropped \in Nat /\ overflow = 0
  BY <1>1, LinesType DEF LoggerInv, LoggerTypeOK, FileInv
<1> DEFINE e == Entry(Head(lines))
           q == EntriesOf(Tail(lines))
<1>3. Queued = <<e>> \o q /\ e \in Entries /\ q \in Seq(Entries)
  BY <1>1, <1>2, EntriesHead, FileTypes DEF LoggerInv
<1>4. InHand = <<>> /\ InHand' = <<e>>
  BY <1>1 DEF InHand
<1>5. Queued' = q /\ Accepted' = Accepted /\ Written' = Written /\ Reported' = Reported
  BY <1>1 DEF Queued, Accepted, Written, Reported, EntriesOf
<1>6. Written \in Seq(Entries) /\ Queued \in Seq(Entries) /\ Reported \in Nat
  BY FileTypes DEF LoggerInv
<1> HIDE DEF e, q
<1>7. (Written \o <<e>>) \o q = Written \o Queued /\ Written \o <<>> = Written
  <2>1. <<e>> \in Seq(Entries)
    BY <1>3
  <2>2. (Written \o <<e>>) \o q = Written \o (<<e>> \o q)
    BY <1>3, <1>6, <2>1, ConcatAssociative
  <2>3. QED  BY <1>3, <1>6, <2>2, ConcatEmptySeq
<1>8. WrittenInOrder'
  BY <1>1, <1>4, <1>5, <1>7 DEF FileInv, WrittenInOrder
<1>9. Counted' /\ (writer' # "warn" => overflow' = 0)
  BY <1>1, <1>2, <1>5, <1>6 DEF FileInv, Counted
<1>10. QED  BY <1>8, <1>9 DEF FileInv

(* The warning counts the lines it stands for.                             *)
LEMMA WarnKeepsFile ==
  ASSUME LoggerInv, FileInv, WriterWarn
  PROVE  FileInv'
<1> DEFINE e == Overflow(overflow)
<1>1. /\ file' = Append(file, e) /\ overflow' = 0 /\ writer = "warn" /\ writer' = "write"
      /\ UNCHANGED <<started, lines, dropped, taken, accepted, lost>>
  BY LinesStill DEF WriterWarn, Write, queueVars, callVars
<1>2. e \in Entries /\ ~IsLine(e) /\ e.is = "dropped" /\ e.n = overflow /\ overflow \in Nat
  BY DEF Overflow, Entries, IsLine, LoggerInv, LoggerTypeOK
<1>3. file \in Seq(Entries) /\ Reported \in Nat /\ dropped \in Nat
  BY FileTypes DEF LoggerInv, LoggerTypeOK
<1> HIDE DEF e
<1>4. LinesOf(Append(file, e)) = LinesOf(file) /\ DropsOf(Append(file, e)) = DropsOf(file) + overflow
  BY <1>2, <1>3, LinesOfMore, DropsOfMore
<1>5. Written' = Written /\ Reported' = Reported + overflow
  BY <1>1, <1>4 DEF Written, Reported
<1>6. InHand' = InHand /\ Queued' = Queued /\ Accepted' = Accepted
  BY <1>1 DEF InHand, Queued, Accepted
<1>7. WrittenInOrder'
  BY <1>1, <1>5, <1>6 DEF FileInv, WrittenInOrder
<1>8. Counted'
  BY <1>1, <1>2, <1>3, <1>5 DEF FileInv, Counted
<1>9. QED  BY <1>1, <1>7, <1>8 DEF FileInv

(* The line in the writer's hand goes to the end of the file.              *)
LEMMA WriteKeepsFile ==
  ASSUME LoggerInv, FileInv, WriterWrite
  PROVE  FileInv'
<1> DEFINE e == Entry(taken)
<1>1. /\ file' = Append(file, e) /\ writer = "write" /\ writer' = "top"
      /\ UNCHANGED <<started, lines, dropped, overflow, accepted, lost>>
  BY LinesStill DEF WriterWrite, Write, queueVars, callVars
<1>2. e \in Entries /\ IsLine(e) /\ e.is # "dropped"
  BY DEF Entry, Entries, IsLine, LoggerInv, LoggerTypeOK
<1>3. file \in Seq(Entries) /\ Written \in Seq(Entries)
  BY FileTypes DEF LoggerInv
<1>4. InHand = <<e>> /\ InHand' = <<>> /\ Queued' = Queued /\ Accepted' = Accepted
  BY <1>1 DEF InHand, Queued, Accepted
<1> HIDE DEF e
<1>5. LinesOf(Append(file, e)) = Append(LinesOf(file), e) /\ DropsOf(Append(file, e)) = DropsOf(file)
  BY <1>2, <1>3, LinesOfMore, DropsOfMore
<1>6. Written' = Written \o <<e>> /\ Reported' = Reported
  <2>1. Written' = Append(Written, e) /\ Reported' = Reported
    BY <1>1, <1>5 DEF Written, Reported
  <2>2. QED  BY <1>2, <1>3, <2>1, AppendIsConcat
<1>7. Written' \o InHand' = Written \o InHand
  <2>1. Written \o <<e>> \in Seq(Entries)
    <3>1. <<e>> \in Seq(Entries)
      BY <1>2
    <3>2. QED  BY <1>3, <3>1, ConcatProperties
  <2>2. (Written \o <<e>>) \o <<>> = Written \o <<e>>
    BY <2>1, ConcatEmptySeq
  <2>3. QED  BY <1>4, <1>6, <2>2
<1>8. WrittenInOrder'
  BY <1>1, <1>4, <1>7 DEF FileInv, WrittenInOrder
<1>9. Counted' /\ (writer' # "warn" => overflow' = 0)
  BY <1>1, <1>6 DEF FileInv, Counted
<1>10. QED  BY <1>8, <1>9 DEF FileInv

(* Every step of the logger keeps it.                                      *)
LEMMA FileStep ==
  ASSUME LoggerInv, FileInv, [LoggerStep]_loggerVars
  PROVE  FileInv'
<1>1. ASSUME UNCHANGED <<started, file, lines, accepted, taken, overflow, dropped, lost>>,
             writer' \in {"warn", "write"} <=> writer \in {"warn", "write"},
             writer' # "warn" => overflow = 0
      PROVE  FileInv'
  <2>1. /\ Written' = Written /\ Reported' = Reported /\ InHand' = InHand /\ Queued' = Queued
        /\ Accepted' = Accepted
    BY <1>1 DEF Written, Reported, InHand, Queued, Accepted
  <2>2. WrittenInOrder' /\ Counted'
    BY <1>1, <2>1 DEF FileInv, WrittenInOrder, Counted
  <2>3. QED  BY <1>1, <2>2 DEF FileInv
<1>2. ASSUME NEW t \in Thread, LogPut(t)  PROVE FileInv'
  <2>1. CASE QueueFull
    <3>1. dropped' = dropped + 1 /\ lost' = lost + 1
          /\ UNCHANGED <<started, file, lines, accepted, taken, overflow, writer>>
      BY <1>2, <2>1, LinesStill DEF LogPut, CountDrop, outVars
    <3>2. /\ Written' = Written /\ Reported' = Reported /\ InHand' = InHand /\ Queued' = Queued
          /\ Accepted' = Accepted
      BY <3>1 DEF Written, Reported, InHand, Queued, Accepted
    <3>3. Reported \in Nat /\ dropped \in Nat /\ overflow \in Nat /\ lost \in Nat
      BY FileTypes DEF LoggerInv, LoggerTypeOK
    <3>4. Counted'
      BY <3>1, <3>2, <3>3 DEF FileInv, Counted
    <3>5. WrittenInOrder' /\ (writer' # "warn" => overflow' = 0)
      BY <3>1, <3>2 DEF FileInv, WrittenInOrder
    <3>6. QED  BY <3>4, <3>5 DEF FileInv
  <2>2. QED  BY <1>2, <2>1, PutKeepsFile
<1>3. ASSUME NEW t \in Thread, LogEnter(t)  PROVE FileInv'
  BY <1>1, <1>3, LinesStill DEF LogEnter, queueVars, writerVars, outVars, FileInv
<1>4. CASE WriterLeave \/ WriterWait \/ WriterWakesUp \/ UNCHANGED loggerVars
  BY <1>1, <1>4, LinesStill DEF WriterLeave, WriterWait, WriterWakesUp, loggerVars, queueVars,
     writerVars, outVars, callVars, FileInv
<1>5. CASE StopAsk
  BY <1>1, <1>5, LinesStill DEF StopAsk, StopSignal, Wake, outVars, callVars, FileInv
<1>6. CASE StopJoin
  BY <1>6 DEF StopJoin, writerVars, FileInv, WrittenInOrder, Counted
<1>7. QED
  BY <1>2, <1>3, <1>4, <1>5, <1>6, TakeKeepsFile, WarnKeepsFile, WriteKeepsFile
     DEF LoggerStep, LogMsg, LoggerThread

(* The empty file.                                                         *)
LEMMA FileInit ==
  ASSUME LoggerInit
  PROVE  FileInv
<1>1. file = <<>> /\ lines = <<>> /\ accepted = <<>> /\ writer = "top" /\ overflow = 0 /\ dropped = 0
      /\ lost = 0
  BY LoggerInitInv, LinesType DEF LoggerInit, LoggerInv
<1>2. Written = <<>> /\ Reported = 0
  BY <1>1, LinesOfNone, DropsOfNone DEF Written, Reported
<1>3. Queued = <<>> /\ Accepted = <<>> /\ InHand = <<>>
  BY <1>1 DEF Queued, Accepted, InHand
<1>4. <<>> \o <<>> \o <<>> = <<>>
  <2>1. <<>> \in Seq(Entries)
    BY EmptySeq
  <2>2. QED  BY <2>1, ConcatEmptySeq
<1>5. QED  BY <1>1, <1>2, <1>3, <1>4 DEF FileInv, WrittenInOrder, Counted
-----------------------------------------------------------------------------
(* A file without lines under way is complete.                             *)
LEMMA WriterEmpty ==
  ASSUME LoggerInv, FileInv, started, writer \notin {"warn", "write"}, count = 0
  PROVE  Written = Accepted /\ Reported = lost
<1>1. lines = <<>> /\ dropped = 0 /\ overflow = 0
  <2>1. dropped \in Nat /\ ~(dropped > 0) /\ overflow = 0
    BY DEF LoggerInv, LoggerTypeOK, WriterInv, FileInv
  <2>2. QED  BY <2>1, LinesType DEF LoggerInv
<1>2. Written = Accepted
  <2>1. Queued = <<>> /\ InHand = <<>> /\ Written \in Seq(Entries)
    BY <1>1, FileTypes, EmptySeq DEF Queued, InHand, LoggerInv
  <2>2. (Written \o <<>>) \o <<>> = Written
    BY <2>1, ConcatEmptySeq
  <2>3. QED  BY <2>1, <2>2 DEF FileInv, WrittenInOrder
<1>3. Reported \in Nat
  BY FileTypes DEF LoggerInv
<1>4. QED  BY <1>1, <1>2, <1>3 DEF FileInv, Counted

(* The writer leaves only when logger_stop asked it to.  Every call of     *)
(* log_msg on a running logger put its line in the queue or counted it.    *)
(* When every thread is joined, main calls logger_stop when nobody is left *)
(* to log a line.                                                          *)
EndInv ==
  /\ stopping => main = "stopping"
  /\ writer = "gone" /\ started => stopping
  /\ main = "ended" => ~started
  /\ started => calls = Len(accepted) + lost
  /\ born \subseteq marked => (writer = "gone" /\ started => count = 0)
  /\ JoinedLogsKept

(* A call of log_msg on the running logger is counted.                     *)
LEMMA CallsCounted ==
  ASSUME LoggerTypeOK, EndInv, started, NEW t \in Thread, LogEnter(t) \/ LogPut(t)
  PROVE  calls' = Len(accepted') + lost'
<1>1. calls \in Nat /\ calls = Len(accepted) + lost /\ accepted \in Seq(Nat) /\ lost \in Nat
  BY DEF EndInv, LoggerTypeOK
<1>2. CASE LogEnter(t)
  BY <1>1, <1>2 DEF LogEnter
<1>3. CASE LogPut(t) /\ QueueFull
  BY <1>1, <1>3 DEF LogPut
<1>4. CASE LogPut(t) /\ ~QueueFull
  <2>1. calls' = calls + 1 /\ accepted' = Append(accepted, calls') /\ lost' = lost
    BY <1>4 DEF LogPut
  <2>2. Len(accepted') = Len(accepted) + 1 /\ Len(accepted) \in Nat
    BY <1>1, <2>1, AppendProperties
  <2>3. QED  BY <1>1, <2>1, <2>2
<1>5. QED  BY <1>2, <1>3, <1>4

(* A step of log_msg, by a thread of the server or by main's last line:    *)
(* when all threads are joined it comes before logger_stop.                *)
LEMMA LoggingKeepsEnd ==
  ASSUME LoggerInv, OrderInv, EndInv, NEW t \in Thread, LogEnter(t) \/ LogPut(t),
         UNCHANGED <<born, marked>>,
         \/ main' = main /\ (born \subseteq marked => main \notin {"stopping", "ended"})
         \/ main = "destroyed" /\ main' = "stopping"
  PROVE  EndInv'
<1>1. /\ UNCHANGED <<started, stopping>> /\ (writer' = "gone" => writer = "gone")
  <2>1. CASE LogEnter(t)
    BY <2>1 DEF LogEnter, queueVars, writerVars
  <2>2. CASE LogPut(t)
    <3>1. UNCHANGED <<started, stopping>> /\ (Wake \/ UNCHANGED writer)
      BY <2>2 DEF LogPut
    <3>2. QED  BY <3>1 DEF Wake
  <2>3. QED  BY <2>1, <2>2
<1>2. started' => calls' = Len(accepted') + lost'
  BY <1>1, CallsCounted DEF LoggerInv
<1>3. stopping' => main' = "stopping"
  BY <1>1 DEF EndInv
<1>4. main' = "ended" => ~started'
  BY <1>1 DEF EndInv
<1>5. CASE born \subseteq marked
  <2>1. writer # "gone" \/ ~started
    BY <1>5 DEF EndInv
  <2>2. main' # "ended"
    BY <1>5
  <2>3. QED  BY <1>1, <1>2, <1>3, <1>4, <2>1, <2>2 DEF EndInv, JoinedLogsKept, NoLostLogs
<1>6. CASE ~(born \subseteq marked)
  BY <1>1, <1>2, <1>3, <1>4, <1>6 DEF EndInv, JoinedLogsKept
<1>7. QED  BY <1>5, <1>6

(* What does not log, write or stop anything.                              *)
LEMMA QuietKeepsEnd ==
  ASSUME EndInv, UNCHANGED loggerVars,
         \/ UNCHANGED <<main, born, marked>>
         \/ main \notin {"stopping", "ended"} /\ main' \notin {"stopping", "ended"}
  PROVE  EndInv'
<1>1. UNCHANGED <<stopping, writer, started, count, calls, accepted, lost>>
  BY DEF loggerVars, queueVars, slotVars, writerVars, callVars
<1>2. Written' = Written /\ Accepted' = Accepted /\ Reported' = Reported
  BY DEF loggerVars, outVars, callVars, Written, Accepted, Reported
<1>3. CASE UNCHANGED <<main, born, marked>>
  BY <1>1, <1>2, <1>3 DEF EndInv, JoinedLogsKept, NoLostLogs
<1>4. CASE main \notin {"stopping", "ended"} /\ main' \notin {"stopping", "ended"}
  BY <1>1, <1>4 DEF EndInv, JoinedLogsKept, NoLostLogs
<1>5. QED  BY <1>3, <1>4

(* When logger_stop has joined the writer and nobody else was left to log, *)
(* queue, hand and counters are empty: the file has it all.                *)
LEMMA JoinKeepsEnd ==
  ASSUME LoggerInv, FileInv, EndInv, StopJoin, main = "stopping", main' = "ended",
         UNCHANGED <<born, marked>>
  PROVE  EndInv'
<1>1. /\ started /\ writer = "gone" /\ ~started' /\ ~stopping'
      /\ UNCHANGED <<writer, file, calls, accepted, lost>>
  BY DEF StopJoin, writerVars, callVars
<1>2. Written' = Written /\ Accepted' = Accepted /\ Reported' = Reported
  BY <1>1 DEF Written, Accepted, Reported
<1>3. ASSUME born \subseteq marked  PROVE NoLostLogs'
  <2>1. count = 0 /\ calls = Len(accepted) + lost
    BY <1>1, <1>3 DEF EndInv
  <2>2. Written = Accepted /\ Reported = lost
    BY <1>1, <2>1, WriterEmpty
  <2>3. QED  BY <1>1, <1>2, <2>1, <2>2 DEF NoLostLogs
<1>4. QED  BY <1>1, <1>3 DEF EndInv, JoinedLogsKept

(* Every step of the server keeps the end in sight.                        *)
LEMMA EndStep ==
  ASSUME LoggerInv, FileInv, ServerOK, OrderInv, EndInv, [Next]_vars
  PROVE  EndInv'
<1> USE ServicesAssumption
<1>1. CASE ReloadThread
  <2>1. Reloader \in born /\ reloader # "gone" /\ UNCHANGED <<main, born, marked>>
    BY <1>1, ReloaderNotJoined
  <2>2. born \subseteq marked => ~CleanedUp
    BY <2>1 DEF OrderInv, AllJoined, ThreadsJoined
  <2>3. CASE UNCHANGED loggerVars
    BY <2>1, <2>3, QuietKeepsEnd
  <2>4. CASE LogEnter(Reloader) \/ LogPut(Reloader)
    BY <2>1, <2>2, <2>4, LoggingKeepsEnd DEF CleanedUp
  <2>5. QED  BY <1>1, <2>3, <2>4 DEF ReloadThread, Logging
<1>2. ASSUME NEW r \in Reader, Worker(r)  PROVE EndInv'
  <2>1. reader[r] # "gone" /\ UNCHANGED <<main, born, marked>>
    BY <1>2, WorkerNotJoined
  <2>2. ~CleanedUp
    BY <2>1 DEF OrderInv, AllJoined, WorkersJoined
  <2>3. CASE UNCHANGED loggerVars
    BY <2>1, <2>3, QuietKeepsEnd
  <2>4. CASE LogEnter(r) \/ LogPut(r)
    BY <2>1, <2>2, <2>4, LoggingKeepsEnd DEF CleanedUp
  <2>5. QED  BY <1>2, <2>3, <2>4 DEF Worker, Logging
<1>3. CASE AcceptorThread \/ Accept
  <2>1. Acceptor \in born /\ acceptor # "gone" /\ UNCHANGED <<main, born, marked>>
    BY <1>3, AcceptorNotJoined
  <2>2. born \subseteq marked => ~CleanedUp
    BY <2>1 DEF OrderInv, AllJoined, ThreadsJoined
  <2>3. CASE UNCHANGED loggerVars
    BY <2>1, <2>3, QuietKeepsEnd
  <2>4. CASE LogEnter(Acceptor) \/ LogPut(Acceptor)
    BY <2>1, <2>2, <2>4, LoggingKeepsEnd DEF CleanedUp
  <2>5. QED  BY <1>3, <2>3, <2>4 DEF AcceptorThread, Accept, Logging
<1>4. CASE StartThreads \/ Destroy
  <2>1. UNCHANGED loggerVars /\ main \notin {"stopping", "ended"} /\ main' \notin {"stopping", "ended"}
    BY <1>4 DEF StartThreads, Create, MarkStarted, Destroy
  <2>2. QED  BY <2>1, QuietKeepsEnd
<1>5. CASE SayGoodbye
  <2>1. /\ LogEnter(Main) \/ LogPut(Main)
        /\ main = "destroyed" /\ (main' = main \/ main' = "stopping")
        /\ UNCHANGED <<born, marked>>
    BY <1>5 DEF SayGoodbye, Logging, startVars
  <2>2. QED  BY <2>1, LoggingKeepsEnd
<1>6. CASE StopLogger
  <2>1. UNCHANGED <<born, marked>> /\ main = "stopping"
    BY <1>6 DEF StopLogger, startVars
  <2>2. CASE StopAsk /\ UNCHANGED main
    <3>1. /\ ~stopping /\ started /\ stopping' /\ main' = main
          /\ UNCHANGED <<started, file, calls, accepted, lost>>
          /\ writer' = "gone" => writer = "gone"
      BY <2>2 DEF StopAsk, StopSignal, Wake, outVars, callVars
    <3>2. QED  BY <2>1, <3>1 DEF EndInv, JoinedLogsKept, NoLostLogs
  <2>3. CASE StopJoin /\ main' = "ended"
    BY <2>1, <2>3, JoinKeepsEnd
  <2>4. QED  BY <1>6, <2>2, <2>3 DEF StopLogger
<1>7. CASE (LoggerThread \/ WriterWakesUp) /\ UNCHANGED manifestVars /\ Quiet
  <2>1. main # "ended" /\ started /\ UNCHANGED <<main, born, marked>>
    BY <1>7 DEF LoggerThread, WriterTake, WriterWarn, WriterWrite, WriterLeave, WriterWait,
       WriterWakesUp, LoggerInv, WriterInv, EndInv, Quiet, startVars
  <2>2. UNCHANGED <<started, stopping, calls, accepted, lost>>
    BY <1>7 DEF LoggerThread, WriterTake, WriterWarn, WriterWrite, WriterLeave, WriterWait,
       WriterWakesUp, callVars, queueVars
  <2>3. writer' = "gone" => stopping' /\ count' = 0
    BY <1>7 DEF LoggerThread, WriterTake, WriterWarn, WriterWrite, WriterLeave, LeavesDrained,
       WriterWait, WriterWakesUp, queueVars, slotVars
  <2>4. QED  BY <2>1, <2>2, <2>3 DEF EndInv, JoinedLogsKept, NoLostLogs
<1>8. CASE (Operator \/ SigTerm) /\ UNCHANGED loggerVars /\ Quiet
  BY <1>8, QuietKeepsEnd DEF Quiet, startVars
<1>9. CASE UNCHANGED vars
  BY <1>9, QuietKeepsEnd DEF vars, startVars
<1>10. QED
  BY <1>1, <1>2, <1>3, <1>4, <1>5, <1>6, <1>7, <1>8, <1>9 DEF Next, MainThread, Log

(* The server starts with a running logger and nothing logged.             *)
LEMMA EndInit ==
  ASSUME Init
  PROVE  EndInv
<1>1. /\ started /\ ~stopping /\ writer = "top" /\ main = "acceptor" /\ accepted = <<>>
      /\ lost = 0 /\ calls = 0
  BY DEF Init, LoggerInit
<1>2. Len(accepted) = 0
  BY <1>1, EmptySeq
<1>3. QED  BY <1>1, <1>2 DEF EndInv, JoinedLogsKept, NoLostLogs
-----------------------------------------------------------------------------
(* What a sequence begins with it still begins with when it grows.         *)
LEMMA GrownPrefix ==
  ASSUME NEW S, NEW a \in Seq(S), NEW e \in S, NEW n \in 0..Len(a)
  PROVE  SubSeq(Append(a, e), 1, n) = SubSeq(a, 1, n)
<1> DEFINE b == Append(a, e)
<1>1. b \in Seq(S) /\ \A i \in 1..Len(a) : b[i] = a[i]
  BY AppendProperties
<1> HIDE DEF b
<1>2. n \in Nat /\ n \in Int /\ 1 \in Int /\ n - 1 + 1 = n /\ \A i \in 1..n : i \in 1..Len(a)
  OBVIOUS
<1>3. \A i \in 1..n : a[i] \in S /\ b[i] \in S
  BY <1>1, <1>2, ElementOfSeq
<1>4. /\ SubSeq(a, 1, n) \in Seq(S) /\ Len(SubSeq(a, 1, n)) = n
      /\ \A i \in 1..n : SubSeq(a, 1, n)[i] = a[i]
  <2>1. /\ SubSeq(a, 1, n) \in Seq(S) /\ Len(SubSeq(a, 1, n)) = IF 1 <= n THEN n - 1 + 1 ELSE 0
        /\ \A i \in 1..(n - 1 + 1) : SubSeq(a, 1, n)[i] = a[1 + i - 1]
    BY <1>2, <1>3, SubSeqProperties
  <2>2. \A i \in 1..n : 1 + i - 1 = i
    OBVIOUS
  <2>3. QED  BY <1>2, <2>1, <2>2
<1>5. /\ SubSeq(b, 1, n) \in Seq(S) /\ Len(SubSeq(b, 1, n)) = n
      /\ \A i \in 1..n : SubSeq(b, 1, n)[i] = b[i]
  <2>1. /\ SubSeq(b, 1, n) \in Seq(S) /\ Len(SubSeq(b, 1, n)) = IF 1 <= n THEN n - 1 + 1 ELSE 0
        /\ \A i \in 1..(n - 1 + 1) : SubSeq(b, 1, n)[i] = b[1 + i - 1]
    BY <1>2, <1>3, SubSeqProperties
  <2>2. \A i \in 1..n : 1 + i - 1 = i
    OBVIOUS
  <2>3. QED  BY <1>2, <2>1, <2>2
<1>6. \A i \in 1..n : SubSeq(b, 1, n)[i] = SubSeq(a, 1, n)[i]
  BY <1>1, <1>2, <1>4, <1>5
<1>7. SubSeq(b, 1, n) = SubSeq(a, 1, n)
  BY <1>4, <1>5, <1>6, SeqEqual
<1>8. QED  BY <1>7 DEF b

(* The first part of a concatenation is what it begins with.               *)
LEMMA FirstPart ==
  ASSUME NEW S, NEW a \in Seq(S), NEW b \in Seq(S)
  PROVE  Len(a) <= Len(a \o b) /\ a = SubSeq(a \o b, 1, Len(a))
<1> DEFINE c == a \o b
           n == Len(a)
<1>1. /\ c \in Seq(S) /\ Len(c) = n + Len(b)
      /\ \A i \in 1..(n + Len(b)) : c[i] = IF i <= n THEN a[i] ELSE b[i - n]
  BY ConcatProperties
<1>2. n \in Nat /\ Len(b) \in Nat
  OBVIOUS
<1> HIDE DEF c, n
<1>3. \A i \in 1..n : c[i] = a[i] /\ i \in 1..(n + Len(b))
  BY <1>1, <1>2
<1>4. \A i \in 1..n : c[i] \in S
  BY <1>1, <1>2, <1>3, ElementOfSeq
<1>5. /\ SubSeq(c, 1, n) \in Seq(S) /\ Len(SubSeq(c, 1, n)) = n
      /\ \A i \in 1..n : SubSeq(c, 1, n)[i] = c[i]
  <2>1. n \in Int /\ 1 \in Int /\ n - 1 + 1 = n
    BY <1>2
  <2>2. /\ SubSeq(c, 1, n) \in Seq(S) /\ Len(SubSeq(c, 1, n)) = IF 1 <= n THEN n - 1 + 1 ELSE 0
        /\ \A i \in 1..(n - 1 + 1) : SubSeq(c, 1, n)[i] = c[1 + i - 1]
    BY <1>4, <2>1, SubSeqProperties
  <2>3. \A i \in 1..n : 1 + i - 1 = i
    BY <1>2
  <2>4. QED  BY <1>2, <2>1, <2>2, <2>3
<1>6. Len(a) = n /\ \A i \in 1..n : SubSeq(c, 1, n)[i] = a[i]
  BY <1>3, <1>5 DEF n
<1>7. a = SubSeq(c, 1, n)
  <2>1. PICK d \in Seq(S) : d = SubSeq(c, 1, n)
    BY <1>5
  <2>2. Len(d) = n /\ Len(a) = n /\ \A i \in 1..n : d[i] = a[i]
    BY <1>5, <1>6, <2>1
  <2>3. d = a
    BY <2>2, SeqEqual
  <2>4. QED  BY <2>1, <2>3
<1>8. QED  BY <1>1, <1>2, <1>7 DEF c, n

(* What was logged before logger_stop is in the file when the writer has   *)
(* left, and what a thread logs afterwards comes behind it.                *)
DueInv ==
  /\ due.lines <= Len(accepted) /\ due.drops <= lost
  /\ writer = "gone" => Len(Written) >= due.lines /\ Reported >= due.drops
  /\ ~started => Len(Written) <= Len(Accepted) /\ Written = SubSeq(Accepted, 1, Len(Written))

(* What is due is counted.                                                 *)
LEMMA DueTyped ==
  ASSUME ServerOK
  PROVE  due.lines \in Nat /\ due.drops \in Nat
<1>1. due \in [lines : Nat, drops : Nat]
  BY DEF ServerOK
<1>2. QED  BY <1>1

(* A call of log_msg, before or after logger_stop.                         *)
LEMMA LoggingKeepsDue ==
  ASSUME LoggerInv, ServerOK, DueInv, NEW t \in Thread, LogEnter(t) \/ LogPut(t), UNCHANGED due
  PROVE  DueInv'
<1>1. /\ due.lines \in Nat /\ due.drops \in Nat /\ lost \in Nat /\ accepted \in Seq(Nat)
      /\ Len(accepted) \in Nat
  BY DueTyped DEF LoggerInv, LoggerTypeOK
<1>2. /\ UNCHANGED <<started, file>> /\ (writer' = "gone" => writer = "gone")
  <2>1. CASE LogEnter(t)
    BY <2>1 DEF LogEnter, queueVars, writerVars, outVars
  <2>2. CASE LogPut(t)
    <3>1. UNCHANGED <<started, file>> /\ (Wake \/ UNCHANGED writer)
      BY <2>2 DEF LogPut, outVars
    <3>2. QED  BY <3>1 DEF Wake
  <2>3. QED  BY <2>1, <2>2
<1>3. Written' = Written /\ Reported' = Reported
  BY <1>2 DEF Written, Reported
<1>4. CASE UNCHANGED accepted /\ (lost' = lost \/ lost' = lost + 1)
  <2>1. Accepted' = Accepted
    BY <1>4 DEF Accepted
  <2>2. due'.lines <= Len(accepted') /\ due'.drops <= lost'
    BY <1>1, <1>4 DEF DueInv
  <2>3. QED  BY <1>2, <1>3, <2>1, <2>2 DEF DueInv
<1>5. CASE LogPut(t) /\ ~QueueFull
  <2>1. accepted' = Append(accepted, calls') /\ lost' = lost /\ calls' \in Nat
    BY <1>5 DEF LogPut, LoggerInv, LoggerTypeOK
  <2>2. Len(accepted') = Len(accepted) + 1
    BY <1>1, <2>1, AppendProperties
  <2>3. due'.lines <= Len(accepted') /\ due'.drops <= lost'
    BY <1>1, <2>1, <2>2 DEF DueInv
  <2>4. PICK e \in Entries : e = Entry(calls')
    BY <2>1 DEF Entry, Entries
  <2>5. Accepted' = Append(Accepted, e)
    <3>1. Accepted' = EntriesOf(Append(accepted, calls')) /\ Accepted = EntriesOf(accepted)
      BY <2>1 DEF Accepted, EntriesOf
    <3>2. QED  BY <1>1, <2>1, <2>4, <3>1, EntriesAppend
  <2>6. Accepted \in Seq(Entries) /\ Written \in Seq(Entries)
    BY FileTypes DEF LoggerInv
  <2>7. Len(Accepted') = Len(Accepted) + 1 /\ Len(Accepted) \in Nat /\ Len(Written) \in Nat
    BY <2>5, <2>6, AppendProperties
  <2>8. ASSUME ~started
        PROVE  Len(Written) <= Len(Accepted') /\ Written = SubSeq(Accepted', 1, Len(Written))
    <3>1. Len(Written) <= Len(Accepted) /\ Written = SubSeq(Accepted, 1, Len(Written))
      BY <2>8 DEF DueInv
    <3>2. PICK n \in 0..Len(Accepted) : n = Len(Written)
      <4>1. PICK l, k : l = Len(Written) /\ k = Len(Accepted)
        OBVIOUS
      <4>2. l \in Nat /\ k \in Nat /\ l <= k
        BY <2>7, <3>1, <4>1
      <4>3. l \in 0..k
        BY <4>2
      <4>4. QED  BY <4>1, <4>3
    <3>3. SubSeq(Append(Accepted, e), 1, n) = SubSeq(Accepted, 1, n)
      BY <2>6, GrownPrefix
    <3>4. QED  BY <2>5, <2>7, <3>1, <3>2, <3>3
  <2>9. QED  BY <1>2, <1>3, <2>3, <2>8 DEF DueInv
<1>6. LogEnter(t) \/ (LogPut(t) /\ QueueFull) => UNCHANGED accepted /\ (lost' = lost \/ lost' = lost + 1)
  BY DEF LogEnter, LogPut
<1>7. QED  BY <1>4, <1>5, <1>6

(* A step of the writer: when it leaves it has written all.                *)
LEMMA WritingKeepsDue ==
  ASSUME LoggerInv, FileInv, ServerOK, DueInv, LoggerThread \/ WriterWakesUp, UNCHANGED due
  PROVE  DueInv'
<1>1. started' /\ started /\ UNCHANGED <<accepted, lost>>
  BY DEF LoggerThread, WriterTake, WriterWarn, WriterWrite, WriterLeave, WriterWait,
     WriterWakesUp, LoggerInv, WriterInv, callVars, queueVars
<1>2. due'.lines <= Len(accepted') /\ due'.drops <= lost'
  BY <1>1 DEF DueInv
<1>3. CASE WriterLeave
  <2>1. writer \notin {"warn", "write"} /\ count = 0 /\ UNCHANGED file
    BY <1>3 DEF WriterLeave, LeavesDrained, outVars
  <2>2. Written = Accepted /\ Reported = lost
    BY <1>1, <2>1, WriterEmpty
  <2>3. Written' = Written /\ Reported' = Reported
    BY <2>1 DEF Written, Reported
  <2>4. Len(Accepted) = Len(accepted) /\ Len(accepted) \in Nat /\ lost \in Nat
        /\ due.lines \in Nat /\ due.drops \in Nat
    <3>1. accepted \in Seq(Nat) /\ lost \in Nat /\ Accepted = EntriesOf(accepted)
      BY FileTypes DEF LoggerInv, LoggerTypeOK
    <3>2. QED  BY <3>1, DueTyped, EntriesTyped
  <2>5. Len(Written') >= due'.lines /\ Reported' >= due'.drops
    BY <2>2, <2>3, <2>4 DEF DueInv
  <2>6. QED  BY <1>1, <1>2, <2>5 DEF DueInv
<1>4. CASE WriterTake \/ WriterWarn \/ WriterWrite \/ WriterWait \/ WriterWakesUp
  <2>1. writer' # "gone"
    BY <1>4 DEF WriterTake, WriterWarn, WriterWrite, WriterWait, WriterWakesUp
  <2>2. QED  BY <1>1, <1>2, <2>1 DEF DueInv
<1>5. QED  BY <1>3, <1>4 DEF LoggerThread

(* logger_stop.                                                            *)
LEMMA StoppingKeepsDue ==
  ASSUME LoggerInv, FileInv, ServerOK, EndInv, DueInv, StopLogger
  PROVE  DueInv'
<1>1. /\ lost \in Nat /\ accepted \in Seq(Nat) /\ Len(accepted) \in Nat
  BY DEF LoggerInv, LoggerTypeOK
<1>2. CASE StopAsk /\ due' = [lines |-> Len(accepted), drops |-> lost]
  <2>1. started /\ ~stopping /\ UNCHANGED <<started, accepted, lost>>
        /\ (writer' = "gone" => writer = "gone")
    BY <1>2 DEF StopAsk, StopSignal, Wake, callVars
  <2>2. writer' # "gone"
    BY <2>1 DEF EndInv
  <2>3. due'.lines <= Len(accepted') /\ due'.drops <= lost'
    BY <1>1, <1>2, <2>1
  <2>4. QED  BY <2>1, <2>2, <2>3 DEF DueInv
<1>3. CASE StopJoin /\ UNCHANGED due
  <2>1. started /\ writer = "gone" /\ UNCHANGED <<writer, file, accepted, lost>>
    BY <1>3 DEF StopJoin, writerVars, callVars
  <2>2. Written' = Written /\ Reported' = Reported /\ Accepted' = Accepted
    BY <2>1 DEF Written, Reported, Accepted
  <2>3. Written \in Seq(Entries) /\ Queued \in Seq(Entries)
    BY FileTypes DEF LoggerInv
  <2>4. Written \o Queued = Accepted
    <3>1. InHand = <<>>
      BY <2>1 DEF InHand
    <3>2. Written \o <<>> = Written
      BY <2>3, ConcatEmptySeq
    <3>3. QED  BY <2>1, <3>1, <3>2 DEF FileInv, WrittenInOrder
  <2>5. Len(Written) <= Len(Accepted) /\ Written = SubSeq(Accepted, 1, Len(Written))
    <3>1. Len(Written) <= Len(Written \o Queued)
          /\ Written = SubSeq(Written \o Queued, 1, Len(Written))
      BY <2>3, FirstPart
    <3>2. QED  BY <2>4, <3>1
  <2>6. QED  BY <1>3, <2>1, <2>2, <2>5 DEF DueInv
<1>4. QED  BY <1>2, <1>3, Zenon DEF StopLogger

(* Every step of the server keeps it.                                      *)
LEMMA DueStep ==
  ASSUME LoggerInv, FileInv, ServerOK, EndInv, DueInv, [Next]_vars
  PROVE  DueInv'
<1> USE ServicesAssumption
<1>1. ASSUME UNCHANGED loggerVars, UNCHANGED due  PROVE DueInv'
  <2>1. UNCHANGED <<started, writer, file, accepted, lost>>
    BY <1>1 DEF loggerVars, queueVars, writerVars, outVars, callVars
  <2>2. Written' = Written /\ Reported' = Reported /\ Accepted' = Accepted
    BY <2>1 DEF Written, Reported, Accepted
  <2>3. QED  BY <1>1, <2>1, <2>2 DEF DueInv
<1>2. ASSUME NEW t \in Thread, LogEnter(t) \/ LogPut(t), UNCHANGED due  PROVE DueInv'
  BY <1>2, LoggingKeepsDue
<1>3. CASE AcceptorThread \/ Accept
  BY <1>1, <1>2, <1>3 DEF AcceptorThread, Accept, Logging
<1>4. CASE ReloadThread
  BY <1>1, <1>2, <1>4 DEF ReloadThread, Logging
<1>5. ASSUME NEW r \in Reader, Worker(r)  PROVE DueInv'
  BY <1>1, <1>2, <1>5 DEF Worker, Logging
<1>6. CASE StartThreads \/ Destroy
  BY <1>1, <1>6 DEF StartThreads, Create, MarkStarted, Destroy
<1>7. CASE SayGoodbye
  BY <1>2, <1>7 DEF SayGoodbye, Logging
<1>8. CASE StopLogger
  BY <1>8, StoppingKeepsDue
<1>9. CASE (LoggerThread \/ WriterWakesUp) /\ UNCHANGED manifestVars /\ Quiet
  BY <1>9, WritingKeepsDue DEF Quiet
<1>10. CASE (Operator \/ SigTerm) /\ UNCHANGED loggerVars /\ Quiet
  BY <1>1, <1>10 DEF Quiet
<1>11. CASE UNCHANGED vars
  BY <1>1, <1>11 DEF vars
<1>12. QED
  BY <1>3, <1>4, <1>5, <1>6, <1>7, <1>8, <1>9, <1>10, <1>11 DEF Next, MainThread, Log

(* Nothing is due at the start.                                            *)
LEMMA DueInit ==
  ASSUME Init
  PROVE  DueInv
<1>1. started /\ writer = "top" /\ accepted = <<>> /\ lost = 0 /\ due.lines = 0 /\ due.drops = 0
  BY DEF Init, LoggerInit
<1>2. Len(accepted) = 0
  BY <1>1, EmptySeq
<1>3. QED  BY <1>1, <1>2 DEF DueInv
-----------------------------------------------------------------------------
(* The server's services implement the specification of the manifest and   *)
(* the one of the logger: what each part does alone it does in the server. *)
THEOREM ServicesImplementParts == Spec => ManifestSpec /\ LoggerSpec
BY Parts

(* A session's copy of the manifest is one that was in force as a whole,   *)
(* and logger_recent gives the newest lines, in the whole server.          *)
THEOREM ServicesSound == Spec => []SnapshotIsWhole /\ []RecentIsTail
BY Parts, SnapshotsAreWhole, RecentLinesAreNewest, PTL

(* The types of what main and the acceptor own, in every behaviour.        *)
LEMMA ServerHolds == Spec => []ServerOK
BY Parts, LoggerTypeCorrect, ServerInit, ServerTypes, PTL DEF Spec

(* So does the order of the cleanup.                                       *)
LEMMA OrderHolds == Spec => []OrderInv
BY OrderInit, OrderStep, PTL DEF Spec

(* The types of the manifest, of the logger and of the server's threads.   *)
THEOREM ServicesTypeCorrect == Spec => []TypeOK
<1>1. ManifestTypeOK /\ LoggerTypeOK /\ ServerOK => TypeOK
  BY DEF TypeOK, ServerOK
<1>2. QED  BY <1>1, ServerHolds, Parts, ManifestTypeCorrect, LoggerTypeCorrect, PTL

(* The invariant of the log file holds in every behaviour of the logger.   *)
THEOREM FileIsSound == LoggerSpec => []FileInv
BY LoggerIsSound, FileInit, FileStep, PTL DEF LoggerSpec

(* Every line that log_msg put in the queue is in the file once, in the    *)
(* order of the calls, up to those in the writer's hand and in the queue,  *)
(* for any number of threads and any capacity of the queue.                *)
THEOREM LinesWrittenInOrder == LoggerSpec => []WrittenInOrder
<1>1. FileInv => WrittenInOrder
  BY DEF FileInv
<1>2. QED  BY FileIsSound, <1>1, PTL

(* The warnings in the file, the one being written and the count that      *)
(* waits for its line add up to the lines the full queue refused.          *)
THEOREM DropsAreReported == LoggerSpec => []DropsReported
<1>1. LoggerInv /\ FileInv => DropsReported
  BY DEF LoggerInv, WriterInv, FileInv, Counted, DropsReported
<1>2. QED  BY LoggerIsSound, FileIsSound, <1>1, PTL

(* The end of the log holds in every behaviour of the server.              *)
LEMMA EndHolds == Spec => []EndInv
BY Parts, LoggerIsSound, FileIsSound, ServerHolds, OrderHolds, EndInit, EndStep, PTL DEF Spec

(* When cleanup_server joined every thread that main created, logger_stop  *)
(* loses nothing: every call of log_msg has left its line in the file or   *)
(* is counted in a warning there.                                          *)
THEOREM EveryLogKept == Spec => []JoinedLogsKept
<1>1. EndInv => JoinedLogsKept
  BY DEF EndInv
<1>2. QED  BY <1>1, EndHolds, PTL

(* And whichever threads it joined: every line that was put in the queue   *)
(* before logger_stop is in the file, in order, every drop counted.        *)
THEOREM EarlierLogsKept == Spec => []LogsBeforeStopKept
<1>1. LoggerInv /\ EndInv /\ DueInv => LogsBeforeStopKept
  BY DEF LoggerInv, WriterInv, EndInv, DueInv, LogsBeforeStopKept
<1>2. Spec => []DueInv
  BY Parts, LoggerIsSound, FileIsSound, ServerHolds, EndHolds, DueInit, DueStep, PTL DEF Spec
<1>3. QED  BY <1>1, <1>2, Parts, LoggerIsSound, EndHolds, PTL
=============================================================================
