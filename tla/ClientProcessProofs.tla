------------------------ MODULE ClientProcessProofs ------------------------
(***************************************************************************)
(* What is proved of ClientProcess for every length of the package, every  *)
(* number of attempts, clicks and broken connections.  That the connection *)
(* is closed once, and nothing else in its place, is proved for one stop   *)
(* request at most: a second one can close the number again.               *)
(***************************************************************************)
EXTENDS ClientProcess, TLAPS

(* The variables fall into three groups: what the threads and handlers do  *)
(* with the descriptor's number, the run with its files, the buttons.      *)
FdType ==
  /\ stop \in BOOLEAN /\ active \in BOOLEAN /\ signalClosed \in BOOLEAN /\ foreign \in BOOLEAN
  /\ stray \in BOOLEAN
  /\ number \in {"free", "conn", "broken", "part"}
  /\ handler \in [Request -> HandlerPC]
  /\ main \in {"loop", "exit", "gone"} /\ clicks \in 0..MaxClicks /\ losses \in 0..MaxLosses

(* While a download lasts, the count of received bytes is the length of    *)
(* the .part file; during a pause .resume has it.  A retry is left when    *)
(* the thread sleeps before one.                                           *)
Transfer == {"open", "loop", "recv", "pausing", "wait", "resuming", "verify"}
Paused   == {"pausing", "wait", "resuming"}
RunInv ==
  /\ thread \in PC /\ result \in Result /\ attempt \in 1..RetryMax
  /\ got \in 0..Size /\ part \in 0..Size /\ saved \in 0..NoResume
  /\ thread \in Transfer => got = part
  /\ thread \in Paused => saved = got
  /\ thread = "sleep" /\ result # "success" => attempt < RetryMax

(* A request that waits was made in the period that lasts, and a button    *)
(* is only there in its own part of the run.                               *)
Before == {"top", "connect", "set", "clear", "check", "handshake", "talk", "bye", "request", "open"}
GuiInv ==
  /\ allowed \subseteq Button /\ requested \subseteq allowed
  /\ period \in Nat /\ madeIn \in [Button -> Nat]
  /\ \A b \in requested : madeIn[b] = period
  /\ thread \in Before => allowed = {}
  /\ thread \in {"loop", "recv", "verify", "ack", "record"} => allowed \subseteq {"pause"}
  /\ thread \in Paused => allowed \subseteq {"resume"}
  /\ thread = "sleep" /\ result # "success" => allowed = {}

BaseInv == FdType /\ RunInv /\ GuiInv
-----------------------------------------------------------------------------
(* Lengths that go to .resume, and lengths that grow.                      *)
LEMMA Lengths ==
  /\ 0 \in 0..Size /\ NoResume \in 0..NoResume
  /\ \A n \in 0..Size : n \in 0..NoResume
  /\ \A n \in 0..Size : n < Size => n + 1 \in 0..Size
  /\ \A n \in 1..RetryMax : n < RetryMax => n + 1 \in 1..RetryMax
  /\ 1 \in 1..RetryMax
BY ClientAssumption DEF NoResume

(* The process starts with nothing open and nobody waiting.                *)
LEMMA BaseInit == Init => BaseInv
<1> SUFFICES ASSUME Init  PROVE BaseInv
  OBVIOUS
<1> USE ClientAssumption
<1>1. part \in 0..Size /\ saved \in 0..NoResume /\ attempt \in 1..RetryMax
  BY Lengths DEF Init
<1>2. FdType
  <2>1. MaxClicks \in 0..MaxClicks /\ MaxLosses \in 0..MaxLosses
    OBVIOUS
  <2>2. QED  BY <2>1 DEF Init, FdType, HandlerPC
<1>3. RunInv
  BY <1>1 DEF Init, RunInv, PC, Result, Transfer, Paused
<1>4. GuiInv
  BY DEF Init, GuiInv, Before, Paused, Button
<1>5. QED  BY <1>2, <1>3, <1>4 DEF BaseInv

(* What the update thread does, and what everybody else does.              *)
ThreadStep == (OwnStep \/ ServerStep) /\ ThreadStill
OtherStep ==
  \/ GUI \/ CloseWindow \/ Break
  \/ \E r \in Request : SignalComes(r) \/ HandlerRuns(r)
  \/ \E b \in Button : Click(b)

(* A step is one of the update thread, or one of the others.               *)
LEMMA Steps == [Next]_vars => ThreadStep \/ OtherStep \/ UNCHANGED vars
BY DEF Next, ThreadStep, OtherStep, UpdateThread, FromServer

(* The update thread's steps keep the run's part.                           *)
LEMMA RunByThread ==
  ASSUME RunInv, ThreadStep
  PROVE  RunInv'
<1> USE ClientAssumption, Lengths DEF RunInv, Transfer, Paused, PC, Reading, Result, At, Leave, PausedOr, DataStill,
        fileVars
<1>1. CASE Top
  BY <1>1 DEF Top
<1>2. CASE Connect
  BY <1>2 DEF Connect
<1>3. CASE SetActive
  BY <1>3 DEF SetActive
<1>4. CASE CheckStop
  BY <1>4 DEF CheckStop
<1>5. CASE Handshake
  BY <1>5 DEF Handshake
<1>6. CASE Talk
  BY <1>6 DEF Talk
<1>7. CASE TalkFails
  BY <1>7 DEF TalkFails
<1>8. CASE Bye
  BY <1>8 DEF Bye
<1>9. CASE RequestPart
  BY <1>9 DEF RequestPart
<1>10. CASE RequestFails
  BY <1>10 DEF RequestFails
<1>11. CASE OpenPart
  BY <1>11 DEF OpenPart
<1>12. CASE OpenFails
  BY <1>12 DEF OpenFails
<1>13. CASE PauseClicked
  BY <1>13 DEF PauseClicked, WriteResume
<1>14. CASE LoopOn
  <2>1. CASE stop
    BY <1>14, <2>1 DEF LoopOn, WriteResume, SaveInterrupted
  <2>2. CASE ~stop
    BY <1>14, <2>2 DEF LoopOn
  <2>3. QED  BY <2>1, <2>2
<1>15. CASE Receive
  <2>1. CASE got < Size /\ At("loop") /\ got' = got + 1 /\ part' = part + 1
             /\ UNCHANGED <<saved, result>>
    BY <1>15, <2>1 DEF Receive
  <2>2. CASE At("verify") /\ UNCHANGED <<fileVars, result>>
    BY <1>15, <2>2 DEF Receive
  <2>3. CASE \E r \in {"again", "fatal"}, kept \in {0, part} :
               Leave(r) /\ part' = kept /\ UNCHANGED <<got, saved>>
    BY <1>15, <2>3 DEF Receive
  <2>4. QED  BY <1>15, <2>1, <2>2, <2>3 DEF Receive
<1>16. CASE ReceiveFails
  BY <1>16 DEF ReceiveFails, WriteResume, SaveInterrupted
<1>17. CASE Verify
  BY <1>17 DEF Verify
<1>18. CASE Ack
  BY <1>18 DEF Ack
<1>19. CASE Record
  BY <1>19 DEF Record
<1>20. CASE SendPause
  BY <1>20 DEF SendPause
<1>21. CASE ResumeClicked
  BY <1>21 DEF ResumeClicked
<1>22. CASE SendResume
  BY <1>22 DEF SendResume
<1>23. CASE WaitEnds
  BY <1>23 DEF WaitEnds
<1>24. CASE TestClosed
  BY <1>24 DEF TestClosed
<1>25. CASE CloseConnection
  BY <1>25 DEF CloseConnection
<1>26. CASE After
  BY <1>26 DEF After, MayRetry
<1>27. CASE Sleep
  <2>1. CASE stop \/ result = "success"
    BY <1>27, <2>1 DEF Sleep
  <2>2. CASE ~stop /\ result # "success"
    <3>1. attempt + 1 \in 1..RetryMax
      BY <1>27, <2>2 DEF Sleep
    <3>2. QED  BY <1>27, <2>2, <3>1 DEF Sleep
  <2>3. QED  BY <2>1, <2>2
<1>28. QED
  BY <1>1, <1>2, <1>3, <1>4, <1>5, <1>6, <1>7, <1>8, <1>9, <1>10, <1>11, <1>12, <1>13, <1>14, <1>15, <1>16, <1>17, <1>18, <1>19, <1>20, <1>21, <1>22, <1>23, <1>24, <1>25, <1>26, <1>27
     DEF ThreadStep, OwnStep, ServerStep

(* The update thread's steps keep the buttons' part.                       *)
LEMMA GuiByThread ==
  ASSUME GuiInv, RunInv, ThreadStep
  PROVE  GuiInv'
<1> USE ClientAssumption DEF GuiInv, Before, Paused, Button, At, Leave, DataStill, guiVars, SetControls,
        SamePeriod, NewPeriod, GuiStill
<1>1. CASE Top
  BY <1>1 DEF Top
<1>2. CASE Connect
  BY <1>2 DEF Connect
<1>3. CASE SetActive
  BY <1>3 DEF SetActive
<1>4. CASE CheckStop
  BY <1>4 DEF CheckStop
<1>5. CASE Handshake
  BY <1>5 DEF Handshake
<1>6. CASE Talk
  BY <1>6 DEF Talk
<1>7. CASE TalkFails
  BY <1>7 DEF TalkFails
<1>8. CASE Bye
  BY <1>8 DEF Bye
<1>9. CASE RequestPart
  BY <1>9 DEF RequestPart
<1>10. CASE RequestFails
  BY <1>10 DEF RequestFails
<1>11. CASE OpenPart
  BY <1>11 DEF OpenPart
<1>12. CASE OpenFails
  BY <1>12 DEF OpenFails
<1>13. CASE PauseClicked
  BY <1>13 DEF PauseClicked
<1>14. CASE LoopOn
  BY <1>14 DEF LoopOn, SaveInterrupted
<1>15. CASE Receive
  BY <1>15 DEF Receive
<1>16. CASE ReceiveFails
  BY <1>16 DEF ReceiveFails, SaveInterrupted
<1>17. CASE Verify
  BY <1>17 DEF Verify
<1>18. CASE Ack
  BY <1>18 DEF Ack
<1>19. CASE Record
  BY <1>19 DEF Record
<1>20. CASE SendPause
  BY <1>20 DEF SendPause
<1>21. CASE ResumeClicked
  BY <1>21 DEF ResumeClicked
<1>22. CASE SendResume
  <2>1. CASE At("loop") /\ SetControls({"pause"}) /\ NewPeriod /\ UNCHANGED madeIn
    BY <1>22, <2>1 DEF SendResume
  <2>2. CASE At("test closed") /\ SetControls({}) /\ SamePeriod
    BY <1>22, <2>2 DEF SendResume
  <2>3. QED  BY <1>22, <2>1, <2>2 DEF SendResume, Leave
<1>23. CASE WaitEnds
  BY <1>23 DEF WaitEnds
<1>24. CASE TestClosed
  BY <1>24 DEF TestClosed
<1>25. CASE CloseConnection
  BY <1>25 DEF CloseConnection
<1>26. CASE After
  BY <1>26 DEF After
<1>27. CASE Sleep
  BY <1>27 DEF Sleep
<1>28. QED
  BY <1>1, <1>2, <1>3, <1>4, <1>5, <1>6, <1>7, <1>8, <1>9, <1>10, <1>11, <1>12, <1>13, <1>14, <1>15, <1>16, <1>17, <1>18, <1>19, <1>20, <1>21, <1>22, <1>23, <1>24, <1>25, <1>26, <1>27
     DEF ThreadStep, OwnStep, ServerStep

(* The update thread's steps keep the types of the descriptor's part.      *)
LEMMA FdByThread ==
  ASSUME FdType, ThreadStep
  PROVE  FdType'
<1> USE ClientAssumption DEF FdType, ThreadStep, ThreadStill, FdStill, fdVars
<1>1. CASE Top
  BY <1>1 DEF Top
<1>2. CASE Connect
  BY <1>2 DEF Connect
<1>3. CASE SetActive
  BY <1>3 DEF SetActive
<1>4. CASE CheckStop
  BY <1>4 DEF CheckStop
<1>5. CASE Handshake
  BY <1>5 DEF Handshake
<1>6. CASE Talk
  BY <1>6 DEF Talk
<1>7. CASE TalkFails
  BY <1>7 DEF TalkFails
<1>8. CASE Bye
  BY <1>8 DEF Bye
<1>9. CASE RequestPart
  BY <1>9 DEF RequestPart
<1>10. CASE RequestFails
  BY <1>10 DEF RequestFails
<1>11. CASE OpenPart
  BY <1>11 DEF OpenPart
<1>12. CASE OpenFails
  BY <1>12 DEF OpenFails
<1>13. CASE PauseClicked
  BY <1>13 DEF PauseClicked
<1>14. CASE LoopOn
  BY <1>14 DEF LoopOn, SaveInterrupted
<1>15. CASE Receive
  BY <1>15 DEF Receive
<1>16. CASE ReceiveFails
  BY <1>16 DEF ReceiveFails, SaveInterrupted
<1>17. CASE Verify
  BY <1>17 DEF Verify
<1>18. CASE Ack
  BY <1>18 DEF Ack
<1>19. CASE Record
  BY <1>19 DEF Record
<1>20. CASE SendPause
  BY <1>20 DEF SendPause
<1>21. CASE ResumeClicked
  BY <1>21 DEF ResumeClicked
<1>22. CASE SendResume
  BY <1>22 DEF SendResume
<1>23. CASE WaitEnds
  BY <1>23 DEF WaitEnds
<1>24. CASE TestClosed
  BY <1>24 DEF TestClosed
<1>25. CASE CloseConnection
  BY <1>25 DEF CloseConnection, CloseNumber
<1>26. CASE After
  BY <1>26 DEF After
<1>27. CASE Sleep
  BY <1>27 DEF Sleep
<1>28. QED
  BY <1>1, <1>2, <1>3, <1>4, <1>5, <1>6, <1>7, <1>8, <1>9, <1>10, <1>11, <1>12, <1>13, <1>14, <1>15, <1>16, <1>17, <1>18, <1>19, <1>20, <1>21, <1>22, <1>23, <1>24, <1>25, <1>26, <1>27
     DEF ThreadStep, OwnStep, ServerStep

(* The handlers, the main thread, the connection and the user.             *)
LEMMA BaseByOthers ==
  ASSUME BaseInv, OtherStep
  PROVE  BaseInv'
<1> USE ClientAssumption DEF BaseInv
<1>1. ASSUME UNCHANGED <<thread, result, attempt, fileVars>>  PROVE RunInv'
  BY <1>1 DEF RunInv, fileVars
<1>2. ASSUME UNCHANGED <<thread, result, guiVars>>  PROVE GuiInv'
  BY <1>2 DEF GuiInv, guiVars
<1>3. CASE GUI \/ CloseWindow \/ Break
  <2>1. UNCHANGED <<thread, result, attempt, fileVars, guiVars>>
    BY <1>3 DEF GUI, TimerExit, CleanedUp, CloseWindow, Break
  <2>2. FdType'
    BY <1>3 DEF GUI, TimerExit, CleanedUp, CloseWindow, Break, FdType, fdVars
  <2>3. QED  BY <1>1, <1>2, <2>1, <2>2
<1>4. ASSUME NEW r \in Request, SignalComes(r)  PROVE BaseInv'
  <2>1. UNCHANGED <<thread, result, attempt, fileVars, guiVars>>
    BY <1>4 DEF SignalComes
  <2>2. FdType'
    BY <1>4 DEF SignalComes, Signal, HandlerAt, HandlerPC, FdType, fdVars
  <2>3. QED  BY <1>1, <1>2, <2>1, <2>2
<1>5. ASSUME NEW r \in Request, HandlerRuns(r)  PROVE BaseInv'
  <2>1. UNCHANGED <<thread, result, attempt, fileVars, guiVars, main, clicks, losses>>
    BY <1>5 DEF HandlerRuns, Handler
  <2>2. CASE ReadActive(r) \/ UnsetActive(r) \/ NoteClosed(r)
    <3>1. FdType'
      BY <2>1, <2>2 DEF ReadActive, UnsetActive, NoteClosed, HandlerAt, HandlerPC, FdType, fdVars
    <3>2. QED  BY <1>1, <1>2, <2>1, <3>1
  <2>3. CASE CloseActive(r)
    <3>1. FdType'
      BY <2>1, <2>3 DEF CloseActive, CloseNumber, HandlerAt, HandlerPC, FdType, fdVars
    <3>2. QED  BY <1>1, <1>2, <2>1, <3>1
  <2>4. QED  BY <1>5, <2>2, <2>3 DEF HandlerRuns, Handler
<1>6. ASSUME NEW b \in Button, Click(b)  PROVE BaseInv'
  <2>1. RunInv'
    BY <1>6, <1>1 DEF Click
  <2>2. FdType'
    BY <1>6 DEF Click, FdType, fdVars
  <2>3. GuiInv'
    BY <1>6 DEF Click, GuiInv
  <2>4. QED  BY <2>1, <2>2, <2>3
<1>7. QED  BY <1>3, <1>4, <1>5, <1>6 DEF OtherStep

(* Every step keeps types and places.                                      *)
LEMMA BaseStep == BaseInv /\ [Next]_vars => BaseInv'
<1> SUFFICES ASSUME BaseInv, [Next]_vars  PROVE BaseInv'
  OBVIOUS
<1>1. CASE ThreadStep
  BY <1>1, RunByThread, GuiByThread, FdByThread DEF BaseInv
<1>2. CASE OtherStep
  BY <1>2, BaseByOthers
<1>3. CASE UNCHANGED vars
  BY <1>3 DEF BaseInv, FdType, RunInv, GuiInv, vars, fdVars, fileVars, guiVars
<1>4. QED  BY <1>1, <1>2, <1>3, Steps

(* They hold in every behaviour.                                           *)
LEMMA BaseHolds == Spec => []BaseInv
BY BaseInit, BaseStep, PTL DEF Spec

(* The types: no more bytes than the package has, no more attempts than    *)
(* the configuration allows, no request for a button that is not there.    *)
THEOREM ClientTypeCorrect == Spec => []TypeOK
<1>1. BaseInv => TypeOK
  BY DEF BaseInv, FdType, RunInv, GuiInv, TypeOK
<1>2. QED  BY BaseHolds, <1>1, PTL

(* A click acts on the download, or the pause, whose button was clicked,   *)
(* in any sequence of clicks, attempts, pauses and broken connections.     *)
THEOREM ClicksActWhereMade == Spec => ClickActsWhereMade
<1>1. BaseInv /\ [Next]_vars =>
        [/\ PauseClicked  => madeIn["pause"] = period
         /\ ResumeClicked => madeIn["resume"] = period]_vars
  BY DEF BaseInv, GuiInv, PauseClicked, ResumeClicked
<1>2. QED  BY <1>1, BaseHolds, PTL DEF Spec, ClickActsWhereMade

(* A download that ends paused has left in .resume what it received.       *)
THEOREM PausedIsResumable == Spec => ResumeIsSaved
<1> DEFINE Ends == /\ thread \in {"request", "loop", "recv", "wait"}
                   /\ thread' = "test closed" /\ result' = "paused"
<1>1. ASSUME BaseInv, Next, Ends  PROVE saved' = got' /\ saved' = part'
  <2> USE DEF BaseInv, RunInv, Transfer, Paused, At, Leave, WriteResume, DataStill, FdStill,
          fileVars, SaveInterrupted
  <2>1. UpdateThread \/ FromServer
    BY <1>1 DEF Next, GUI, TimerExit, CleanedUp, CloseWindow, Break, SignalComes, HandlerRuns,
                Handler, Click
  <2>2. CASE thread = "request"
    BY <1>1, <2>1, <2>2
       DEF UpdateThread, FromServer, OwnStep, ServerStep, Top, Connect, SetActive, CheckStop,
           Handshake, Talk, TalkFails, Bye, Ack, RequestPart, RequestFails, OpenPart, OpenFails,
           PauseClicked, LoopOn, Receive, ReceiveFails, Verify, Record, SendPause, ResumeClicked,
           SendResume, WaitEnds, TestClosed, CloseConnection, After, Sleep
  <2>3. CASE thread = "loop"
    BY <1>1, <2>1, <2>3
       DEF UpdateThread, FromServer, OwnStep, ServerStep, Top, Connect, SetActive, CheckStop,
           Handshake, Talk, TalkFails, Bye, Ack, RequestPart, RequestFails, OpenPart, OpenFails,
           PauseClicked, LoopOn, Receive, ReceiveFails, Verify, Record, SendPause, ResumeClicked,
           SendResume, WaitEnds, TestClosed, CloseConnection, After, Sleep
  <2>4. CASE thread = "recv"
    BY <1>1, <2>1, <2>4
       DEF UpdateThread, FromServer, OwnStep, ServerStep, Top, Connect, SetActive, CheckStop,
           Handshake, Talk, TalkFails, Bye, Ack, RequestPart, RequestFails, OpenPart, OpenFails,
           PauseClicked, LoopOn, Receive, ReceiveFails, Verify, Record, SendPause, ResumeClicked,
           SendResume, WaitEnds, TestClosed, CloseConnection, After, Sleep
  <2>5. CASE thread = "wait"
    BY <1>1, <2>1, <2>5
       DEF UpdateThread, FromServer, OwnStep, ServerStep, Top, Connect, SetActive, CheckStop,
           Handshake, Talk, TalkFails, Bye, Ack, RequestPart, RequestFails, OpenPart, OpenFails,
           PauseClicked, LoopOn, Receive, ReceiveFails, Verify, Record, SendPause, ResumeClicked,
           SendResume, WaitEnds, TestClosed, CloseConnection, After, Sleep
  <2>6. QED  BY <1>1, <2>2, <2>3, <2>4, <2>5
<1>2. BaseInv /\ [Next]_vars => [Ends => saved' = got' /\ (saved' = part' \/ stray)]_vars
  BY <1>1
<1>3. QED  BY <1>2, BaseHolds, PTL DEF Spec, ResumeIsSaved
-----------------------------------------------------------------------------
(* The descriptor's number, with one stop request                          *)

OneRequest == \A q, r \in Request : q = r

(* The parts of a connection's life: in use, about to be closed or handed  *)
(* over, and over.                                                         *)
Using   == {"handshake", "talk", "bye", "request", "open", "loop", "recv", "pausing", "wait",
            "resuming", "verify", "ack", "record"}
Live    == {"clear", "check", "test closed", "unset"} \cup Using
Between == {"after", "sleep", "top", "over"}

HandlerIn(S)   == \E r \in Request : handler[r] \in S
Connected      == number \in {"conn", "broken"}
Lost           == number \in {"free", "part"}

(* The flag is up once a handler has run, and the handler takes the number *)
(* over only from an attempt that has published it.                        *)
StopInv ==
  /\ stop = TRUE <=> HandlerIn({"read", "unset", "note", "close", "done"})
  /\ active = TRUE => thread \in Live
  /\ HandlerIn({"unset", "note", "close"}) => thread \notin {"connect", "set"}
  /\ HandlerIn({"note", "close"}) => active = FALSE

(* g_signal_closed_fd, while the thread uses the connection, tells that    *)
(* the handler has closed it or is about to.                               *)
SignalInv ==
  /\ HandlerIn({"close"}) /\ thread \in Using => signalClosed = TRUE
  /\ signalClosed = TRUE /\ thread \in Using \cup {"check", "test closed"} => active = FALSE
  /\ signalClosed = TRUE /\ thread \in Using \cup {"check", "test closed"} /\ Connected =>
       HandlerIn({"close"})

(* Who has closed the connection when its number stands for it no longer.  *)
NumberInv ==
  /\ thread = "connect" => number = "free"
  /\ thread = "set" => Connected
  /\ thread \in Live \cup {"close"} /\ Lost => HandlerIn({"done"})
  /\ thread \in Using /\ Lost => signalClosed = TRUE
  /\ number = "part" => thread \notin {"clear", "check", "unset", "close"}
  /\ number = "part" /\ thread = "test closed" => signalClosed = TRUE
  /\ thread \in Between /\ Connected => HandlerIn({"close"})
  /\ thread \in Between /\ number = "part" => HandlerIn({"done"})
  /\ foreign = FALSE

FdInv == StopInv /\ SignalInv /\ NumberInv

(* No descriptor is in use at the start.                                   *)
LEMMA FdInit == Init => FdInv
BY DEF Init, FdInv, StopInv, SignalInv, NumberInv, HandlerIn, Connected, Lost, Using, Live, Between

(* What the thread may do to the number while it uses the connection.      *)
LEMMA UseKeepsNumber ==
  ASSUME FdType, FdInv, thread \in Using, thread' \in Using \cup {"test closed"},
         UNCHANGED <<stop, handler, active, signalClosed, foreign>>,
         \/ number' = number
         \/ number = "free" /\ number' = "part" /\ thread' \in Using
         \/ number = "part" /\ number' = "free"
  PROVE  FdInv'
<1>1. \A S : HandlerIn(S)' = HandlerIn(S)
  BY DEF HandlerIn
<1>2. (Lost' <=> Lost) /\ (Connected' <=> Connected)
  BY DEF Lost, Connected
<1>3. StopInv'
  BY <1>1 DEF FdInv, StopInv, Live, Using
<1>4. SignalInv'
  BY <1>1, <1>2 DEF FdInv, SignalInv, Using
<1>5. NumberInv'
  BY <1>1, <1>2 DEF FdInv, NumberInv, Using, Live, Between, Lost
<1>6. QED  BY <1>3, <1>4, <1>5 DEF FdInv

(* Which is what its statements between the handshake and                  *)
(* close_attempt_connection do.                                            *)
LEMMA UseSteps ==
  ASSUME FdType, RunInv, ThreadStep, thread \in Using
  PROVE  /\ thread' \in Using \cup {"test closed"}
         /\ UNCHANGED <<stop, handler, active, signalClosed, foreign>>
         /\ \/ number' = number
            \/ number = "free" /\ number' = "part" /\ thread' \in Using
            \/ number = "part" /\ number' = "free"
<1> USE DEF Using, At, Leave, FdStill, fdVars, ThreadStill
<1>1. UNCHANGED <<stop, handler>>
  BY DEF ThreadStep
<1>2. CASE Handshake \/ Talk \/ TalkFails \/ Bye \/ RequestPart \/ RequestFails
  BY <1>1, <1>2 DEF Handshake, Talk, TalkFails, Bye, RequestPart, RequestFails
<1>3. CASE OpenPart \/ OpenFails \/ PauseClicked \/ Receive \/ Verify \/ Ack \/ Record
  BY <1>1, <1>3 DEF OpenPart, OpenFails, PauseClicked, Receive, Verify, Ack, Record
<1>4. CASE LoopOn \/ ReceiveFails
  BY <1>1, <1>4 DEF LoopOn, ReceiveFails, SaveInterrupted
<1>5. CASE SendPause \/ ResumeClicked \/ SendResume \/ WaitEnds
  BY <1>1, <1>5 DEF SendPause, ResumeClicked, SendResume, WaitEnds
<1>6. CASE Top \/ Connect \/ SetActive \/ CheckStop \/ TestClosed \/ CloseConnection \/ After \/ Sleep
  BY <1>6 DEF Top, Connect, SetActive, CheckStop, TestClosed, CloseConnection, After, Sleep
<1>7. QED
  BY <1>2, <1>3, <1>4, <1>5, <1>6 DEF ThreadStep, OwnStep, ServerStep

(* The connection's beginning and its end.                                 *)
LEMMA EdgesKeepFd ==
  ASSUME FdType, RunInv, FdInv, ThreadStep, thread \notin Using
  PROVE  FdInv'
<1> USE DEF FdType, FdInv, StopInv, SignalInv, NumberInv, Connected, Lost, Using, Live, Between,
        At, Leave, FdStill, fdVars
<1>1. UNCHANGED <<stop, handler>> /\ \A S : HandlerIn(S)' = HandlerIn(S)
  BY DEF ThreadStep, ThreadStill, HandlerIn
<1>2. stop = FALSE => \A S \in SUBSET {"read", "unset", "note", "close", "done"} : ~HandlerIn(S)
  BY DEF HandlerIn
<1>3. stop = FALSE => ~HandlerIn({"close"}) /\ ~HandlerIn({"done"})
                      /\ ~HandlerIn({"note", "close"}) /\ ~HandlerIn({"unset", "note", "close"})
  BY <1>2
<1>4. CASE Top
  BY <1>1, <1>3, <1>4 DEF Top
<1>5. CASE Connect
  BY <1>1, <1>5 DEF Connect
<1>6. CASE SetActive
  BY <1>1, <1>6 DEF SetActive, HandlerIn
<1>7. CASE CheckStop
  BY <1>1, <1>3, <1>7 DEF CheckStop, StopSeen
<1>8. CASE TestClosed
  BY <1>1, <1>8 DEF TestClosed, WasSignalClosed
<1>9. CASE CloseConnection
  BY <1>1, <1>9 DEF CloseConnection, CloseNumber
<1>10. CASE After \/ Sleep
  BY <1>1, <1>10 DEF After, Sleep
<1>11. thread \in PC /\ (\/ Top \/ Connect \/ SetActive \/ CheckStop \/ TestClosed
                         \/ CloseConnection \/ After \/ Sleep)
  BY DEF RunInv, ThreadStep, OwnStep, ServerStep, Handshake, Talk, TalkFails, Bye, RequestPart,
         RequestFails, OpenPart, OpenFails, PauseClicked, LoopOn, Receive, ReceiveFails, Verify,
         Ack, Record, SendPause, ResumeClicked, SendResume, WaitEnds
<1>12. QED  BY <1>4, <1>5, <1>6, <1>7, <1>8, <1>9, <1>10, <1>11

(* The handler's own steps.                                                *)
LEMMA HandlerKeepsFd ==
  ASSUME OneRequest, FdType, RunInv, FdInv, NEW r \in Request, SignalComes(r) \/ HandlerRuns(r)
  PROVE  FdInv'
<1> USE DEF FdType, FdInv, StopInv, SignalInv, NumberInv, Connected, Lost, Using, Live, Between,
        HandlerAt, fdVars
<1>1. \A S : HandlerIn(S) <=> handler[r] \in S
  BY DEF OneRequest, HandlerIn
<1>2. \A S : HandlerIn(S)' <=> handler'[r] \in S
  BY DEF OneRequest, HandlerIn
<1>3. UNCHANGED thread
  BY DEF SignalComes, HandlerRuns, Handler
<1>4. CASE SignalComes(r)
  BY <1>1, <1>2, <1>3, <1>4 DEF SignalComes, Signal
<1>5. CASE ReadActive(r)
  BY <1>1, <1>2, <1>3, <1>5 DEF ReadActive
<1>6. CASE UnsetActive(r)
  BY <1>1, <1>2, <1>3, <1>6 DEF UnsetActive
<1>7. CASE NoteClosed(r)
  BY <1>1, <1>2, <1>3, <1>7 DEF NoteClosed
<1>8. CASE CloseActive(r)
  <2>1. thread \in PC
    BY DEF RunInv
  <2>2. number # "part"
    BY <1>1, <1>8, <2>1 DEF CloseActive, PC, Reading
  <2>3. QED  BY <1>1, <1>2, <1>3, <1>8, <2>2 DEF CloseActive, CloseNumber
<1>9. QED
  BY <1>4, <1>5, <1>6, <1>7, <1>8 DEF HandlerRuns, Handler

(* Every step keeps what relates flag, number and places, as long as only  *)
(* one stop request is made.                                               *)
LEMMA FdStep ==
  ASSUME OneRequest, BaseInv, FdInv, [Next]_vars
  PROVE  FdInv'
<1> USE DEF BaseInv
<1>1. CASE ThreadStep
  BY <1>1, UseSteps, UseKeepsNumber, EdgesKeepFd
<1>2. ASSUME NEW r \in Request, SignalComes(r) \/ HandlerRuns(r)  PROVE FdInv'
  BY <1>2, HandlerKeepsFd
<1>3. ASSUME UNCHANGED <<stop, active, signalClosed, foreign, handler, thread>>,
             number' = number \/ (number = "conn" /\ number' = "broken")
      PROVE  FdInv'
  <2>1. \A S : HandlerIn(S)' = HandlerIn(S)
    BY <1>3 DEF HandlerIn
  <2>2. Lost' = Lost /\ Connected' = Connected
    BY <1>3 DEF Lost, Connected
  <2>3. StopInv' /\ SignalInv' /\ NumberInv'
    BY <1>3, <2>1, <2>2 DEF FdInv, StopInv, SignalInv, NumberInv
  <2>4. QED  BY <2>3 DEF FdInv
<1>4. CASE GUI \/ CloseWindow \/ Break \/ (\E b \in Button : Click(b)) \/ UNCHANGED vars
  <2>1. /\ UNCHANGED <<stop, active, signalClosed, foreign, handler, thread>>
        /\ number' = number \/ (number = "conn" /\ number' = "broken")
    BY <1>4 DEF GUI, TimerExit, CleanedUp, CloseWindow, Break, Open, Click, fdVars, vars
  <2>2. QED  BY <2>1, <1>3
<1>5. QED  BY <1>1, <1>2, <1>4, Steps DEF OtherStep

(* It holds in every behaviour with one request.                           *)
LEMMA FdHolds == OneRequest => (Spec => []FdInv)
<1>1. OneRequest /\ FdInv /\ BaseInv /\ [Next]_vars => (OneRequest /\ FdInv)'
  BY FdStep DEF OneRequest
<1>2. QED  BY <1>1, FdInit, BaseHolds, PTL DEF Spec

(* With one stop request at most, the update thread and the handler close  *)
(* the connection between them: neither closes a file that got its number. *)
THEOREM ClosesItsOwn == OneRequest => (Spec => []ClosesOnlyItsOwn)
<1>1. FdInv => ClosesOnlyItsOwn
  BY DEF FdInv, NumberInv, ClosesOnlyItsOwn
<1>2. QED  BY <1>1, FdHolds, PTL

(* With one stop request at most, no attempt leaves a connection open that *)
(* the handler is not about to close.                                      *)
THEOREM ClosesAll == OneRequest => (Spec => []NoConnectionLeft)
<1>1. FdInv => NoConnectionLeft
  BY DEF FdInv, NumberInv, NoConnectionLeft, Between, Connected, HandlerIn
<1>2. QED  BY <1>1, FdHolds, PTL
=============================================================================
