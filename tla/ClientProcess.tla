---------------------------- MODULE ClientProcess ----------------------------
(***************************************************************************)
(* One client process: the update thread with its attempts                 *)
(* (src/client/downloader.c), the GUI's main loop                          *)
(* (src/client/client_gui.c) and the handler of SIGINT and SIGTERM         *)
(* (src/client/client_main.c), which meet in the flag g_client_stop, in    *)
(* the number of the connection's descriptor, and in the two buttons.      *)
(*                                                                         *)
(* Every attempt's connection gets the same descriptor number, the lowest  *)
(* that is free, and so does the partial file when the number is free: the *)
(* worst case.  Each access to a shared variable of the process is a step; *)
(* the accesses are sequentially consistent.  What the server says is      *)
(* UpdateProtocol's subject: here it answers anything, or nothing.         *)
(***************************************************************************)
EXTENDS Naturals, FiniteSets

CONSTANTS
  Request,    \* the signals that come, each handled once
  Size,       \* length of the package
  RetryMax,
  MaxClicks, MaxLosses  \* bounds: clicks on a button, connections that break

ASSUME ClientAssumption ==
  Size \in Nat \ {0} /\ RetryMax \in Nat \ {0} /\ MaxClicks \in Nat /\ MaxLosses \in Nat

Button == {"pause", "resume"}
NoResume == Size + 1        \* there is no .resume file

VARIABLES
  stop,            \* g_client_stop
  active,          \* g_active_fd is the number
  signalClosed,    \* g_signal_closed_fd is the number
  number,          \* what the descriptor number stands for
  handler,         \* where each handler stands
  thread,          \* where the update thread stands
  result,          \* what run_attempt returns
  attempt,
  got, part, saved,\* bytes received, in the .part file, and in .resume
  allowed, requested,  \* pause_allowed/resume_allowed, ..._requested
  main,            \* the main thread: in the main loop, in exit(), gone
  foreign,         \* a close hit something else than the connection
  stray,           \* a message to the server went into the .part file
  period, madeIn,  \* the download or pause under way; those clicked in
  clicks, losses   \* what is left of the budget

fdVars   == <<active, signalClosed, number, foreign, stray>>
fileVars == <<got, part, saved>>
guiVars  == <<allowed, requested, period, madeIn>>
vars == <<stop, fdVars, handler, thread, result, attempt, fileVars, guiVars, main, clicks, losses>>

HandlerPC == {"none", "read", "unset", "note", "close", "done"}
Reading   == {"talk", "bye", "recv", "ack"}
PC == Reading \cup
  {"top", "connect", "set", "clear", "check", "handshake", "request", "open", "loop",
   "pausing", "wait", "resuming", "verify", "record",
   "test closed", "unset", "close", "after", "sleep", "over"}
Result == {"none", "success", "again", "now", "paused", "fatal"}

Init ==
  /\ stop = FALSE
  /\ active = FALSE /\ signalClosed = FALSE /\ number = "free" /\ foreign = FALSE
  /\ stray = FALSE
  /\ handler = [r \in Request |-> "none"]
  /\ thread = "top" /\ result = "none" /\ attempt = 1
  /\ part \in 0..Size /\ got = part /\ saved = (IF part = 0 THEN NoResume ELSE part)
  /\ allowed = {} /\ requested = {} /\ period = 0 /\ madeIn = [b \in Button |-> 0]
  /\ main = "loop" /\ clicks = MaxClicks /\ losses = MaxLosses
-----------------------------------------------------------------------------
(* client_request_stop, in a signal handler                                *)

HandlerAt(r, pc) == handler' = [handler EXCEPT ![r] = pc]

CloseNumber ==
  /\ number' = "free"
  /\ foreign' = (foreign \/ number = "part")

Signal(r) ==
  /\ handler[r] = "none" /\ HandlerAt(r, "read") /\ stop' = TRUE
  /\ UNCHANGED fdVars

ReadActive(r) ==
  /\ handler[r] = "read" /\ HandlerAt(r, IF active THEN "unset" ELSE "done")
  /\ UNCHANGED <<stop, fdVars>>

UnsetActive(r) ==
  /\ handler[r] = "unset" /\ HandlerAt(r, "note") /\ active' = FALSE
  /\ UNCHANGED <<stop, signalClosed, number, foreign, stray>>

NoteClosed(r) ==
  /\ handler[r] = "note" /\ HandlerAt(r, "close") /\ signalClosed' = TRUE
  /\ UNCHANGED <<stop, active, number, foreign, stray>>

CloseActive(r) ==
  /\ handler[r] = "close" /\ HandlerAt(r, "done") /\ CloseNumber
  /\ UNCHANGED <<stop, active, signalClosed, stray>>

Handler(r) ==
  /\ ReadActive(r) \/ UnsetActive(r) \/ NoteClosed(r) \/ CloseActive(r)
  /\ UNCHANGED <<thread, result, attempt, fileVars, guiVars, main, clicks, losses>>
-----------------------------------------------------------------------------
(* The GUI                                                                 *)

(* client_gui_set_controls drops the requests of buttons that go away.     *)
KeepsRequests(buttons) == allowed' = buttons /\ UNCHANGED requested
SetControls(buttons)   == allowed' = buttons /\ requested' = requested \cap buttons

NewPeriod   == period' = period + 1
SamePeriod  == UNCHANGED <<period, madeIn>>
GuiStill    == UNCHANGED guiVars

(* mouse_cb.                                                               *)
Click(b) ==
  /\ main = "loop" /\ b \in allowed /\ clicks > 0 /\ clicks' = clicks - 1
  /\ requested' = requested \cup {b} /\ madeIn' = [madeIn EXCEPT ![b] = period]
  /\ UNCHANGED <<stop, fdVars, handler, thread, result, attempt, fileVars, allowed, period,
                 main, losses>>

(* timer_cb joins the update thread and exits.                             *)
TimerExit ==
  /\ main = "loop" /\ thread = "over" /\ main' = "gone"
  /\ UNCHANGED <<stop, fdVars, handler, thread, result, attempt, fileVars, guiVars, clicks, losses>>

(* The window is closed: exit() under the running update thread.           *)
CloseWindow ==
  /\ main = "loop" /\ main' = "exit"
  /\ UNCHANGED <<stop, fdVars, handler, thread, result, attempt, fileVars, guiVars, clicks, losses>>

CleanedUp ==
  /\ main = "exit" /\ main' = "gone"
  /\ UNCHANGED <<stop, fdVars, handler, thread, result, attempt, fileVars, guiVars, clicks, losses>>

GUI == TimerExit \/ CleanedUp
-----------------------------------------------------------------------------
(* The update thread: run_attempt                                          *)

Open == number = "conn"
At(pc) == thread' = pc
ThreadStill == UNCHANGED <<stop, handler, main, clicks, losses>>
DataStill   == UNCHANGED <<fileVars, guiVars>>
FdStill     == UNCHANGED fdVars

(* run_attempt returns r after close_attempt_connection.                   *)
Leave(r) == At("test closed") /\ result' = r
PausedOr(r) == IF stop THEN "paused" ELSE r

Top ==
  /\ thread = "top"
  /\ IF stop THEN At("over") /\ result' = "paused" ELSE At("connect") /\ UNCHANGED result
  /\ FdStill /\ DataStill /\ UNCHANGED attempt

Connect ==
  /\ thread = "connect"
  /\ \/ At("set") /\ number' = "conn" /\ UNCHANGED result
     \/ At("after") /\ result' = PausedOr("again") /\ UNCHANGED number
  /\ DataStill /\ UNCHANGED <<active, signalClosed, foreign, stray, attempt>>

(* client_set_active_fd.                                                   *)
SetActive ==
  /\ \/ thread = "set" /\ At("clear") /\ active' = TRUE /\ UNCHANGED signalClosed
     \/ thread = "clear" /\ At("check") /\ signalClosed' = FALSE /\ UNCHANGED active
  /\ DataStill /\ UNCHANGED <<number, foreign, stray, result, attempt>>

(* A stop request that saw no active descriptor is noticed here.           *)
StopUnseen == FALSE
StopSeen   == stop

CheckStop ==
  /\ thread = "check"
  /\ IF StopSeen THEN Leave("paused") ELSE At("handshake") /\ UNCHANGED result
  /\ FdStill /\ DataStill /\ UNCHANGED attempt

(* tls_connect_connection: a silent server makes it time out.              *)
Handshake ==
  /\ thread = "handshake"
  /\ \/ Open /\ At("talk") /\ UNCHANGED result
     \/ Leave(PausedOr("again"))
  /\ FdStill /\ DataStill /\ UNCHANGED attempt

(* HELLO, AUTH and VERSION_REQ are answered.                               *)
Talk ==
  /\ thread = "talk" /\ Open
  /\ \/ At("bye") /\ SetControls({}) /\ UNCHANGED result
     \/ At("request") /\ UNCHANGED <<allowed, requested, result>>
     \/ \E r \in {"again", "fatal"} : Leave(r) /\ UNCHANGED <<allowed, requested>>
  /\ SamePeriod /\ FdStill /\ UNCHANGED <<fileVars, attempt>>

TalkFails ==
  /\ thread = "talk" /\ ~Open /\ Leave(PausedOr("again"))
  /\ FdStill /\ DataStill /\ UNCHANGED attempt

(* UPTODATE: the BYE, or a failure to read it.                             *)
Bye ==
  /\ thread = "bye" /\ Leave("success")
  /\ FdStill /\ DataStill /\ UNCHANGED attempt
-----------------------------------------------------------------------------
(* The update thread: receive_update                                       *)

KeepResume  == UNCHANGED saved
WriteResume == saved' = got

(* save_interrupted_download: the .part file is closed, .resume written.   *)
SaveInterrupted(r) ==
  /\ WriteResume /\ SetControls({}) /\ SamePeriod /\ Leave(r)
  /\ number' = IF number = "part" THEN "free" ELSE number
  /\ UNCHANGED <<active, signalClosed, foreign, stray, got, part, attempt>>

(* The offset is the size of the .part file, and goes with DOWNLOAD_REQ.   *)
RequestPart ==
  /\ thread = "request" /\ number \in {"conn", "broken"} /\ At("open") /\ got' = part
  /\ GuiStill /\ FdStill /\ UNCHANGED <<part, saved, result, attempt>>

RequestFails ==
  /\ thread = "request" /\ ~Open
  /\ got' = part /\ saved' = part
  /\ SetControls({}) /\ SamePeriod /\ Leave(PausedOr("again"))
  /\ FdStill /\ UNCHANGED <<part, attempt>>

(* fopen of the .part file; the Pause button appears.                      *)
OpenPart ==
  /\ thread = "open" /\ At("loop")
  /\ number' = IF number = "free" THEN "part" ELSE number
  /\ SetControls({"pause"}) /\ NewPeriod
  /\ UNCHANGED <<active, signalClosed, foreign, stray, madeIn, fileVars, result, attempt>>

OpenFails ==
  /\ thread = "open" /\ Leave("fatal")
  /\ FdStill /\ DataStill /\ UNCHANGED attempt

PauseClicked ==
  /\ thread = "loop" /\ "pause" \in requested /\ At("pausing")
  /\ WriteResume /\ SetControls({"resume"}) /\ NewPeriod
  /\ FdStill /\ UNCHANGED <<got, part, madeIn, result, attempt>>

LoopOn ==
  /\ thread = "loop" /\ "pause" \notin requested
  /\ IF stop THEN SaveInterrupted("paused")
     ELSE At("recv") /\ FdStill /\ DataStill /\ UNCHANGED <<result, attempt>>

(* DATA; TRANSFER_DONE; or what ends the attempt: an ERROR, a wrong type,  *)
(* a wrong digest, too many bytes, a full disk.                            *)
Receive ==
  /\ thread = "recv" /\ Open
  /\ \/ /\ got < Size /\ At("loop") /\ got' = got + 1 /\ part' = part + 1
        /\ GuiStill /\ UNCHANGED <<saved, result>>
     \/ At("verify") /\ GuiStill /\ UNCHANGED <<fileVars, result>>
     \/ \E r \in {"again", "fatal"}, left \in {0, part} :
          Leave(r) /\ part' = left /\ SetControls({}) /\ SamePeriod /\ UNCHANGED <<got, saved>>
  /\ FdStill /\ UNCHANGED attempt

ReceiveFails == thread = "recv" /\ ~Open /\ SaveInterrupted(PausedOr("again"))

(* Flushed, the digest compared, renamed into place.  A wrong digest       *)
(* removes the file, another failure leaves it.                            *)
Verify ==
  /\ thread = "verify"
  /\ \/ got = Size /\ part' = 0 /\ At("ack") /\ GuiStill /\ UNCHANGED result
     \/ /\ \/ part' = 0    /\ Leave("again")
           \/ part' = part /\ \E r \in {"again", "fatal"} : Leave(r)
        /\ SetControls({}) /\ SamePeriod
  /\ FdStill /\ UNCHANGED <<got, saved, attempt>>

(* The answer to RESULT, or a failure to read it.                          *)
Ack ==
  /\ thread = "ack" /\ At("record")
  /\ FdStill /\ DataStill /\ UNCHANGED <<result, attempt>>

(* write_version_file; .resume is removed.                                 *)
Record ==
  /\ thread = "record" /\ SetControls({}) /\ SamePeriod
  /\ \/ Leave("success") /\ saved' = NoResume
     \/ Leave("fatal") /\ UNCHANGED saved
  /\ FdStill /\ UNCHANGED <<got, part, attempt>>

(* MSG_PAUSE.  When the number stands for the .part file the TLS record    *)
(* goes there.  A failure leaves without the controls.                     *)
SendPause ==
  /\ thread = "pausing"
  /\ \/ number # "free" /\ At("wait") /\ UNCHANGED <<result, attempt>>
     \/ number \in {"free", "broken"} /\ Leave("again") /\ UNCHANGED attempt
  /\ stray' = (stray \/ number = "part")
  /\ DataStill /\ UNCHANGED <<active, signalClosed, number, foreign>>

(* wait_for_gui_resume_on_connection.                                      *)
ResumeClicked ==
  /\ thread = "wait" /\ ~stop /\ "resume" \in requested
  /\ At("resuming") /\ requested' = requested \ {"resume"}
  /\ FdStill /\ SamePeriod /\ UNCHANGED <<fileVars, allowed, result, attempt>>

SendResume ==
  /\ thread = "resuming"
  /\ \/ number \in {"conn", "broken"} /\ At("loop") /\ SetControls({"pause"}) /\ NewPeriod
        /\ UNCHANGED <<madeIn, result>>
     \/ ~Open /\ Leave("now") /\ SetControls({}) /\ SamePeriod
  /\ FdStill /\ UNCHANGED <<fileVars, attempt>>

(* Stopped, or PAUSE_TIMEOUT_SEC are over.                                 *)
WaitEnds ==
  /\ thread = "wait" /\ Leave("paused") /\ SetControls({}) /\ SamePeriod
  /\ FdStill /\ UNCHANGED <<fileVars, attempt>>
-----------------------------------------------------------------------------
(* The update thread: close_attempt_connection, CheckForUpdate             *)

AlwaysSignalClosed == TRUE
NeverSignalClosed  == FALSE
WasSignalClosed    == signalClosed

TestClosed ==
  /\ thread = "test closed"
  /\ IF WasSignalClosed THEN At("after") /\ signalClosed' = FALSE
                        ELSE At("unset") /\ UNCHANGED signalClosed
  /\ DataStill /\ UNCHANGED <<active, number, foreign, stray, result, attempt>>

CloseConnection ==
  /\ \/ thread = "unset" /\ At("close") /\ active' = FALSE /\ UNCHANGED <<number, foreign, stray>>
     \/ thread = "close" /\ At("after") /\ CloseNumber /\ UNCHANGED active
  /\ DataStill /\ UNCHANGED <<signalClosed, stray, result, attempt>>

OneMore  == attempt <= RetryMax
MayRetry == attempt < RetryMax

After ==
  /\ thread = "after"
  /\ IF result \in {"again", "now"} /\ MayRetry
     THEN At(IF result = "again" THEN "sleep" ELSE "top") /\ SetControls({})
     ELSE At(IF result = "success" THEN "sleep" ELSE "over") /\ UNCHANGED <<allowed, requested>>
  /\ SamePeriod /\ FdStill /\ UNCHANGED <<fileVars, result, attempt>>

(* interruptible_sleep_ms.                                                 *)
Sleep ==
  /\ thread = "sleep"
  /\ IF stop THEN At("over") /\ result' = "paused" /\ UNCHANGED attempt
     ELSE IF result = "success" THEN At("over") /\ UNCHANGED <<result, attempt>>
     ELSE At("top") /\ attempt' = attempt + 1 /\ UNCHANGED result
  /\ FdStill /\ DataStill

OwnStep ==
  \/ Top \/ Connect \/ SetActive \/ CheckStop \/ Handshake \/ TalkFails
  \/ (~Open /\ (Bye \/ Ack))
  \/ RequestPart \/ RequestFails \/ OpenPart \/ OpenFails \/ PauseClicked \/ LoopOn \/ ReceiveFails
  \/ Verify \/ Record \/ SendPause \/ ResumeClicked \/ SendResume \/ WaitEnds
  \/ TestClosed \/ CloseConnection \/ After \/ Sleep

ServerStep == Talk \/ Receive \/ (Open /\ (Bye \/ Ack))

UpdateThread == main # "gone" /\ OwnStep /\ ThreadStill
FromServer   == main # "gone" /\ ServerStep /\ ThreadStill

(* The connection breaks, as seen from the client.                         *)
Break ==
  /\ Open /\ losses > 0 /\ losses' = losses - 1 /\ number' = "broken"
  /\ UNCHANGED <<stop, active, signalClosed, foreign, stray, handler, thread, result, attempt, fileVars,
                 guiVars, main, clicks>>

SignalComes(r) ==
  /\ main # "gone" /\ Signal(r)
  /\ UNCHANGED <<thread, result, attempt, fileVars, guiVars, main, clicks, losses>>

HandlerRuns(r) == main # "gone" /\ Handler(r)

Next ==
  \/ UpdateThread \/ FromServer \/ GUI \/ CloseWindow \/ Break
  \/ \E r \in Request : SignalComes(r) \/ HandlerRuns(r)
  \/ \E b \in Button : Click(b)

Spec == Init /\ [][Next]_vars

(* The threads run; a read of a closed or broken connection fails, other   *)
(* waits time out.  The server need not say anything.                      *)
Fairness ==
  /\ WF_vars(UpdateThread) /\ WF_vars(GUI)
  /\ \A r \in Request : WF_vars(HandlerRuns(r))

FairSpec == Spec /\ Fairness
-----------------------------------------------------------------------------
TypeOK ==
  /\ stop \in BOOLEAN /\ active \in BOOLEAN /\ signalClosed \in BOOLEAN /\ foreign \in BOOLEAN
  /\ stray \in BOOLEAN
  /\ number \in {"free", "conn", "broken", "part"}
  /\ handler \in [Request -> HandlerPC] /\ thread \in PC /\ result \in Result
  /\ attempt \in 1..RetryMax
  /\ got \in 0..Size /\ part \in 0..Size /\ saved \in 0..NoResume
  /\ allowed \subseteq Button /\ requested \subseteq allowed
  /\ period \in Nat /\ madeIn \in [Button -> Nat]
  /\ main \in {"loop", "exit", "gone"} /\ clicks \in 0..MaxClicks /\ losses \in 0..MaxLosses

(* The update thread and the stop request close the connection between     *)
(* them: neither closes a file that got the number meanwhile.              *)
ClosesOnlyItsOwn == ~foreign

(* After an attempt the connection is closed, or the handler is about to.  *)
NoConnectionLeft ==
  thread \in {"after", "sleep", "top", "over"} /\ number \in {"conn", "broken"} =>
    \E r \in Request : handler[r] = "close"

(* A download that ends paused, by Ctrl+C or from the GUI, has left in     *)
(* .resume what it received, and that is the length of the .part file;     *)
(* unless a Pause clicked right after a stop request went into the file.   *)
ResumeIsSaved ==
  [][/\ thread \in {"request", "loop", "recv", "wait"}
     /\ thread' = "test closed" /\ result' = "paused"
     => saved' = got' /\ (saved' = part' \/ stray)]_vars

(* A click acts on the download, or the pause, whose button was clicked,   *)
(* and on no later one, whatever ended the first.                          *)
ClickActsWhereMade ==
  [][/\ PauseClicked  => madeIn["pause"] = period
     /\ ResumeClicked => madeIn["resume"] = period]_vars

(* A stop request ends the process, wherever the update thread stands and  *)
(* also when the server never says another word.                           *)
StopIsNoticed == stop ~> main = "gone"
=============================================================================
