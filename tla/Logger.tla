------------------------------- MODULE Logger -------------------------------
(***************************************************************************)
(* The asynchronous logger of src/common/logger.c: log_msg puts a line in  *)
(* a bounded queue or counts it as dropped, one logger thread writes the   *)
(* lines to the file and to the ring of recent lines, logger_stop lets it  *)
(* drain the queue and tears everything down.                              *)
(*                                                                         *)
(* A line is the number of the log_msg call that made it, so that lines    *)
(* are told apart; lines below min_level never get that far.  As in        *)
(* ThreadPool, the code under the mutex is one step.                       *)
(***************************************************************************)
EXTENDS Integers, Sequences

CONSTANTS
  Thread,     \* threads that call log_msg
  QueueCap,   \* LOG_QUEUE_CAP
  RingCap,    \* GUI_LOG_RING
  MaxCalls    \* bound on the calls of log_msg in a behaviour

ASSUME LoggerAssumption ==
  QueueCap \in Nat \ {0} /\ RingCap \in Nat \ {0} /\ MaxCalls \in Nat

VARIABLES
  started,    \* g_logger.started
  stopping,   \* g_logger.stop
  queue, head, tail, count,    \* g_logger.queue and its indices
  dropped,    \* g_logger.dropped
  writer,     \* where logger_thread stands
  taken,      \* the line it has taken from the queue
  overflow,   \* the count of dropped lines it has taken with it
  file,       \* the log file
  ring, ringStart, ringCount,  \* the ring of recent lines
  caller,     \* where each thread stands in log_msg
  calls,      \* calls of log_msg so far
  accepted,   \* every line that was put in the queue
  lost        \* lines dropped so far

slotVars   == <<queue, head, tail, count>>
queueVars  == <<started, stopping, slotVars, dropped>>
writerVars == <<writer, taken, overflow>>
outVars    == <<file, ring, ringStart, ringCount>>
callVars   == <<caller, calls, accepted, lost>>
loggerVars == <<queueVars, writerVars, outVars, callVars>>

Entry(n)    == [is |-> "line", n |-> n]
Overflow(n) == [is |-> "dropped", n |-> n]    \* "dropped <n> log lines"
NoEntry     == Entry(0)

WriterPC == {"top", "asleep", "woken", "warn", "write", "gone"}

(* The lines in the queue, oldest first.                                   *)
lines == [i \in 1..count |-> queue[(head + i - 1) % QueueCap]]

EmptyQueue == [s \in 0..(QueueCap - 1) |-> 0]

(* logger_start, before any other thread exists.                           *)
LoggerInit ==
  /\ started = TRUE /\ stopping = FALSE /\ dropped = 0
  /\ queue = EmptyQueue /\ head = 0 /\ tail = 0 /\ count = 0
  /\ writer = "top" /\ taken = 0 /\ overflow = 0
  /\ file = <<>>
  /\ ring = [s \in 0..(RingCap - 1) |-> NoEntry] /\ ringStart = 0 /\ ringCount = 0
  /\ caller = [t \in Thread |-> "idle"] /\ calls = 0 /\ accepted = <<>> /\ lost = 0

Wake == writer' = IF writer = "asleep" THEN "woken" ELSE writer
-----------------------------------------------------------------------------
(* log_msg                                                                 *)

(* The flag is read before the mutex is taken; a logger that is not        *)
(* running leaves the line to stderr.                                      *)
LogEnter(t) ==
  /\ caller[t] = "idle" /\ calls < MaxCalls
  /\ IF started THEN caller' = [caller EXCEPT ![t] = "lock"] /\ UNCHANGED calls
                ELSE calls' = calls + 1 /\ UNCHANGED caller
  /\ UNCHANGED <<queueVars, writerVars, outVars, accepted, lost>>

FullLate  == count > QueueCap
QueueFull == count = QueueCap

DropSilently == UNCHANGED dropped
CountDrop    == dropped' = dropped + 1

LogPut(t) ==
  /\ caller[t] = "lock" /\ calls < MaxCalls
  /\ caller' = [caller EXCEPT ![t] = "idle"] /\ calls' = calls + 1
  /\ IF QueueFull
     THEN CountDrop /\ lost' = lost + 1 /\ UNCHANGED <<slotVars, accepted, writer>>
     ELSE /\ queue' = [queue EXCEPT ![tail] = calls'] /\ tail' = (tail + 1) % QueueCap
          /\ count' = count + 1 /\ UNCHANGED head
          /\ accepted' = Append(accepted, calls')
          /\ Wake /\ UNCHANGED <<dropped, lost>>
  /\ UNCHANGED <<started, stopping, taken, overflow, outVars>>
-----------------------------------------------------------------------------
(* logger_thread                                                           *)

WriterWait ==
  /\ writer \in {"top", "woken"} /\ ~stopping /\ count = 0
  /\ writer' = "asleep"
  /\ UNCHANGED <<queueVars, taken, overflow, outVars, callVars>>

WriterWakesUp ==
  /\ writer = "asleep" /\ writer' = "woken"
  /\ UNCHANGED <<queueVars, taken, overflow, outVars, callVars>>

(* The oldest line is copied before the head moves on; faulty: after.      *)
MoveHead   == head' = (head + 1) % QueueCap /\ count' = count - 1 /\ UNCHANGED <<queue, tail>>
TakeMoved  == MoveHead /\ taken' = queue[head']
TakeOldest == MoveHead /\ taken' = queue[head]

WriterTake ==
  /\ writer \in {"top", "woken"} /\ count > 0 /\ TakeOldest
  /\ overflow' = dropped /\ dropped' = 0
  /\ writer' = IF dropped > 0 THEN "warn" ELSE "write"
  /\ UNCHANGED <<started, stopping, outVars, callVars>>

(* ring_add overwrites the oldest line once the ring is full.              *)
RingAddAtCount(e) ==
  /\ ring' = [ring EXCEPT ![ringCount % RingCap] = e]
  /\ ringCount' = (IF ringCount = RingCap THEN ringCount ELSE ringCount + 1)
  /\ UNCHANGED ringStart

RingNext   == (ringStart + ringCount) % RingCap
RingAdd(e) ==
  /\ ring' = [ring EXCEPT ![RingNext] = e]
  /\ IF ringCount = RingCap
     THEN ringStart' = (ringStart + 1) % RingCap /\ UNCHANGED ringCount
     ELSE ringCount' = ringCount + 1 /\ UNCHANGED ringStart

(* write_line_unlocked.                                                    *)
Write(e) == file' = Append(file, e) /\ RingAdd(e)

WriterWarn ==
  /\ writer = "warn" /\ writer' = "write"
  /\ Write(Overflow(overflow)) /\ overflow' = 0
  /\ UNCHANGED <<queueVars, taken, callVars>>

WriterWrite ==
  /\ writer = "write" /\ writer' = "top"
  /\ Write(Entry(taken)) /\ taken' = 0
  /\ UNCHANGED <<queueVars, overflow, callVars>>

(* The loop is left only with an empty queue.                              *)
LeavesWithLines == stopping
LeavesDrained   == stopping /\ count = 0

WriterLeave ==
  /\ writer \in {"top", "woken"} /\ LeavesDrained
  /\ writer' = "gone"
  /\ UNCHANGED <<queueVars, taken, overflow, outVars, callVars>>
-----------------------------------------------------------------------------
(* logger_stop                                                             *)

NoSignal   == UNCHANGED writer
StopSignal == Wake

StopAsk ==
  /\ started /\ ~stopping
  /\ stopping' = TRUE /\ StopSignal
  /\ UNCHANGED <<started, slotVars, dropped, taken, overflow, outVars, callVars>>

(* pthread_join, fclose, and the state is zeroed.                          *)
StopJoin ==
  /\ stopping /\ started /\ writer = "gone"
  /\ started' = FALSE /\ stopping' = FALSE /\ dropped' = 0
  /\ queue' = EmptyQueue /\ head' = 0 /\ tail' = 0 /\ count' = 0
  /\ ring' = [s \in 0..(RingCap - 1) |-> NoEntry] /\ ringStart' = 0 /\ ringCount' = 0
  /\ UNCHANGED <<writerVars, file, callVars>>

(* logger_recent with room for max lines.                                  *)
Recent(max) ==
  LET n     == IF ringCount < max THEN ringCount ELSE max
      first == (ringStart + ringCount - n + RingCap) % RingCap
  IN [i \in 1..n |-> ring[(first + i - 1) % RingCap]]

LogMsg(t)     == LogEnter(t) \/ LogPut(t)
LoggerThread  == WriterTake \/ WriterWarn \/ WriterWrite \/ WriterLeave \/ WriterWait
LoggerStep    == (\E t \in Thread : LogMsg(t)) \/ LoggerThread \/ WriterWakesUp
                   \/ StopAsk \/ StopJoin

LoggerSpec == LoggerInit /\ [][LoggerStep]_loggerVars
-----------------------------------------------------------------------------
LoggerTypeOK ==
  /\ started \in BOOLEAN /\ stopping \in BOOLEAN
  /\ queue \in [0..(QueueCap - 1) -> Nat] /\ count \in 0..QueueCap /\ dropped \in Nat
  /\ head \in 0..(QueueCap - 1) /\ tail \in 0..(QueueCap - 1)
  /\ writer \in WriterPC /\ taken \in Nat /\ overflow \in Nat
  /\ file \in Seq([is : {"line", "dropped"}, n : Nat])
  /\ ring \in [0..(RingCap - 1) -> [is : {"line", "dropped"}, n : Nat]]
  /\ ringStart \in 0..(RingCap - 1) /\ ringCount \in 0..RingCap
  /\ caller \in [Thread -> {"idle", "lock"}] /\ calls \in 0..MaxCalls
  /\ accepted \in Seq(Nat) /\ lost \in Nat

(* The file has every accepted line once and in the order of acceptance,   *)
(* up to the lines that are still in the queue or in the writer's hand.    *)
IsLine(e) == e.is = "line"
LinesOf(f) ==
  LET upTo[n \in 0..Len(f)] ==
        IF n = 0 THEN <<>> ELSE IF IsLine(f[n]) THEN Append(upTo[n - 1], f[n]) ELSE upTo[n - 1]
  IN  upTo[Len(f)]
Written   == LinesOf(file)
InHand    == IF writer \in {"warn", "write"} THEN <<Entry(taken)>> ELSE <<>>
Queued    == [i \in 1..Len(lines) |-> Entry(lines[i])]
Accepted  == [i \in 1..Len(accepted) |-> Entry(accepted[i])]
WrittenInOrder == started => Written \o InHand \o Queued = Accepted

(* Every dropped line is counted in a warning of the file, or will be: a   *)
(* count that waits to be written has a line in the queue with which the   *)
(* writer takes it, so none is left over with a drained queue.             *)
DropsOf(f) ==
  LET upTo[n \in 0..Len(f)] ==
        IF n = 0 THEN 0 ELSE IF f[n].is = "dropped" THEN upTo[n - 1] + f[n].n ELSE upTo[n - 1]
  IN  upTo[Len(f)]
Reported == DropsOf(file)
DropsReported ==
  /\ started => Reported + overflow + dropped = lost
  /\ dropped > 0 => count > 0

(* logger_recent gives the newest lines of the file, oldest first, for     *)
(* every size of the caller's array and at every turn of the ring.         *)
RecentIsTail ==
  started =>
    \A max \in 1..(RingCap + 1) :
      LET n == Len(Recent(max)) IN
      /\ n <= max /\ (n < max => n = Len(file) \/ n = RingCap)
      /\ Recent(max) = SubSeq(file, Len(file) - n + 1, Len(file))
=============================================================================
