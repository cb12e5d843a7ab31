---------------------------- MODULE LoggerProofs ----------------------------
(***************************************************************************)
(* What is proved of Logger for every set of threads and every capacity of *)
(* the queue and of the ring.                                              *)
(***************************************************************************)
EXTENDS Logger, SequenceTheorems, TLAPS

(* What the ring and the file hold.                                        *)
Entries == [is : {"line", "dropped"}, n : Nat]

(* The slot of the i-th recent line.                                       *)
Slot(i) == (ringStart + i - 1) % RingCap

(* The ring holds the end of the file, and all of it until it is full.     *)
RingInv ==
  started =>
    /\ ringCount <= Len(file) /\ (ringCount < RingCap => ringCount = Len(file))
    /\ \A i \in 1..ringCount : ring[Slot(i)] = file[Len(file) - ringCount + i]

(* The writer is gone when the logger has been taken down, and a count of  *)
(* dropped lines waits for a line behind it.                               *)
WriterInv ==
  /\ ~started => writer = "gone"
  /\ dropped > 0 => count > 0

(* log_msg writes behind the newest line of the queue.                     *)
QueueInv == tail = (head + count) % QueueCap

LoggerInv == LoggerTypeOK /\ RingInv /\ WriterInv /\ QueueInv
-----------------------------------------------------------------------------
(* Index arithmetic of the ring: one round of wrapping at most.            *)
LEMMA Wrap ==
  ASSUME NEW c \in Nat \ {0}, NEW h \in 0..(c-1), NEW k \in 0..c
  PROVE  (h + k) % c = IF h + k < c THEN h + k ELSE h + k - c
OBVIOUS

(* An index modulo the capacity is an index.                               *)
LEMMA WrapRange ==
  ASSUME NEW c \in Nat \ {0}, NEW k \in Nat
  PROVE  k % c \in 0..(c-1)
OBVIOUS

(* Starting k slots on and counting j from there is counting k + j.        *)
LEMMA StartLater ==
  ASSUME NEW c \in Nat \ {0}, NEW h \in 0..(c-1), NEW k \in 0..c, NEW j \in 0..c, k + j <= c
  PROVE  (((h + k) % c) + j) % c = (h + (k + j)) % c
<1>1. (h + k) % c = IF h + k < c THEN h + k ELSE h + k - c
  BY Wrap
<1>2. k + j \in 0..c
  OBVIOUS
<1>3. (h + (k + j)) % c = IF h + (k + j) < c THEN h + (k + j) ELSE h + (k + j) - c
  BY <1>2, Wrap
<1>4. PICK q \in 0..(c-1) : q = (h + k) % c
  BY <1>1
<1>5. (q + j) % c = IF q + j < c THEN q + j ELSE q + j - c
  BY Wrap
<1>6. q = IF h + k < c THEN h + k ELSE h + k - c
  BY <1>1, <1>4
<1>7. (q + j) % c = (h + (k + j)) % c
  BY <1>3, <1>5, <1>6
<1>8. QED  BY <1>4, <1>7

(* Slots less than a round apart are different.                            *)
LEMMA SlotsApart ==
  ASSUME NEW c \in Nat \ {0}, NEW h \in 0..(c-1), NEW j \in 0..c, NEW k \in 0..c, j < k, k - j < c
  PROVE  (h + j) % c # (h + k) % c
<1>1. (h + j) % c = IF h + j < c THEN h + j ELSE h + j - c
  BY Wrap
<1>2. (h + k) % c = IF h + k < c THEN h + k ELSE h + k - c
  BY Wrap
<1>3. QED  BY <1>1, <1>2

(* A round more makes no difference.                                       *)
LEMMA RoundMore ==
  ASSUME NEW c \in Nat \ {0}, NEW h \in 0..(c-1), NEW k \in 0..c
  PROVE  (h + k + c) % c = (h + k) % c
OBVIOUS
-----------------------------------------------------------------------------
(* The c lines of a queue that start at slot h.                            *)
Window(q, h, c) == [i \in 1..c |-> q[(h + i - 1) % QueueCap]]

(* They are a sequence of lines.                                           *)
LEMMA WindowType ==
  ASSUME NEW q \in [0..(QueueCap - 1) -> Nat], NEW h \in 0..(QueueCap - 1), NEW c \in 0..QueueCap
  PROVE  /\ Window(q, h, c) \in Seq(Nat) /\ Len(Window(q, h, c)) = c
         /\ \A i \in 1..c : Window(q, h, c)[i] = q[(h + i - 1) % QueueCap]
<1>1. ASSUME NEW i \in 1..c  PROVE q[(h + i - 1) % QueueCap] \in Nat
  <2>1. h + i - 1 \in Nat
    OBVIOUS
  <2>2. (h + i - 1) % QueueCap \in 0..(QueueCap - 1)
    BY <2>1, WrapRange, LoggerAssumption
  <2>3. QED  BY <2>2
<1>2. Window(q, h, c) \in [1..c -> Nat] /\ c \in Nat
  BY <1>1, LoggerAssumption DEF Window
<1>3. Window(q, h, c) \in Seq(Nat)
  BY <1>2, SeqDef
<1>4. Len(Window(q, h, c)) = c
  BY <1>2, <1>3, LenProperties
<1>5. QED  BY <1>3, <1>4 DEF Window

(* A line written behind them is their last.                               *)
LEMMA WindowPut ==
  ASSUME NEW q \in [0..(QueueCap - 1) -> Nat], NEW h \in 0..(QueueCap - 1),
         NEW c \in 0..(QueueCap - 1), NEW n \in Nat
  PROVE  Window([q EXCEPT ![(h + c) % QueueCap] = n], h, c + 1) = Append(Window(q, h, c), n)
<1> USE LoggerAssumption
<1>0. PICK p \in [0..(QueueCap - 1) -> Nat] : p = [q EXCEPT ![(h + c) % QueueCap] = n]
  OBVIOUS
<1> DEFINE old == Window(q, h, c)
           new == Window(p, h, c + 1)
<1>1. c \in 0..QueueCap /\ c + 1 \in 0..QueueCap
  OBVIOUS
<1>2. old \in Seq(Nat) /\ Len(old) = c /\ \A i \in 1..c : old[i] = q[(h + i - 1) % QueueCap]
  BY <1>1, WindowType
<1>3. new \in Seq(Nat) /\ Len(new) = c + 1
      /\ \A i \in 1..(c + 1) : new[i] = p[(h + i - 1) % QueueCap]
  BY <1>1, WindowType
<1> HIDE DEF old, new
<1>4. /\ Append(old, n) \in Seq(Nat) /\ Len(Append(old, n)) = c + 1
      /\ \A i \in 1..c : Append(old, n)[i] = old[i]
      /\ Append(old, n)[c + 1] = n
  BY <1>2, AppendProperties
<1>5. ASSUME NEW i \in 1..(c + 1)  PROVE new[i] = Append(old, n)[i]
  <2>1. h + c \in Nat /\ h + i - 1 \in Nat /\ h + i - 1 = h + (i - 1)
    OBVIOUS
  <2>2. /\ (h + c) % QueueCap \in 0..(QueueCap - 1)
        /\ (h + i - 1) % QueueCap \in 0..(QueueCap - 1)
    BY <2>1, WrapRange
  <2>3. CASE i = c + 1
    <3>1. h + i - 1 = h + c
      BY <2>3
    <3>2. p[(h + i - 1) % QueueCap] = n
      BY <1>0, <2>2, <3>1
    <3>3. QED  BY <1>3, <1>4, <2>3, <3>2
  <2>4. CASE i # c + 1
    <3>1. i \in 1..c /\ i - 1 \in 0..QueueCap /\ c \in 0..QueueCap /\ i - 1 < c
          /\ c - (i - 1) < QueueCap
      BY <2>4
    <3>2. (h + (i - 1)) % QueueCap # (h + c) % QueueCap
      BY <3>1, SlotsApart
    <3>3. p[(h + i - 1) % QueueCap] = q[(h + i - 1) % QueueCap]
      BY <1>0, <2>1, <2>2, <3>2
    <3>4. QED  BY <1>2, <1>3, <1>4, <3>1, <3>3
  <2>5. QED  BY <2>3, <2>4
<1>6. new = Append(old, n)
  BY <1>3, <1>4, <1>5, SeqEqual
<1>7. QED  BY <1>0, <1>6 DEF new, old

(* The line in slot h is the first, and the others start one slot on.      *)
LEMMA WindowTake ==
  ASSUME NEW q \in [0..(QueueCap - 1) -> Nat], NEW h \in 0..(QueueCap - 1), NEW c \in 1..QueueCap
  PROVE  /\ Window(q, h, c) # <<>> /\ Head(Window(q, h, c)) = q[h]
         /\ Window(q, (h + 1) % QueueCap, c - 1) = Tail(Window(q, h, c))
<1> USE LoggerAssumption
<1> DEFINE g   == (h + 1) % QueueCap
           old == Window(q, h, c)
           new == Window(q, g, c - 1)
<1>1. c \in 0..QueueCap /\ c - 1 \in 0..QueueCap /\ g \in 0..(QueueCap - 1)
  <2>1. h + 1 \in Nat
    OBVIOUS
  <2>2. QED  BY <2>1, WrapRange
<1>2. old \in Seq(Nat) /\ Len(old) = c /\ \A i \in 1..c : old[i] = q[(h + i - 1) % QueueCap]
  BY <1>1, WindowType
<1> HIDE DEF g
<1>3. new \in Seq(Nat) /\ Len(new) = c - 1
      /\ \A i \in 1..(c - 1) : new[i] = q[(g + i - 1) % QueueCap]
  BY <1>1, WindowType
<1> HIDE DEF old, new
<1>4. old # <<>>
  BY <1>2, EmptySeq
<1>5. /\ Head(old) = old[1] /\ Tail(old) \in Seq(Nat) /\ Len(Tail(old)) = c - 1
      /\ \A i \in 1..(c - 1) : Tail(old)[i] = old[i + 1]
  BY <1>2, <1>4, HeadTailProperties
<1>6. old[1] = q[h]
  <2>1. 1 \in 1..c /\ h + 1 - 1 = h + 0 /\ 0 \in 0..QueueCap
    OBVIOUS
  <2>2. (h + 0) % QueueCap = h
    <3>1. h + 0 = h /\ h % QueueCap = h
      OBVIOUS
    <3>2. QED  BY <3>1
  <2>3. QED  BY <1>2, <2>1, <2>2
<1>7. ASSUME NEW i \in 1..(c - 1)  PROVE new[i] = Tail(old)[i]
  <2>1. i - 1 \in 0..QueueCap /\ 1 \in 0..QueueCap /\ 1 + (i - 1) <= QueueCap /\ i + 1 \in 1..c
    OBVIOUS
  <2>2. (((h + 1) % QueueCap) + (i - 1)) % QueueCap = (h + (1 + (i - 1))) % QueueCap
    BY <2>1, StartLater
  <2>3. g + i - 1 = g + (i - 1) /\ h + (1 + (i - 1)) = h + (i + 1) - 1
    BY <1>1
  <2>4. (g + i - 1) % QueueCap = (h + (i + 1) - 1) % QueueCap
    BY <2>2, <2>3 DEF g
  <2>5. new[i] = q[(g + i - 1) % QueueCap] /\ Tail(old)[i] = old[i + 1]
    BY <1>3, <1>5
  <2>6. old[i + 1] = q[(h + (i + 1) - 1) % QueueCap]
    BY <1>2, <2>1
  <2>7. QED  BY <2>4, <2>5, <2>6
<1>8. new = Tail(old)
  BY <1>3, <1>5, <1>7, SeqEqual
<1>9. QED  BY <1>4, <1>5, <1>6, <1>8 DEF new, old, g

(* The lines in the queue are such a sequence.                             *)
LEMMA LinesType ==
  ASSUME LoggerTypeOK
  PROVE  lines \in Seq(Nat) /\ Len(lines) = count /\ (lines = <<>> <=> count = 0)
<1>1. lines = Window(queue, head, count)
  BY DEF lines, Window
<1>2. lines \in Seq(Nat) /\ Len(lines) = count
  BY <1>1, WindowType DEF LoggerTypeOK
<1>3. QED  BY <1>2, EmptySeq

(* log_msg puts its line behind the others, the writer takes the first.    *)
LEMMA LinesPut ==
  ASSUME LoggerTypeOK, QueueInv, NEW t \in Thread, LogPut(t), ~QueueFull
  PROVE  lines' = Append(lines, calls') /\ QueueInv' /\ count' = count + 1
<1> USE LoggerAssumption
<1>1. /\ queue' = [queue EXCEPT ![tail] = calls'] /\ tail' = (tail + 1) % QueueCap
      /\ count' = count + 1 /\ head' = head /\ calls' = calls + 1
  BY DEF LogPut
<1>2. /\ queue \in [0..(QueueCap - 1) -> Nat] /\ head \in 0..(QueueCap - 1)
      /\ count \in 0..(QueueCap - 1) /\ calls' \in Nat
  BY <1>1 DEF LoggerTypeOK, QueueFull
<1>3. tail = (head + count) % QueueCap
  BY DEF QueueInv
<1>4. queue' \in [0..(QueueCap - 1) -> Nat] /\ queue' = [queue EXCEPT ![(head + count) % QueueCap] = calls']
  BY <1>1, <1>2, <1>3
<1>5. Window(queue', head, count + 1) = Append(Window(queue, head, count), calls')
  <2>1. Window([queue EXCEPT ![(head + count) % QueueCap] = calls'], head, count + 1)
        = Append(Window(queue, head, count), calls')
    BY <1>2, WindowPut
  <2>2. QED  BY <1>4, <2>1
<1>6. lines' = Append(lines, calls')
  BY <1>1, <1>5 DEF lines, Window
<1>7. QueueInv'
  <2>1. count \in 0..QueueCap /\ 1 \in 0..QueueCap /\ count + 1 <= QueueCap
    BY <1>2
  <2>2. (((head + count) % QueueCap) + 1) % QueueCap = (head + (count + 1)) % QueueCap
    BY <1>2, <2>1, StartLater
  <2>3. QED  BY <1>1, <1>3, <2>2 DEF QueueInv
<1>8. QED  BY <1>1, <1>6, <1>7

(* The writer takes the first of them.                                     *)
LEMMA LinesTake ==
  ASSUME LoggerTypeOK, QueueInv, WriterTake
  PROVE  /\ lines # <<>> /\ taken' = Head(lines) /\ lines' = Tail(lines)
         /\ QueueInv' /\ count' \in 0..QueueCap /\ head' \in 0..(QueueCap - 1)
<1> USE LoggerAssumption
<1>1. /\ head' = (head + 1) % QueueCap /\ count' = count - 1 /\ UNCHANGED <<queue, tail>>
      /\ taken' = queue[head] /\ count > 0
  BY DEF WriterTake, TakeOldest, MoveHead
<1>2. /\ queue \in [0..(QueueCap - 1) -> Nat] /\ head \in 0..(QueueCap - 1) /\ count \in 1..QueueCap
  BY <1>1 DEF LoggerTypeOK
<1>3. /\ Window(queue, head, count) # <<>> /\ Head(Window(queue, head, count)) = queue[head]
      /\ Window(queue, (head + 1) % QueueCap, count - 1) = Tail(Window(queue, head, count))
  BY <1>2, WindowTake
<1>4. lines = Window(queue, head, count) /\ lines' = Window(queue, (head + 1) % QueueCap, count - 1)
  BY <1>1 DEF lines, Window
<1>5. QueueInv'
  <2>1. 1 \in 0..QueueCap /\ count - 1 \in 0..QueueCap /\ 1 + (count - 1) <= QueueCap
    BY <1>2
  <2>2. (((head + 1) % QueueCap) + (count - 1)) % QueueCap = (head + (1 + (count - 1))) % QueueCap
    BY <1>2, <2>1, StartLater
  <2>3. 1 + (count - 1) = count
    BY <1>2
  <2>4. QED  BY <1>1, <2>2, <2>3 DEF QueueInv
<1>6. count' \in 0..QueueCap /\ head' \in 0..(QueueCap - 1)
  <2>1. head + 1 \in Nat
    BY <1>2
  <2>2. (head + 1) % QueueCap \in 0..(QueueCap - 1)
    BY <2>1, WrapRange
  <2>3. QED  BY <1>1, <1>2, <2>2
<1>7. QED  BY <1>1, <1>3, <1>4, <1>5, <1>6

(* No other step of the running logger touches the queue.                  *)
LEMMA LinesStill ==
  ASSUME UNCHANGED slotVars
  PROVE  lines' = lines /\ (QueueInv => QueueInv')
BY DEF slotVars, lines, QueueInv
-----------------------------------------------------------------------------
(* What write_line_unlocked leaves in the file and in the ring has the     *)
(* right type.                                                             *)
LEMMA WriteType ==
  ASSUME LoggerTypeOK, NEW e \in Entries, Write(e)
  PROVE  /\ file' \in Seq(Entries) /\ ring' \in [0..(RingCap - 1) -> Entries]
         /\ ringStart' \in 0..(RingCap - 1) /\ ringCount' \in 0..RingCap
<1> USE LoggerAssumption
<1>1. /\ file \in Seq(Entries) /\ ring \in [0..(RingCap - 1) -> Entries]
      /\ ringStart \in 0..(RingCap - 1) /\ ringCount \in 0..RingCap
  BY DEF LoggerTypeOK, Entries
<1>2. file' = Append(file, e) /\ ring' = [ring EXCEPT ![RingNext] = e]
  BY DEF Write, RingAdd
<1>3. file' \in Seq(Entries)
  BY <1>1, <1>2, AppendProperties
<1>4. ring' \in [0..(RingCap - 1) -> Entries]
  BY <1>1, <1>2
<1>5. ringStart' \in 0..(RingCap - 1)
  <2>1. CASE ringCount = RingCap
    <3>1. ringStart + 1 \in Nat /\ ringStart' = (ringStart + 1) % RingCap
      BY <1>1, <2>1 DEF Write, RingAdd
    <3>2. (ringStart + 1) % RingCap \in 0..(RingCap - 1)
      BY <3>1, WrapRange
    <3>3. QED  BY <3>1, <3>2
  <2>2. CASE ringCount # RingCap
    BY <1>1, <2>2 DEF Write, RingAdd
  <2>3. QED  BY <2>1, <2>2
<1>6. ringCount' \in 0..RingCap
  BY <1>1 DEF Write, RingAdd
<1>7. QED  BY <1>3, <1>4, <1>5, <1>6

(* Every step keeps the types.                                             *)
LEMMA LoggerTypeStep ==
  ASSUME LoggerTypeOK, QueueInv, LoggerStep
  PROVE  LoggerTypeOK'
<1> USE LoggerAssumption DEF LoggerTypeOK, slotVars
<1>1. ASSUME NEW t \in Thread, LogEnter(t)  PROVE LoggerTypeOK'
  <2>1. caller' \in [Thread -> {"idle", "lock"}] /\ calls' \in 0..MaxCalls
    <3>1. calls \in 0..MaxCalls /\ calls < MaxCalls /\ caller \in [Thread -> {"idle", "lock"}]
      BY <1>1 DEF LogEnter
    <3>2. CASE started
      BY <1>1, <3>1, <3>2 DEF LogEnter
    <3>3. CASE ~started
      BY <1>1, <3>1, <3>3 DEF LogEnter
    <3>4. QED  BY <3>2, <3>3
  <2>2. QED  BY <1>1, <2>1 DEF LogEnter, queueVars, writerVars, outVars
<1>2. ASSUME NEW t \in Thread, LogPut(t)  PROVE LoggerTypeOK'
  <2>1. caller' \in [Thread -> {"idle", "lock"}] /\ calls' \in 0..MaxCalls
        /\ UNCHANGED <<started, stopping, taken, overflow, file, ring, ringStart, ringCount>>
    BY <1>2 DEF LogPut, outVars
  <2>2. CASE QueueFull
    BY <1>2, <2>1, <2>2 DEF LogPut, CountDrop
  <2>3. CASE ~QueueFull
    <3>1. /\ queue' = [queue EXCEPT ![tail] = calls'] /\ tail' = (tail + 1) % QueueCap
          /\ count' = count + 1 /\ head' = head /\ accepted' = Append(accepted, calls')
          /\ Wake /\ UNCHANGED <<dropped, lost>>
      BY <1>2, <2>3 DEF LogPut
    <3>2. calls' \in Nat /\ count < QueueCap /\ tail + 1 \in Nat
      BY <2>1, <2>3 DEF QueueFull
    <3>3. /\ queue' \in [0..(QueueCap - 1) -> Nat] /\ count' \in 0..QueueCap
          /\ tail' \in 0..(QueueCap - 1) /\ accepted' \in Seq(Nat)
      <4>1. queue' \in [0..(QueueCap - 1) -> Nat] /\ count' \in 0..QueueCap
        BY <3>1, <3>2
      <4>2. tail' \in 0..(QueueCap - 1)
        BY <3>1, <3>2, WrapRange
      <4>3. accepted' \in Seq(Nat)
        BY <3>1, <3>2, AppendProperties
      <4>4. QED  BY <4>1, <4>2, <4>3
    <3>4. writer' \in WriterPC
      BY <3>1 DEF Wake, WriterPC
    <3>5. QED  BY <2>1, <3>1, <3>3, <3>4
  <2>4. QED  BY <2>2, <2>3
<1>3. CASE WriterTake
  <2>1. /\ taken' = queue[head] /\ UNCHANGED <<queue, tail>>
        /\ count' \in 0..QueueCap /\ head' \in 0..(QueueCap - 1)
    BY <1>3, LinesTake DEF WriterTake, TakeOldest, MoveHead
  <2>2. QED  BY <1>3, <2>1 DEF WriterTake, WriterPC, outVars, callVars
<1>4. CASE WriterWarn
  <2>1. Overflow(overflow) \in Entries
    BY DEF Overflow, Entries
  <2>2. QED
    BY <1>4, <2>1, WriteType DEF WriterWarn, WriterPC, queueVars, callVars, Entries
<1>5. CASE WriterWrite
  <2>1. Entry(taken) \in Entries
    BY DEF Entry, Entries
  <2>2. QED
    BY <1>5, <2>1, WriteType DEF WriterWrite, WriterPC, queueVars, callVars, Entries
<1>6. CASE WriterLeave \/ WriterWait \/ WriterWakesUp
  BY <1>6 DEF WriterLeave, WriterWait, WriterWakesUp, WriterPC, queueVars, outVars, callVars
<1>7. CASE StopAsk
  BY <1>7 DEF StopAsk, StopSignal, Wake, WriterPC, outVars, callVars
<1>8. CASE StopJoin
  <2>1. NoEntry \in Entries
    BY DEF NoEntry, Entry, Entries
  <2>2. ring' \in [0..(RingCap - 1) -> Entries] /\ ringStart' \in 0..(RingCap - 1) /\ ringCount' \in 0..RingCap
    BY <1>8, <2>1 DEF StopJoin
  <2>3. /\ queue' \in [0..(QueueCap - 1) -> Nat] /\ count' \in 0..QueueCap
        /\ head' \in 0..(QueueCap - 1) /\ tail' \in 0..(QueueCap - 1)
    BY <1>8 DEF StopJoin, EmptyQueue
  <2>4. QED  BY <1>8, <2>2, <2>3 DEF StopJoin, writerVars, callVars, Entries
<1>9. QED
  BY <1>1, <1>2, <1>3, <1>4, <1>5, <1>6, <1>7, <1>8 DEF LoggerStep, LogMsg, LoggerThread

(* Writing a line keeps the ring at the end of the file.                   *)
LEMMA WriteKeepsRing ==
  ASSUME LoggerInv, started, NEW e \in Entries, Write(e), UNCHANGED started
  PROVE  RingInv'
<1> USE LoggerAssumption
<1>1. /\ file \in Seq(Entries) /\ ring \in [0..(RingCap - 1) -> Entries]
      /\ ringStart \in 0..(RingCap - 1) /\ ringCount \in 0..RingCap
      /\ Len(file) \in Nat
  BY DEF LoggerInv, LoggerTypeOK, Entries
<1>2. /\ ringCount <= Len(file) /\ (ringCount < RingCap => ringCount = Len(file))
      /\ \A i \in 1..ringCount : ring[(ringStart + i - 1) % RingCap] = file[Len(file) - ringCount + i]
  BY DEF LoggerInv, RingInv, Slot
<1>3. /\ Len(file') = Len(file) + 1 /\ file'[Len(file) + 1] = e
      /\ \A n \in 1..Len(file) : file'[n] = file[n]
  BY <1>1, AppendProperties DEF Write
<1>4. RingNext \in 0..(RingCap - 1) /\ ring' = [ring EXCEPT ![RingNext] = e]
  <2>1. ringStart + ringCount \in Nat
    BY <1>1
  <2>2. (ringStart + ringCount) % RingCap \in 0..(RingCap - 1)
    BY <2>1, WrapRange
  <2>3. QED  BY <2>2 DEF Write, RingAdd, RingNext
<1>5. CASE ringCount = RingCap
  <2>1. ringStart' = (ringStart + 1) % RingCap /\ ringCount' = RingCap
    BY <1>5 DEF Write, RingAdd
  <2>2. RingNext = (ringStart + RingCap) % RingCap /\ RingNext = (ringStart + 0) % RingCap
    <3>1. RingNext = (ringStart + RingCap) % RingCap
      BY <1>5 DEF RingNext
    <3>2. (ringStart + 0 + RingCap) % RingCap = (ringStart + 0) % RingCap
      BY <1>1, RoundMore
    <3>3. QED  BY <1>1, <3>1, <3>2
  <2>3. ASSUME NEW i \in 1..RingCap
        PROVE  ring'[(ringStart' + i - 1) % RingCap] = file'[Len(file') - RingCap + i]
    <3>1. (ringStart' + (i - 1)) % RingCap = (ringStart + i) % RingCap
      <4>1. 1 \in 0..RingCap /\ i - 1 \in 0..RingCap /\ 1 + (i - 1) <= RingCap
        OBVIOUS
      <4>2. (((ringStart + 1) % RingCap) + (i - 1)) % RingCap = (ringStart + (1 + (i - 1))) % RingCap
        BY <1>1, <4>1, StartLater
      <4>3. 1 + (i - 1) = i
        OBVIOUS
      <4>4. QED  BY <2>1, <4>2, <4>3
    <3>2. ringStart' \in Int /\ ringStart' + i - 1 = ringStart' + (i - 1)
      BY <1>1, <2>1, WrapRange
    <3>3. CASE i = RingCap
      <4>1. (ringStart' + i - 1) % RingCap = RingNext
        BY <2>2, <3>1, <3>2, <3>3
      <4>2. ring'[RingNext] = e
        BY <1>1, <1>4
      <4>3. Len(file') - RingCap + i = Len(file) + 1
        BY <1>1, <1>3, <3>3
      <4>4. QED  BY <1>3, <4>1, <4>2, <4>3
    <3>4. CASE i < RingCap
      <4>1. (ringStart + 0) % RingCap # (ringStart + i) % RingCap
        <5>1. 0 \in 0..RingCap /\ i \in 0..RingCap /\ 0 < i /\ i - 0 < RingCap
          BY <3>4
        <5>2. QED  BY <1>1, <5>1, SlotsApart
      <4>2. (ringStart + i) % RingCap \in 0..(RingCap - 1)
        BY <1>1, WrapRange
      <4>3. ring'[(ringStart + i) % RingCap] = ring[(ringStart + i) % RingCap]
        BY <1>1, <1>4, <2>2, <4>1, <4>2
      <4>4. i + 1 \in 1..ringCount /\ ringStart + (i + 1) - 1 = ringStart + i
        BY <1>1, <1>5, <3>4
      <4>5. ring[(ringStart + i) % RingCap] = file[Len(file) - RingCap + (i + 1)]
        BY <1>2, <1>5, <4>4
      <4>6. Len(file) - RingCap + (i + 1) \in 1..Len(file)
            /\ Len(file') - RingCap + i = Len(file) - RingCap + (i + 1)
        BY <1>1, <1>2, <1>3, <1>5, <3>4
      <4>7. QED  BY <1>3, <3>1, <3>2, <4>3, <4>5, <4>6
    <3>5. QED  BY <3>3, <3>4
  <2>4. ringCount' <= Len(file') /\ ~(ringCount' < RingCap)
    BY <1>1, <1>2, <1>3, <1>5, <2>1
  <2>5. QED  BY <2>1, <2>3, <2>4 DEF RingInv, Slot
<1>6. CASE ringCount # RingCap
  <2>1. ringStart' = ringStart /\ ringCount' = ringCount + 1 /\ ringCount < RingCap
        /\ ringCount = Len(file)
    BY <1>1, <1>2, <1>6 DEF Write, RingAdd
  <2>2. ASSUME NEW i \in 1..(ringCount + 1)
        PROVE  ring'[(ringStart + i - 1) % RingCap] = file'[i]
    <3>1. ringStart + i - 1 = ringStart + (i - 1)
      BY <1>1
    <3>2. CASE i = ringCount + 1
      BY <1>1, <1>3, <1>4, <2>1, <3>1, <3>2 DEF RingNext
    <3>3. CASE i <= ringCount
      <4>1. (ringStart + (i - 1)) % RingCap # (ringStart + ringCount) % RingCap
        <5>1. i - 1 \in 0..RingCap /\ i - 1 < ringCount /\ ringCount - (i - 1) < RingCap
          BY <1>1, <2>1, <3>3
        <5>2. QED  BY <1>1, <5>1, SlotsApart
      <4>2. ringStart + (i - 1) \in Nat
        BY <1>1
      <4>3. (ringStart + (i - 1)) % RingCap \in 0..(RingCap - 1)
        BY <4>2, WrapRange
      <4>4. ring'[(ringStart + (i - 1)) % RingCap] = ring[(ringStart + (i - 1)) % RingCap]
        BY <1>1, <1>4, <4>1, <4>3 DEF RingNext
      <4>5. i \in 1..ringCount /\ i \in 1..Len(file) /\ Len(file) - ringCount + i = i
        BY <1>1, <2>1, <3>3
      <4>6. ring[(ringStart + i - 1) % RingCap] = file[i]
        BY <1>2, <4>5
      <4>7. QED  BY <1>3, <3>1, <4>4, <4>5, <4>6
    <3>4. QED  BY <1>1, <3>2, <3>3
  <2>3. \A i \in 1..ringCount' : Len(file') - ringCount' + i = i
    BY <1>1, <1>3, <2>1
  <2>4. ringCount' <= Len(file') /\ ringCount' = Len(file')
    BY <1>1, <1>3, <2>1
  <2>5. QED  BY <2>1, <2>2, <2>3, <2>4 DEF RingInv, Slot
<1>7. QED  BY <1>5, <1>6

(* Every step keeps the ring at the end of the file.                       *)
LEMMA RingStep ==
  ASSUME LoggerInv, LoggerStep
  PROVE  RingInv'
<1>1. CASE WriterWarn
  <2>1. Overflow(overflow) \in Entries /\ started /\ UNCHANGED started
    BY <1>1 DEF WriterWarn, Overflow, Entries, LoggerInv, LoggerTypeOK, WriterInv, queueVars
  <2>2. QED  BY <1>1, <2>1, WriteKeepsRing DEF WriterWarn
<1>2. CASE WriterWrite
  <2>1. Entry(taken) \in Entries /\ started /\ UNCHANGED started
    BY <1>2 DEF WriterWrite, Entry, Entries, LoggerInv, LoggerTypeOK, WriterInv, queueVars
  <2>2. QED  BY <1>2, <2>1, WriteKeepsRing DEF WriterWrite
<1>3. CASE StopJoin
  BY <1>3 DEF StopJoin, RingInv
<1>4. ASSUME UNCHANGED <<file, ring, ringStart, ringCount, started>>  PROVE RingInv'
  BY <1>4 DEF LoggerInv, RingInv, Slot
<1>5. CASE (\E t \in Thread : LogMsg(t)) \/ WriterTake \/ WriterLeave \/ WriterWait
             \/ WriterWakesUp \/ StopAsk
  BY <1>4, <1>5 DEF LogMsg, LogEnter, LogPut, WriterTake, WriterLeave, WriterWait,
     WriterWakesUp, StopAsk, queueVars, outVars
<1>6. QED  BY <1>1, <1>2, <1>3, <1>5 DEF LoggerStep, LoggerThread

(* A thread that finds the queue full counts a line that will be followed  *)
(* by the lines of the queue; the writer takes the count with a line.      *)
LEMMA WriterInvStep ==
  ASSUME LoggerInv, LoggerStep
  PROVE  WriterInv'
<1> USE LoggerAssumption DEF slotVars
<1>1. ASSUME NEW t \in Thread, LogPut(t)  PROVE WriterInv'
  <2>1. CASE QueueFull
    <3>1. count > 0 /\ UNCHANGED <<count, writer, started>>
      BY <1>1, <2>1 DEF LogPut, QueueFull, slotVars
    <3>2. QED  BY <3>1 DEF LoggerInv, WriterInv
  <2>2. CASE ~QueueFull
    <3>1. count' = count + 1 /\ count \in Nat /\ Wake /\ UNCHANGED started
      BY <1>1, <2>2 DEF LogPut, LoggerInv, LoggerTypeOK
    <3>2. count' > 0
      BY <3>1
    <3>3. ~started => writer' = "gone"
      BY <3>1 DEF Wake, LoggerInv, WriterInv
    <3>4. QED  BY <3>1, <3>2, <3>3 DEF WriterInv
  <2>3. QED  BY <2>1, <2>2
<1>2. ASSUME NEW t \in Thread, LogEnter(t)  PROVE WriterInv'
  BY <1>2 DEF LogEnter, queueVars, writerVars, LoggerInv, WriterInv
<1>3. CASE WriterTake
  BY <1>3 DEF WriterTake, LoggerInv, WriterInv
<1>4. CASE WriterWarn \/ WriterWrite \/ WriterLeave \/ WriterWait \/ WriterWakesUp
  BY <1>4 DEF WriterWarn, WriterWrite, WriterLeave, WriterWait, WriterWakesUp, queueVars,
     LoggerInv, WriterInv
<1>5. CASE StopAsk
  BY <1>5 DEF StopAsk, StopSignal, Wake, LoggerInv, WriterInv
<1>6. CASE StopJoin
  BY <1>6 DEF StopJoin, writerVars, WriterInv
<1>7. QED
  BY <1>1, <1>2, <1>3, <1>4, <1>5, <1>6 DEF LoggerStep, LogMsg, LoggerThread

(* Every step leaves the tail count slots behind the head.                 *)
LEMMA QueueStep ==
  ASSUME LoggerInv, LoggerStep
  PROVE  QueueInv'
<1> USE LoggerAssumption
<1>1. LoggerTypeOK /\ QueueInv
  BY DEF LoggerInv
<1>2. ASSUME NEW t \in Thread, LogPut(t)  PROVE QueueInv'
  <2>1. CASE QueueFull
    BY <1>1, <1>2, <2>1, LinesStill DEF LogPut
  <2>2. CASE ~QueueFull
    BY <1>1, <1>2, <2>2, LinesPut
  <2>3. QED  BY <2>1, <2>2
<1>3. CASE WriterTake
  BY <1>1, <1>3, LinesTake
<1>4. CASE StopJoin
  <2>1. (0 + 0) % QueueCap = 0
    <3>1. 0 \in 0..(QueueCap - 1) /\ 0 \in 0..QueueCap
      OBVIOUS
    <3>2. QED  BY <3>1, Wrap
  <2>2. QED  BY <1>4, <2>1 DEF StopJoin, QueueInv
<1>5. CASE (\E t \in Thread : LogEnter(t)) \/ WriterWarn \/ WriterWrite \/ WriterLeave
             \/ WriterWait \/ WriterWakesUp \/ StopAsk
  <2>1. UNCHANGED slotVars
    BY <1>5 DEF LogEnter, WriterWarn, WriterWrite, WriterLeave, WriterWait, WriterWakesUp,
       StopAsk, queueVars
  <2>2. QED  BY <1>1, <2>1, LinesStill
<1>6. QED  BY <1>2, <1>3, <1>4, <1>5 DEF LoggerStep, LogMsg, LoggerThread

(* The logger starts sound.                                                *)
LEMMA LoggerInitInv ==
  ASSUME LoggerInit
  PROVE  LoggerInv
<1> USE LoggerAssumption
<1>1. << >> \in Seq(Nat) /\ << >> \in Seq(Entries) /\ Len(<< >>) = 0
  BY EmptySeq
<1>2. NoEntry \in Entries
  BY DEF NoEntry, Entry, Entries
<1>3. LoggerTypeOK
  <2>1. ring \in [0..(RingCap - 1) -> Entries]
    BY <1>2 DEF LoggerInit
  <2>2. /\ file \in Seq(Entries) /\ queue \in [0..(QueueCap - 1) -> Nat] /\ accepted \in Seq(Nat)
        /\ count \in 0..QueueCap /\ head \in 0..(QueueCap - 1) /\ tail \in 0..(QueueCap - 1)
    BY <1>1 DEF LoggerInit, EmptyQueue
  <2>3. /\ dropped \in Nat /\ taken \in Nat /\ overflow \in Nat /\ lost \in Nat
        /\ calls \in 0..MaxCalls /\ ringStart \in 0..(RingCap - 1) /\ ringCount \in 0..RingCap
    BY DEF LoggerInit
  <2>4. /\ started \in BOOLEAN /\ stopping \in BOOLEAN /\ writer \in WriterPC
        /\ caller \in [Thread -> {"idle", "lock"}]
    BY DEF LoggerInit, WriterPC
  <2>5. QED  BY <2>1, <2>2, <2>3, <2>4 DEF LoggerTypeOK, Entries
<1>4. RingInv
  BY <1>1 DEF LoggerInit, RingInv
<1>5. WriterInv
  BY DEF LoggerInit, WriterInv
<1>6. QueueInv
  <2>1. (0 + 0) % QueueCap = 0
    <3>1. 0 \in 0..(QueueCap - 1) /\ 0 \in 0..QueueCap
      OBVIOUS
    <3>2. QED  BY <3>1, Wrap
  <2>2. QED  BY <2>1 DEF LoggerInit, QueueInv
<1>7. QED  BY <1>3, <1>4, <1>5, <1>6 DEF LoggerInv

(* Every step of a caller, of the writer and of the stop keeps the         *)
(* invariant.                                                              *)
LEMMA LoggerInvStep ==
  ASSUME LoggerInv, [LoggerStep]_loggerVars
  PROVE  LoggerInv'
<1>1. CASE LoggerStep
  BY <1>1, LoggerTypeStep, RingStep, WriterInvStep, QueueStep DEF LoggerInv
<1>2. CASE UNCHANGED loggerVars
  BY <1>2 DEF LoggerInv, LoggerTypeOK, RingInv, WriterInv, QueueInv, Slot, loggerVars,
     slotVars, queueVars, writerVars, outVars, callVars
<1>3. QED  BY <1>1, <1>2

(* The ring gives the newest lines of the file: what logger_recent returns *)
(* is the tail of the file, whatever the size of the caller's array.       *)
LEMMA RingGivesTail ==
  ASSUME LoggerInv
  PROVE  RecentIsTail
<1> USE LoggerAssumption
<1> SUFFICES ASSUME started, NEW max \in 1..(RingCap + 1)
             PROVE  LET n == Len(Recent(max)) IN
                    /\ n <= max /\ (n < max => n = Len(file) \/ n = RingCap)
                    /\ Recent(max) = SubSeq(file, Len(file) - n + 1, Len(file))
  BY DEF RecentIsTail
<1> DEFINE n == IF ringCount < max THEN ringCount ELSE max
           k == ringCount - n
           first == (ringStart + ringCount - n + RingCap) % RingCap
<1>1. /\ file \in Seq(Entries) /\ ring \in [0..(RingCap - 1) -> Entries]
      /\ ringStart \in 0..(RingCap - 1) /\ ringCount \in 0..RingCap
      /\ Len(file) \in Nat /\ ringCount <= Len(file)
      /\ (ringCount < RingCap => ringCount = Len(file))
  BY DEF LoggerInv, LoggerTypeOK, Entries, RingInv
<1>2. \A i \in 1..ringCount : ring[(ringStart + i - 1) % RingCap] = file[Len(file) - ringCount + i]
  BY DEF LoggerInv, RingInv, Slot
<1>3. n \in 0..RingCap /\ n <= max /\ n <= ringCount /\ k \in 0..RingCap /\ k + n = ringCount
      /\ (n < max => n = ringCount)
  BY <1>1
<1>4. Recent(max) = [i \in 1..n |-> ring[(first + i - 1) % RingCap]]
  BY DEF Recent
<1> HIDE DEF n
<1>5. first = (ringStart + k) % RingCap
  <2>1. ringStart + ringCount - n + RingCap = ringStart + k + RingCap
    BY <1>1, <1>3
  <2>2. QED  BY <1>1, <1>3, <2>1, RoundMore
<1>6. first \in Nat
  <2>1. ringStart + k \in Nat
    BY <1>1, <1>3
  <2>2. (ringStart + k) % RingCap \in 0..(RingCap - 1)
    BY <2>1, WrapRange
  <2>3. QED  BY <1>5, <2>2
<1> HIDE DEF first
<1>7. ASSUME NEW i \in 1..n
      PROVE  ring[(first + i - 1) % RingCap] = file[Len(file) - n + i]
  <2>1. (((ringStart + k) % RingCap) + (i - 1)) % RingCap = (ringStart + (k + (i - 1))) % RingCap
    <3>1. i - 1 \in 0..RingCap /\ k + (i - 1) <= RingCap
      BY <1>1, <1>3
    <3>2. QED  BY <1>1, <1>3, <3>1, StartLater
  <2>2. first + i - 1 = first + (i - 1)
    BY <1>3, <1>6
  <2>3. k + i \in 1..ringCount /\ ringStart + (k + (i - 1)) = ringStart + (k + i) - 1
    BY <1>1, <1>3
  <2>4. ring[(first + i - 1) % RingCap] = ring[(ringStart + (k + i) - 1) % RingCap]
    BY <1>5, <2>1, <2>2, <2>3
  <2>5. ring[(ringStart + (k + i) - 1) % RingCap] = file[Len(file) - ringCount + (k + i)]
    BY <1>2, <2>3
  <2>6. Len(file) - ringCount + (k + i) = Len(file) - n + i
    BY <1>1, <1>3
  <2>7. QED  BY <2>4, <2>5, <2>6
<1>8. \A i \in 1..n : Len(file) - n + i \in 1..Len(file) /\ file[Len(file) - n + i] \in Entries
  <2>1. \A i \in 1..n : Len(file) - n + i \in 1..Len(file)
    BY <1>1, <1>3
  <2>2. QED  BY <1>1, <2>1, ElementOfSeq
<1>9. Recent(max) \in Seq(Entries) /\ Len(Recent(max)) = n
      /\ \A i \in 1..n : Recent(max)[i] = file[Len(file) - n + i]
  <2>1. Recent(max) = [i \in 1..n |-> file[Len(file) - n + i]]
    BY <1>4, <1>7
  <2>2. n \in Nat
    BY <1>3
  <2>3. Recent(max) \in [1..n -> Entries]
    BY <1>8, <2>1
  <2>4. Recent(max) \in Seq(Entries)
    BY <2>2, <2>3, SeqDef
  <2>5. Len(Recent(max)) = n
    BY <2>2, <2>3, <2>4, LenProperties
  <2>6. QED  BY <2>1, <2>4, <2>5
<1>10. Recent(max) = SubSeq(file, Len(file) - n + 1, Len(file))
  <2> DEFINE newest == SubSeq(file, Len(file) - n + 1, Len(file))
  <2>1. Len(file) - n + 1 \in 1..(Len(file) + 1)
    BY <1>1, <1>3
  <2>2. /\ newest \in Seq(Entries) /\ Len(newest) = n
        /\ \A i \in 1..n : newest[i] = file[Len(file) - n + i]
    <3>1. Len(file) - (Len(file) - n + 1) + 1 = n
      BY <1>1, <1>3
    <3>2. \A i \in 1..n : (Len(file) - n + 1) + i - 1 = Len(file) - n + i
      BY <1>1, <1>3
    <3>3. \A j \in (Len(file) - n + 1)..Len(file) : file[j] \in Entries
      <4>1. (Len(file) - n + 1)..Len(file) \subseteq 1..Len(file)
        BY <1>1, <2>1
      <4>2. QED  BY <1>1, <4>1, ElementOfSeq
    <3>4. QED  BY <1>1, <1>3, <2>1, <3>1, <3>2, <3>3, SubSeqProperties
  <2>3. QED
    <3> HIDE DEF newest
    <3>1. Recent(max) = newest
      BY <1>9, <2>2, SeqEqual
    <3>2. QED  BY <3>1 DEF newest
<1>11. n < max => n = Len(file) \/ n = RingCap
  BY <1>1, <1>3
<1>12. QED  BY <1>3, <1>9, <1>10, <1>11
-----------------------------------------------------------------------------
(* The invariant holds in every behaviour of the logger.                   *)
THEOREM LoggerIsSound == LoggerSpec => []LoggerInv
<1>1. QED  BY LoggerInitInv, LoggerInvStep, PTL DEF LoggerSpec

(* The types of the logger's state: the queue never holds more than        *)
(* LOG_QUEUE_CAP lines and the ring's indices never leave it.              *)
THEOREM LoggerTypeCorrect == LoggerSpec => []LoggerTypeOK
<1>1. LoggerInv => LoggerTypeOK
  BY DEF LoggerInv
<1>2. QED  BY LoggerIsSound, <1>1, PTL

(* logger_recent returns the newest lines of the file in their order, for  *)
(* every capacity of the ring and every size of the caller's array.        *)
THEOREM RecentLinesAreNewest == LoggerSpec => []RecentIsTail
<1>1. QED  BY LoggerIsSound, RingGivesTail, PTL

(* A count of dropped lines that is not yet written has a line behind it   *)
(* that takes it to the file: a drained queue leaves none.                 *)
THEOREM DropsAreFollowed == LoggerSpec => [](dropped > 0 => count > 0)
<1>1. LoggerInv => (dropped > 0 => count > 0)
  BY DEF LoggerInv, WriterInv
<1>2. QED  BY LoggerIsSound, <1>1, PTL
=============================================================================
