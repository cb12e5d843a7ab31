------------------------- MODULE VersionTableProofs -------------------------
(***************************************************************************)
(* What is proved of VersionTable for every set of clients, every number   *)
(* of lines and every budget of runs, kills and failures: the table is     *)
(* never torn, and when the operator's tables are whole the file           *)
(* operations implement VersionRows.                                       *)
(***************************************************************************)
EXTENDS VersionTable, SequenceTheorems, TLAPS

(* Who holds the lock, what is recorded under it, and what has reached the *)
(* disk.                                                                   *)
LockInv == \A p \in Client : pc[p] \in Holding => lock = p
NewInv  == \A p \in Client : pc[p] \in Writing \cup {"wait write"} => new[p] \in Version
SyncInv ==
  /\ table \in was /\ \A f \in was : f = NoFile \/ f.synced
  /\ \A p \in Client : pc[p] = "rename" => tmp # NoFile /\ tmp.synced

BaseInv == TypeOK /\ LockInv /\ NewInv /\ SyncInv
-----------------------------------------------------------------------------
(* Files                                                                   *)

(* The lines of a file.                                                    *)
LEMMA FileParts ==
  ASSUME NEW f \in File
  PROVE  /\ f.lines \in Seq(Line) /\ Len(f.lines) \in Nat
         /\ f.lines \in [1..Len(f.lines) -> Line]
         /\ f.ended \in BOOLEAN /\ f.readable \in BOOLEAN /\ f.synced \in BOOLEAN
<1>1. f.lines \in Seq(Line) /\ f.ended \in BOOLEAN /\ f.readable \in BOOLEAN /\ f.synced \in BOOLEAN
  BY DEF File
<1>2. QED  BY <1>1, LenProperties

(* A function on 1..n is a sequence of length n.                           *)
LEMMA AsSeq ==
  ASSUME NEW S, NEW n \in Nat, NEW s \in [1..n -> S]
  PROVE  s \in Seq(S) /\ Len(s) = n
<1>1. s \in Seq(S)
  BY SeqDef
<1>2. DOMAIN s = 1..Len(s) /\ Len(s) \in Nat
  BY <1>1, LenProperties
<1>3. 1..Len(s) = 1..n
  BY <1>2
<1>4. QED  BY <1>1, <1>2, <1>3

(* The empty file.                                                         *)
LEMMA NoLinesFile == NoLines \in File /\ Len(NoLines.lines) = 0
<1>1. << >> \in Seq(Line) /\ Len(<< >>) = 0
  BY EmptySeq
<1>2. QED  BY <1>1 DEF NoLines, File

(* One line more, or one changed.                                          *)
LEMMA PutsType ==
  ASSUME NEW f \in File, NEW l \in Line, NEW e \in BOOLEAN
  PROVE  Puts(f, l, e) \in File /\ Len(Puts(f, l, e).lines) <= Len(f.lines) + 1
<1> DEFINE glued == IF f.lines[Len(f.lines)] = Note THEN Note ELSE Bad
           s     == IF f.ended THEN Append(f.lines, l) ELSE [f.lines EXCEPT ![Len(f.lines)] = glued]
<1>1. glued \in Line
  BY DEF Line
<1>2. s \in Seq(Line) /\ Len(s) <= Len(f.lines) + 1
  <2>1. CASE f.ended
    BY <2>1, FileParts, AppendProperties
  <2>2. CASE ~f.ended
    <3> HIDE DEF glued
    <3>1. [f.lines EXCEPT ![Len(f.lines)] = glued] \in [1..Len(f.lines) -> Line]
      BY <1>1, FileParts
    <3>2. [f.lines EXCEPT ![Len(f.lines)] = glued] \in Seq(Line)
          /\ Len([f.lines EXCEPT ![Len(f.lines)] = glued]) = Len(f.lines)
      BY <3>1, FileParts, AsSeq
    <3>3. QED  BY <2>2, <3>2, FileParts
  <2>3. QED  BY <2>1, <2>2
<1>3. Puts(f, l, e) = [f EXCEPT !.lines = s, !.ended = e]
  BY DEF Puts
<1> HIDE DEF s
<1>4. [f EXCEPT !.lines = s, !.ended = e] \in File
      /\ [f EXCEPT !.lines = s, !.ended = e].lines = s
  BY <1>2 DEF File
<1>5. QED  BY <1>2, <1>3, <1>4

(* The lines that fit the array.                                           *)
LEMMA FirstLinesType ==
  ASSUME NEW f \in File
  PROVE  FirstLines(f) \in File /\ Len(FirstLines(f).lines) <= MaxLines
<1> USE TableAssumption
<1>1. CASE Len(f.lines) <= MaxLines
  BY <1>1 DEF FirstLines
<1>2. CASE ~(Len(f.lines) <= MaxLines)
  <2> DEFINE s == SubSeq(f.lines, 1, MaxLines)
  <2>1. s \in Seq(Line) /\ Len(s) = MaxLines
    <3>1. \A i \in 1..MaxLines : f.lines[i] \in Line
      BY <1>2, FileParts
    <3>2. QED  BY <3>1, FileParts, SubSeqProperties
  <2>2. FirstLines(f) = [f EXCEPT !.lines = s, !.ended = TRUE]
    BY <1>2 DEF FirstLines
  <2> HIDE DEF s
  <2>3. /\ [f EXCEPT !.lines = s, !.ended = TRUE] \in File
        /\ [f EXCEPT !.lines = s, !.ended = TRUE].lines = s
    BY <2>1 DEF File
  <2>4. MaxLines <= MaxLines
    OBVIOUS
  <2>5. QED  BY <2>1, <2>2, <2>3, <2>4
<1>3. QED  BY <1>1, <1>2

NewRow(p, v) == [id |-> p, ver |-> v]

(* A row replaced leaves the number of lines.                              *)
LEMMA ReplaceType ==
  ASSUME NEW f \in File, NEW p \in Client, NEW v \in Version
  PROVE  /\ Replace(f, p, v) \in File /\ Len(Replace(f, p, v).lines) = Len(f.lines)
         /\ \A i \in 1..Len(f.lines) :
              /\ f.lines[i].id = p => Replace(f, p, v).lines[i] = NewRow(p, v)
              /\ f.lines[i].id # p => Replace(f, p, v).lines[i] = f.lines[i]
         /\ f.ended = TRUE => Replace(f, p, v).ended = TRUE
         /\ Replace(f, p, v).readable = f.readable
<1> DEFINE n == Len(f.lines)
           s == [i \in 1..n |-> IF f.lines[i].id = p THEN [id |-> p, ver |-> v] ELSE f.lines[i]]
           e == f.ended \/ (n > 0 /\ f.lines[n].id = p)
<1>1. [id |-> p, ver |-> v] \in Line
  BY TableAssumption DEF Line, Row
<1>2. s \in [1..n -> Line]
  BY <1>1, FileParts
<1>3. s \in Seq(Line) /\ Len(s) = n
  BY <1>2, FileParts, AsSeq
<1>4. Replace(f, p, v) = [f EXCEPT !.lines = s, !.ended = e]
  BY DEF Replace
<1>5. e \in BOOLEAN /\ (f.ended = TRUE => e = TRUE)
  BY FileParts
<1>6. \A i \in 1..n : /\ f.lines[i].id = p => s[i] = NewRow(p, v)
                      /\ f.lines[i].id # p => s[i] = f.lines[i]
  BY DEF NewRow
<1> HIDE DEF s, e
<1>7. /\ [f EXCEPT !.lines = s, !.ended = e] \in File
      /\ [f EXCEPT !.lines = s, !.ended = e].lines = s
      /\ [f EXCEPT !.lines = s, !.ended = e].ended = e
      /\ [f EXCEPT !.lines = s, !.ended = e].readable = f.readable
  BY <1>3, <1>5 DEF File
<1>8. QED  BY <1>3, <1>4, <1>5, <1>6, <1>7

(* fsync changes no line.                                                  *)
LEMMA SyncedType ==
  ASSUME NEW f \in File
  PROVE  /\ [f EXCEPT !.synced = TRUE] \in File /\ [f EXCEPT !.synced = TRUE].synced
         /\ [f EXCEPT !.synced = TRUE].lines = f.lines
         /\ [f EXCEPT !.synced = TRUE].ended = f.ended
         /\ [f EXCEPT !.synced = TRUE].readable = f.readable
         /\ f.synced => [f EXCEPT !.synced = TRUE] = f
BY DEF File

(* A power loss leaves a file that was synced as it is.                    *)
LEMMA LeftOfSynced ==
  ASSUME NEW f, f = NoFile \/ f.synced
  PROVE  LeftOf(f) = {f}
BY DEF LeftOf
-----------------------------------------------------------------------------
(* The text Load makes of the one it read.                                 *)
Text == IF table = NoFile \/ ~table.readable THEN NoLines ELSE FirstLines(table)
Made(text, p, v) ==
  IF HasRow(text, p) THEN Replace(text, p, v) ELSE Puts(text, [id |-> p, ver |-> v], TRUE)

(* What write_version_file makes of the table fits the array.              *)
LEMMA MadeType ==
  ASSUME NEW f \in File, Len(f.lines) <= MaxLines, NEW p \in Client, NEW v \in Version,
         HasRow(f, p) \/ RoomLeft(f)
  PROVE  Made(f, p, v) \in File /\ Len(Made(f, p, v).lines) <= MaxLines
<1>1. CASE HasRow(f, p)
  <2>1. Made(f, p, v) = Replace(f, p, v)
    BY <1>1 DEF Made
  <2>2. Replace(f, p, v) \in File /\ Len(Replace(f, p, v).lines) = Len(f.lines)
    BY ReplaceType
  <2>3. QED  BY <2>1, <2>2
<1>2. CASE ~HasRow(f, p)
  <2> DEFINE line == [id |-> p, ver |-> v]
  <2>1. Made(f, p, v) = Puts(f, line, TRUE)
    BY <1>2 DEF Made
  <2>2. line \in Line
    BY TableAssumption DEF Line, Row
  <2> HIDE DEF line
  <2>3. Puts(f, line, TRUE) \in File /\ Len(Puts(f, line, TRUE).lines) <= Len(f.lines) + 1
    BY <2>2, PutsType
  <2> DEFINE m == Puts(f, line, TRUE)
  <2>4. m \in File /\ Len(m.lines) <= Len(f.lines) + 1
    BY <2>3
  <2> HIDE DEF m
  <2>5. Len(m.lines) \in Nat /\ Len(f.lines) \in Nat /\ MaxLines \in Nat
    BY <2>4, FileParts, TableAssumption
  <2>6. Len(f.lines) < MaxLines
    BY <1>2 DEF RoomLeft
  <2>7. Len(m.lines) <= MaxLines
    BY ONLY <2>4, <2>5, <2>6
  <2>8. QED  BY <2>1, <2>4, <2>7 DEF m
<1>3. QED  BY <1>1, <1>2

(* What is read from the table fits the array.                             *)
LEMMA TextType ==
  ASSUME TypeOK
  PROVE  Text \in File /\ Len(Text.lines) <= MaxLines
<1>1. CASE table = NoFile \/ ~table.readable
  <2>1. 0 <= MaxLines
    BY TableAssumption
  <2>2. QED  BY <1>1, <2>1, NoLinesFile DEF Text
<1>2. CASE table # NoFile /\ table.readable
  BY <1>2, FirstLinesType DEF Text, TypeOK
<1>3. QED  BY <1>1, <1>2

(* What Load makes of the table has the right type.                        *)
LEMMA LoadType ==
  ASSUME TypeOK, NewInv, NEW p \in Client, Load(p)
  PROVE  out' \in [Client -> File] /\ \A q \in Client : Len(out'[q].lines) <= MaxLines
<1>1. new[p] \in Version
  BY DEF Load, NewInv, Writing
<1>2. \/ UNCHANGED out
      \/ /\ out' = [out EXCEPT ![p] = Made(Text, p, new[p])]
         /\ HasRow(Text, p) \/ RoomLeft(Text)
  BY DEF Load, Made, Text
<1>3. ASSUME HasRow(Text, p) \/ RoomLeft(Text)
      PROVE  Made(Text, p, new[p]) \in File /\ Len(Made(Text, p, new[p]).lines) <= MaxLines
  BY <1>1, <1>3, TextType, MadeType
<1>4. QED  BY <1>2, <1>3 DEF TypeOK

(* Every step keeps the types.                                             *)
LEMMA TypeStep ==
  ASSUME TypeOK, NewInv, Next
  PROVE  TypeOK'
<1> USE TableAssumption DEF TypeOK
<1>1. ASSUME NEW p \in Client, Start(p) \/ Lock(p) \/ LockFails(p) \/ NothingNew(p) \/ Unlock(p) \/ Kill(p)
      PROVE  TypeOK'
  <2>1. UNCHANGED <<fileVars, new, out>>
    BY <1>1 DEF Start, Lock, LockFails, NothingNew, Unlock, Kill
  <2>2. pc' \in [Client -> PC]
    BY <1>1 DEF Start, Lock, LockFails, NothingNew, Unlock, Kill, At, PC, Holding, Writing
  <2>3. lock' \in Client \cup {NoOne}
    BY <1>1 DEF Start, Lock, LockFails, NothingNew, Unlock, Kill, KernelUnlocks
  <2>4. cur' \in [Client -> Version \cup {0}]
    BY <1>1 DEF Start, Lock, LockFails, NothingNew, Unlock, Kill
  <2>5. runs' \in Nat /\ faults' \in Nat
    <3> DEFINE Less(n, m) == n > 0 /\ m = n - 1
    <3>0. \A n \in Nat : \A m : Less(n, m) => m \in Nat
      BY ONLY Z3
    <3> HIDE DEF Less
    <3>1. CASE Start(p)
      <4>1. Less(runs, runs') /\ UNCHANGED faults
        BY <3>1, Zenon DEF Start, Less
      <4>2. QED  BY <3>0, <4>1
    <3>2. CASE LockFails(p) \/ Kill(p)
      <4>1. Less(faults, faults') /\ UNCHANGED runs
        BY <3>2, Zenon DEF LockFails, Kill, Fails, Less
      <4>2. QED  BY <3>0, <4>1
    <3>3. CASE Lock(p) \/ NothingNew(p) \/ Unlock(p)
      BY <3>3 DEF Lock, NothingNew, Unlock
    <3>4. QED  BY <1>1, <3>1, <3>2, <3>3
  <2>6. QED  BY <2>1, <2>2, <2>3, <2>4, <2>5 DEF fileVars
<1>2. ASSUME NEW p \in Client, ReadRow(p)  PROVE TypeOK'
  <2>1. cur' \in [Client -> Version \cup {0}]
    <3>1. VersionOf(table.lines, p) \in Version \cup {0} \/ table = NoFile
      <4>1. CASE table \in File /\ \E i \in RowsOf(table.lines) : table.lines[i].id = p
        <5>1. PICK i \in RowsOf(table.lines) : VersionOf(table.lines, p) = table.lines[i].ver
          BY <4>1 DEF VersionOf
        <5>2. table.lines[i] \in Row
          BY <4>1, <5>1, FileParts DEF RowsOf, IsRow, Line
        <5>3. QED  BY <5>1, <5>2 DEF Row
      <4>2. CASE ~\E i \in RowsOf(table.lines) : table.lines[i].id = p
        BY <4>2 DEF VersionOf
      <4>3. QED  BY <4>1, <4>2
    <3>2. QED  BY <1>2, <3>1 DEF ReadRow
  <2>2. QED  BY <1>2, <2>1 DEF ReadRow, At, PC, Holding, Writing, fileVars
<1>3. ASSUME NEW p \in Client, NEW v \in Version, Installed(p, v)  PROVE TypeOK'
  BY <1>3 DEF Installed, At, PC, Holding, Writing, fileVars
<1>4. ASSUME NEW p \in Client, Load(p)  PROVE TypeOK'
  <2>1. pc' \in [Client -> PC] /\ lock' \in Client \cup {NoOne}
    BY <1>4 DEF Load, At, PC, Holding, Writing
  <2>2. QED  BY <1>4, <2>1, LoadType DEF Load, fileVars
<1>5. ASSUME NEW p \in Client, OpenTmp(p) \/ SyncTmp(p) \/ WriteFails(p)  PROVE TypeOK'
  <2>1. tmp' \in File \cup {NoFile}
    BY <1>5, NoLinesFile, SyncedType DEF OpenTmp, SyncTmp, WriteFails
  <2>2. pc' \in [Client -> PC] /\ lock' \in Client \cup {NoOne} /\ faults' \in Nat
    <3>1. pc' \in [Client -> PC]
      BY <1>5 DEF OpenTmp, SyncTmp, WriteFails, At, PC, Holding, Writing
    <3>2. lock' \in Client \cup {NoOne} /\ faults' \in Nat
      BY <1>5 DEF OpenTmp, SyncTmp, WriteFails, Fails
    <3>3. QED  BY <3>1, <3>2
  <2>3. UNCHANGED <<table, was, cur, new, out, runs>>
    BY <1>5 DEF OpenTmp, SyncTmp, WriteFails
  <2>4. QED  BY <2>1, <2>2, <2>3
<1>6. ASSUME NEW p \in Client, PutLine(p)  PROVE TypeOK'
  <2>1. tmp' \in File \cup {NoFile}
    <3> DEFINE n == Len(tmp.lines)
               e == n + 1 < Len(out[p].lines) \/ out[p].ended
    <3>1. tmp \in File /\ out[p] \in File /\ n \in Nat
      BY <1>6, FileParts DEF PutLine
    <3>2. CASE n < Len(out[p].lines)
      <4>1. out[p].lines[n + 1] \in Line /\ e \in BOOLEAN
        BY <3>1, <3>2, FileParts
      <4>2. tmp' = Puts(tmp, out[p].lines[n + 1], e)
        BY <1>6, <3>2 DEF PutLine
      <4> HIDE DEF n, e
      <4>3. QED  BY <3>1, <4>1, <4>2, PutsType
    <3>3. CASE ~(n < Len(out[p].lines))
      BY <1>6, <3>3 DEF PutLine
    <3>4. QED  BY <3>2, <3>3
  <2>2. pc' \in [Client -> PC]
    BY <1>6 DEF PutLine, At, PC, Holding, Writing
  <2>3. QED  BY <1>6, <2>1, <2>2 DEF PutLine
<1>7. ASSUME NEW p \in Client, RenameTmp(p)  PROVE TypeOK'
  <2>1. tmp \in File /\ [tmp EXCEPT !.synced = TRUE] \in File
    BY <1>7, SyncedType DEF RenameTmp
  <2>2. QED  BY <1>7, <2>1 DEF RenameTmp, At, PC, Holding, Writing
<1>8. ASSUME PowerLoss  PROVE TypeOK'
  <2>1. LeftOf(table) \subseteq File \cup {NoFile}
    <3>1. CASE table = NoFile \/ table.synced
      BY <3>1 DEF LeftOf
    <3>2. ASSUME table \in File, NEW n \in 0..Len(table.lines)
          PROVE  [table EXCEPT !.lines = SubSeq(@, 1, n), !.synced = TRUE] \in File
      <4>1. SubSeq(table.lines, 1, n) \in Seq(Line)
        <5>1. \A i \in 1..n : table.lines[i] \in Line
          BY <3>2, FileParts
        <5>2. QED  BY <3>2, <5>1, FileParts, SubSeqProperties
      <4>2. QED  BY <3>2, <4>1 DEF File
    <3>3. CASE table # NoFile /\ ~table.synced
      <4>1. table \in File
        BY <3>3
      <4>2. ASSUME NEW f \in LeftOf(table)
            PROVE  \E n \in 0..Len(table.lines) : f = [table EXCEPT !.lines = SubSeq(@, 1, n), !.synced = TRUE]
        <5>1. ~(table = NoFile \/ table.synced)
          BY ONLY <3>3
        <5>2. f \in {[table EXCEPT !.lines = SubSeq(@, 1, n), !.synced = TRUE] : n \in 0..Len(table.lines)}
          BY ONLY <4>2, <5>1, Zenon DEF LeftOf
        <5>3. QED  BY ONLY <5>2, Zenon
      <4>3. \A f \in LeftOf(table) : f \in File
        BY <3>2, <4>1, <4>2, Zenon
      <4>4. QED  BY ONLY <4>3
    <3>4. QED  BY <3>1, <3>3
  <2>2. table' \in File \cup {NoFile}
    BY <1>8, <2>1 DEF PowerLoss
  <2>3. pc' \in [Client -> PC] /\ lock' \in Client \cup {NoOne} /\ tmp' \in File \cup {NoFile} /\ faults' \in Nat
    <3>1. pc' = [p \in Client |-> "off"] /\ lock' = NoOne /\ tmp' = NoFile
      BY <1>8 DEF PowerLoss
    <3>2. faults' \in Nat
      BY <1>8 DEF PowerLoss, Fails
    <3>3. QED  BY <3>1, <3>2 DEF PC
  <2>4. UNCHANGED <<was, cur, new, out, runs>>
    BY <1>8 DEF PowerLoss
  <2>5. QED  BY <2>2, <2>3, <2>4
<1>9. QED
  BY <1>1, <1>2, <1>3, <1>4, <1>5, <1>6, <1>7, <1>8 DEF Next, Advance
-----------------------------------------------------------------------------
(* One process at a time holds the lock.                                   *)
LEMMA Alone ==
  ASSUME LockInv, NEW p \in Client, NEW q \in Client, pc[p] \in Holding, pc[q] \in Holding
  PROVE  p = q
BY DEF LockInv

(* A step of p leaves the places of the others alone.                      *)
LEMMA OthersStay ==
  ASSUME TypeOK, NEW p \in Client,
         Start(p) \/ Advance(p) \/ LockFails(p) \/ WriteFails(p) \/ Kill(p)
  PROVE  \A q \in Client \ {p} : pc'[q] = pc[q] /\ new'[q] = new[q] /\ out'[q] = out[q]
                                 /\ cur'[q] = cur[q]
<1> USE DEF TypeOK
<1>1. CASE Start(p) \/ LockFails(p) \/ WriteFails(p) \/ Kill(p)
  BY <1>1 DEF Start, LockFails, WriteFails, Kill, At
<1>2. CASE Advance(p)
  <2>1. CASE Lock(p) \/ ReadRow(p) \/ NothingNew(p)
    BY <2>1 DEF Lock, ReadRow, NothingNew, At
  <2>2. CASE \E v \in Version : Installed(p, v)
    BY <2>2 DEF Installed, At
  <2>3. CASE Load(p)
    BY <2>3 DEF Load, At
  <2>4. CASE OpenTmp(p) \/ PutLine(p) \/ SyncTmp(p) \/ RenameTmp(p) \/ Unlock(p)
    BY <2>4 DEF OpenTmp, PutLine, SyncTmp, RenameTmp, Unlock, At
  <2>5. QED  BY <1>2, <2>1, <2>2, <2>3, <2>4 DEF Advance
<1>3. QED  BY <1>1, <1>2

(* What happens to the lock.                                               *)
LEMMA LockMoves ==
  ASSUME TypeOK, LockInv, NEW p \in Client,
         Start(p) \/ Advance(p) \/ LockFails(p) \/ WriteFails(p) \/ Kill(p)
  PROVE  /\ pc'[p] \in Holding => lock' = p
         /\ \A q \in Client \ {p} : lock = q => lock' = q
<1> USE TableAssumption DEF TypeOK, LockInv, Holding, Writing
<1>1. CASE Start(p) \/ LockFails(p) \/ WriteFails(p) \/ Kill(p)
  BY <1>1 DEF Start, LockFails, WriteFails, Kill, At, KernelUnlocks
<1>2. CASE Advance(p)
  <2>1. CASE Lock(p) \/ ReadRow(p) \/ NothingNew(p)
    BY <2>1 DEF Lock, ReadRow, NothingNew, At, LockFree
  <2>2. CASE \E v \in Version : Installed(p, v)
    BY <2>2 DEF Installed, At
  <2>3. CASE Load(p)
    BY <2>3 DEF Load, At
  <2>4. CASE OpenTmp(p) \/ PutLine(p) \/ SyncTmp(p) \/ RenameTmp(p) \/ Unlock(p)
    BY <2>4 DEF OpenTmp, PutLine, SyncTmp, RenameTmp, Unlock, At
  <2>5. QED  BY <1>2, <2>1, <2>2, <2>3, <2>4 DEF Advance
<1>3. QED  BY <1>1, <1>2

(* Every step leaves at most one holder of the lock.                       *)
LEMMA LockStep ==
  ASSUME TypeOK, LockInv, Next
  PROVE  LockInv'
<1>1. ASSUME NEW p \in Client, Start(p) \/ Advance(p) \/ LockFails(p) \/ WriteFails(p) \/ Kill(p)
      PROVE  LockInv'
  BY <1>1, OthersStay, LockMoves DEF LockInv
<1>2. CASE PowerLoss
  BY <1>2 DEF PowerLoss, LockInv, Holding, Writing
<1>3. QED  BY <1>1, <1>2 DEF Next

(* Every step keeps the types of what a client is writing.                 *)
LEMMA NewStep ==
  ASSUME TypeOK, NewInv, Next
  PROVE  NewInv'
<1>1. ASSUME NEW p \in Client, Start(p) \/ Advance(p) \/ LockFails(p) \/ WriteFails(p) \/ Kill(p)
      PROVE  pc'[p] \in Writing \cup {"wait write"} => new'[p] \in Version
  <2> USE DEF TypeOK, NewInv, Writing
  <2>1. CASE Start(p) \/ LockFails(p) \/ WriteFails(p) \/ Kill(p)
    BY <2>1 DEF Start, LockFails, WriteFails, Kill, At
  <2>2. CASE Lock(p) \/ ReadRow(p) \/ NothingNew(p)
    BY <2>2 DEF Lock, ReadRow, NothingNew, At
  <2>3. CASE \E v \in Version : Installed(p, v)
    BY <2>3 DEF Installed, At
  <2>4. CASE Load(p)
    BY <2>4 DEF Load, At
  <2>5. CASE OpenTmp(p) \/ PutLine(p) \/ SyncTmp(p) \/ RenameTmp(p) \/ Unlock(p)
    BY <2>5 DEF OpenTmp, PutLine, SyncTmp, RenameTmp, Unlock, At
  <2>6. QED  BY <1>1, <2>1, <2>2, <2>3, <2>4, <2>5 DEF Advance
<1>2. ASSUME NEW p \in Client, Start(p) \/ Advance(p) \/ LockFails(p) \/ WriteFails(p) \/ Kill(p)
      PROVE  NewInv'
  BY <1>1, <1>2, OthersStay DEF NewInv
<1>3. CASE PowerLoss
  BY <1>3 DEF PowerLoss, NewInv, Writing
<1>4. QED  BY <1>2, <1>3 DEF Next

(* A step of p that is not one of the writer's leaves the files alone.     *)
LEMMA FilesStay ==
  ASSUME NEW p \in Client,
         \/ Start(p) \/ LockFails(p) \/ Kill(p) \/ Lock(p) \/ ReadRow(p) \/ NothingNew(p)
         \/ (\E v \in Version : Installed(p, v)) \/ Load(p) \/ Unlock(p)
  PROVE  /\ UNCHANGED <<table, tmp, was>>
         /\ TypeOK => pc'[p] \notin {"put", "sync", "rename"}
<1>1. UNCHANGED fileVars
  BY DEF Start, LockFails, Kill, Lock, ReadRow, NothingNew, Installed, Load, Unlock
<1>2. ASSUME TypeOK  PROVE pc'[p] \notin {"put", "sync", "rename"}
  BY <1>2 DEF TypeOK, Start, LockFails, Kill, Lock, ReadRow, NothingNew, Installed, Load, Unlock, At
<1>3. QED  BY <1>1, <1>2 DEF fileVars

(* Only a synced file takes the name of the table.                         *)
LEMMA SyncStep ==
  ASSUME TypeOK, LockInv, SyncInv, Next
  PROVE  SyncInv'
<1> USE DEF SyncInv
<1>1. ASSUME NEW p \in Client,
             \/ Start(p) \/ LockFails(p) \/ Kill(p) \/ Lock(p) \/ ReadRow(p) \/ NothingNew(p)
             \/ (\E v \in Version : Installed(p, v)) \/ Load(p) \/ Unlock(p)
      PROVE  SyncInv'
  BY <1>1, FilesStay, OthersStay DEF Advance
<1>2. ASSUME NEW p \in Client, OpenTmp(p) \/ PutLine(p) \/ SyncTmp(p) \/ WriteFails(p)
      PROVE  SyncInv'
  <2>1. UNCHANGED <<table, was>>
    BY <1>2 DEF OpenTmp, PutLine, SyncTmp, WriteFails
  <2>2. \A q \in Client \ {p} : pc'[q] = pc[q]
    BY <1>2, OthersStay DEF Advance
  <2>3. \A q \in Client \ {p} : pc[q] \notin Holding
    BY <1>2, Alone DEF OpenTmp, PutLine, SyncTmp, WriteFails, Holding, Writing
  <2>4. pc'[p] = "rename" => tmp' # NoFile /\ tmp'.synced
    <3>1. CASE OpenTmp(p) \/ PutLine(p) \/ WriteFails(p)
      BY <3>1 DEF OpenTmp, PutLine, WriteFails, At, TypeOK
    <3>2. CASE SyncTmp(p)
      <4>1. tmp \in File /\ tmp' = [tmp EXCEPT !.synced = TRUE]
        BY <3>2 DEF SyncTmp, TypeOK
      <4>2. tmp' \in File /\ tmp'.synced
        BY <4>1, SyncedType
      <4>3. QED  BY <4>2, TableAssumption
    <3>3. QED  BY <1>2, <3>1, <3>2
  <2>5. QED  BY <2>1, <2>2, <2>3, <2>4 DEF Holding, Writing
<1>3. ASSUME NEW p \in Client, RenameTmp(p)  PROVE SyncInv'
  <2>1. tmp \in File /\ tmp.synced /\ table' = tmp /\ was' = was \cup {[tmp EXCEPT !.synced = TRUE]}
    BY <1>3 DEF RenameTmp, TypeOK
  <2>2. was' = was \cup {tmp}
    BY <2>1, SyncedType
  <2>3. \A q \in Client : pc'[q] # "rename"
    <3>1. pc'[p] = "unlock"
      BY <1>3 DEF RenameTmp, At, TypeOK
    <3>2. \A q \in Client \ {p} : pc'[q] = pc[q] /\ pc[q] \notin Holding
      BY <1>3, OthersStay, Alone DEF Advance, RenameTmp, Holding, Writing
    <3>3. QED  BY <3>1, <3>2 DEF Holding, Writing
  <2>4. QED  BY <2>1, <2>2, <2>3
<1>4. CASE PowerLoss
  BY <1>4, LeftOfSynced DEF PowerLoss
<1>5. QED  BY <1>1, <1>2, <1>3, <1>4 DEF Next, Advance

(* The initial table.                                                      *)
LEMMA BaseInit ==
  ASSUME Init
  PROVE  BaseInv
<1> USE TableAssumption
<1>1. TypeOK
  <2>1. table \in File \cup {NoFile} /\ was \subseteq File \cup {NoFile}
    BY DEF Init
  <2>2. out \in [Client -> File] /\ \A p \in Client : Len(out[p].lines) <= MaxLines
    <3>1. 0 <= MaxLines
      OBVIOUS
    <3>2. QED  BY <3>1, NoLinesFile DEF Init
  <2>3. QED  BY <2>1, <2>2 DEF Init, TypeOK, PC
<1>2. LockInv /\ NewInv
  BY DEF Init, LockInv, NewInv, Holding, Writing
<1>3. SyncInv
  BY DEF Init, SyncInv
<1>4. QED  BY <1>1, <1>2, <1>3 DEF BaseInv

(* Every step keeps types, lock and sync.                                  *)
LEMMA BaseStep ==
  ASSUME BaseInv, [Next]_vars
  PROVE  BaseInv'
<1>1. CASE Next
  BY <1>1, TypeStep, LockStep, NewStep, SyncStep DEF BaseInv
<1>2. CASE UNCHANGED vars
  BY <1>2 DEF BaseInv, TypeOK, LockInv, NewInv, SyncInv, vars, fileVars, procVars
<1>3. QED  BY <1>1, <1>2

(* They hold in every behaviour.                                           *)
LEMMA BaseHolds == Spec => []BaseInv
BY BaseInit, BaseStep, PTL DEF Spec

(* The types, and that lines[] never overflows.                            *)
THEOREM TableTypeCorrect == Spec => []TypeOK
<1>1. BaseInv => TypeOK
  BY DEF BaseInv
<1>2. QED  BY BaseHolds, <1>1, PTL

(* Whatever is killed, refused or switched off, the table is a file that   *)
(* some client completed, or the operator's.                               *)
THEOREM TableIsWhole == Spec => []TableNeverTorn
<1>1. BaseInv => TableNeverTorn
  BY SyncedType DEF BaseInv, SyncInv, TypeOK, TableNeverTorn
<1>2. QED  BY BaseHolds, <1>1, PTL
-----------------------------------------------------------------------------
(* Rows: a file that is read whole                                         *)

(* A line whose id is a client's is a row.                                 *)
LEMMA RowOfId ==
  ASSUME NEW l \in Line, l.id \in Id
  PROVE  IsRow(l) /\ l \in Row
BY TableAssumption DEF Line, IsRow, Note, Bad

(* The fields of a row.                                                    *)
LEMMA RowParts ==
  ASSUME NEW s \in Seq(Line), NEW i \in RowsOf(s)
  PROVE  i \in 1..Len(s) /\ s[i] \in Row /\ s[i].id \in Id /\ s[i].ver \in Version
<1>1. i \in 1..Len(s) /\ s[i] \in Line /\ IsRow(s[i])
  BY ElementOfSeq DEF RowsOf
<1>2. QED  BY <1>1 DEF Line, IsRow, Row

(* The fields of the row a client appends.                                 *)
LEMMA NewRowParts ==
  ASSUME NEW p \in Client, NEW v \in Version
  PROVE  NewRow(p, v) \in Line /\ NewRow(p, v).id = p /\ NewRow(p, v).ver = v /\ IsRow(NewRow(p, v))
<1>1. NewRow(p, v) \in Line /\ NewRow(p, v).id = p /\ NewRow(p, v).ver = v
  BY TableAssumption DEF NewRow, Line, Row
<1>2. p \in Id
  BY TableAssumption
<1> HIDE DEF NewRow
<1>3. QED  BY <1>1, <1>2, RowOfId

(* The version of an id is that of the only row with the id.               *)
LEMMA VersionIs ==
  ASSUME NEW s, NEW q, NEW i \in RowsOf(s), s[i].id = q,
         \A j \in RowsOf(s) : s[j].id = q => j = i
  PROVE  VersionOf(s, q) = s[i].ver
BY DEF VersionOf

(* A table without a row of an id has version 0 for it.                    *)
LEMMA NoVersion ==
  ASSUME NEW s, NEW q, \A j \in RowsOf(s) : s[j].id # q
  PROVE  VersionOf(s, q) = 0
BY DEF VersionOf

(* Two texts with the same row of an id have the same version of it.       *)
LEMMA SameVersion ==
  ASSUME NEW s, NEW t, NEW q,
         \A i, j \in RowsOf(s) : s[i].id = q /\ s[j].id = q => i = j,
         \A i \in RowsOf(s) : s[i].id = q => i \in RowsOf(t) /\ t[i] = s[i],
         \A i \in RowsOf(t) : t[i].id = q => i \in RowsOf(s) /\ t[i] = s[i]
  PROVE  VersionOf(s, q) = VersionOf(t, q)
<1>1. CASE \E i \in RowsOf(s) : s[i].id = q
  <2>1. PICK i \in RowsOf(s) : s[i].id = q
    BY <1>1
  <2>2. i \in RowsOf(t) /\ t[i] = s[i]
    BY <2>1
  <2>3. \A j \in RowsOf(s) : s[j].id = q => j = i
    BY <2>1
  <2>4. \A j \in RowsOf(t) : t[j].id = q => j = i
    BY <2>3
  <2>5. VersionOf(s, q) = s[i].ver
    BY <2>1, <2>3, VersionIs
  <2>6. VersionOf(t, q) = t[i].ver
    BY <2>1, <2>2, <2>4, VersionIs
  <2>7. QED  BY <2>2, <2>5, <2>6
<1>2. CASE \A i \in RowsOf(s) : s[i].id # q
  <2>1. \A i \in RowsOf(t) : t[i].id # q
    BY <1>2
  <2>2. QED  BY <1>2, <2>1, NoVersion
<1>3. QED  BY <1>1, <1>2

(* Behind a newline a line is a line of its own.                           *)
LEMMA PutsAppend ==
  ASSUME NEW f \in File, f.ended = TRUE, NEW l \in Line, NEW e \in BOOLEAN
  PROVE  /\ Puts(f, l, e).lines = Append(f.lines, l)
         /\ Puts(f, l, e).ended = e /\ Puts(f, l, e).readable = f.readable
<1> DEFINE s == Append(f.lines, l)
<1>1. Puts(f, l, e) = [f EXCEPT !.lines = s, !.ended = e]
  BY DEF Puts
<1> HIDE DEF s
<1>2. /\ [f EXCEPT !.lines = s, !.ended = e].lines = s
      /\ [f EXCEPT !.lines = s, !.ended = e].ended = e
      /\ [f EXCEPT !.lines = s, !.ended = e].readable = f.readable
  BY DEF File
<1>3. QED  BY <1>1, <1>2 DEF s

(* The client's row changes and no other does.                             *)
LEMMA ReplacedRows ==
  ASSUME NEW f \in File, WellFormed(f.lines), NEW p \in Client, NEW v \in Version, HasRow(f, p)
  PROVE  /\ VersionOf(Replace(f, p, v).lines, p) = v
         /\ \A q \in Id \ {p} : VersionOf(f.lines, q) = VersionOf(Replace(f, p, v).lines, q)
<1> DEFINE s == f.lines
           t == Replace(f, p, v).lines
<1>1. s \in Seq(Line) /\ \A i, j \in RowsOf(s) : s[i].id = s[j].id => i = j
  BY FileParts DEF WellFormed
<1>2. /\ t \in Seq(Line) /\ Len(t) = Len(s)
      /\ \A i \in 1..Len(s) : /\ s[i].id = p => t[i] = NewRow(p, v)
                              /\ s[i].id # p => t[i] = s[i]
  <2>1. Replace(f, p, v) \in File
    BY ReplaceType
  <2>2. QED  BY <2>1, ReplaceType, FileParts
<1>3. PICK i \in 1..Len(s) : s[i].id = p
  BY DEF HasRow
<1> HIDE DEF s, t
<1>4. NewRow(p, v).id = p /\ NewRow(p, v).ver = v /\ IsRow(NewRow(p, v)) /\ p \in Id
  BY NewRowParts, TableAssumption
<1>5. \A j \in RowsOf(s) : s[j].id # p => j \in RowsOf(t) /\ t[j] = s[j]
  BY <1>2 DEF RowsOf
<1>6. \A j \in RowsOf(t) : j \in 1..Len(s) /\ (t[j].id # p => j \in RowsOf(s) /\ t[j] = s[j])
  BY <1>2, <1>4 DEF RowsOf
<1>7. \A q \in Id \ {p} : VersionOf(s, q) = VersionOf(t, q)
  BY <1>1, <1>5, <1>6, SameVersion
<1>8. VersionOf(t, p) = v
  <2>1. \A j \in 1..Len(s) : s[j].id = p => j \in RowsOf(s)
    BY <1>1, <1>4, RowOfId, ElementOfSeq DEF RowsOf
  <2>2. i \in RowsOf(t) /\ t[i] = NewRow(p, v)
    BY <1>2, <1>3, <1>4 DEF RowsOf
  <2>3. \A j \in RowsOf(t) : t[j].id = p => j = i
    BY <1>1, <1>2, <1>3, <1>6, <2>1
  <2>4. VersionOf(t, p) = t[i].ver
    BY <1>4, <2>2, <2>3, VersionIs
  <2>5. QED  BY <1>4, <2>2, <2>4
<1>9. QED  BY <1>7, <1>8 DEF s, t

(* A row appended is the client's, and changes nobody else's.              *)
LEMMA AppendedRows ==
  ASSUME NEW s \in Seq(Line), WellFormed(s), NEW p \in Client, NEW v \in Version,
         \A i \in 1..Len(s) : s[i].id # p
  PROVE  /\ VersionOf(Append(s, NewRow(p, v)), p) = v
         /\ \A q \in Id \ {p} : VersionOf(s, q) = VersionOf(Append(s, NewRow(p, v)), q)
<1> DEFINE t == Append(s, NewRow(p, v))
           n == Len(s) + 1
<1>1. NewRow(p, v) \in Line /\ NewRow(p, v).id = p /\ NewRow(p, v).ver = v /\ IsRow(NewRow(p, v))
  BY NewRowParts
<1>2. /\ t \in Seq(Line) /\ Len(t) = n /\ t[n] = NewRow(p, v) /\ n \in Nat /\ n \in 1..n
      /\ \A i \in 1..Len(s) : t[i] = s[i] /\ i \in 1..n /\ i # n
      /\ \A i \in 1..n : i # n => i \in 1..Len(s)
  <2>1. Len(s) \in Nat
    BY LenProperties
  <2>2. QED  BY <1>1, <2>1, AppendProperties
<1> HIDE DEF t, n
<1>3. \A i \in RowsOf(s) : i \in RowsOf(t) /\ t[i] = s[i]
  BY <1>2 DEF RowsOf
<1>4. \A i \in RowsOf(t) : t[i].id # p => i \in RowsOf(s) /\ t[i] = s[i]
  BY <1>1, <1>2 DEF RowsOf
<1>5. \A q \in Id \ {p} : VersionOf(s, q) = VersionOf(t, q)
  BY <1>3, <1>4, SameVersion DEF WellFormed
<1>6. VersionOf(t, p) = v
  <2>1. n \in RowsOf(t) /\ t[n].id = p /\ t[n].ver = v
    BY <1>1, <1>2 DEF RowsOf
  <2>2. \A j \in RowsOf(t) : t[j].id = p => j = n
    BY <1>2 DEF RowsOf
  <2>3. QED  BY <2>1, <2>2, VersionIs
<1>7. QED  BY <1>5, <1>6 DEF t

(* What write_version_file makes has the client's new row, and the others  *)
(* as they were.                                                           *)
LEMMA MadeRows ==
  ASSUME NEW f \in File, f.ended = TRUE, f.readable = TRUE, WellFormed(f.lines),
         NEW p \in Client, NEW v \in Version
  PROVE  /\ Made(f, p, v).ended = TRUE /\ Made(f, p, v).readable = TRUE
         /\ VersionOf(Made(f, p, v).lines, p) = v
         /\ \A q \in Id \ {p} : VersionOf(f.lines, q) = VersionOf(Made(f, p, v).lines, q)
<1>1. CASE HasRow(f, p)
  <2>1. Made(f, p, v) = Replace(f, p, v)
    BY <1>1 DEF Made
  <2>2. Replace(f, p, v).ended = TRUE /\ Replace(f, p, v).readable = TRUE
    BY ReplaceType
  <2>3. /\ VersionOf(Replace(f, p, v).lines, p) = v
        /\ \A q \in Id \ {p} : VersionOf(f.lines, q) = VersionOf(Replace(f, p, v).lines, q)
    BY <1>1, ReplacedRows
  <2>4. QED  BY ONLY <2>1, <2>2, <2>3
<1>2. CASE ~HasRow(f, p)
  <2>1. Made(f, p, v) = Puts(f, NewRow(p, v), TRUE)
    BY <1>2 DEF Made, NewRow
  <2>2. \A i \in 1..Len(f.lines) : f.lines[i].id # p
    BY <1>2 DEF HasRow
  <2>3. NewRow(p, v) \in Line
    BY NewRowParts
  <2>4. /\ Puts(f, NewRow(p, v), TRUE).lines = Append(f.lines, NewRow(p, v))
        /\ Puts(f, NewRow(p, v), TRUE).ended = TRUE /\ Puts(f, NewRow(p, v), TRUE).readable = TRUE
    BY <2>3, PutsAppend
  <2>5. f.lines \in Seq(Line)
    BY FileParts
  <2>6. /\ VersionOf(Append(f.lines, NewRow(p, v)), p) = v
        /\ \A q \in Id \ {p} : VersionOf(f.lines, q) = VersionOf(Append(f.lines, NewRow(p, v)), q)
    BY <2>2, <2>5, AppendedRows
  <2>7. QED  BY ONLY <2>1, <2>4, <2>6
<1>3. QED  BY <1>1, <1>2
-----------------------------------------------------------------------------
(* The tables the program writes: every line has its newline, and there    *)
(* are no more of them than lines[] takes.  WholeTables says it of the     *)
(* tables the operator put there.                                          *)
Whole(f)    == f = NoFile \/ (f.ended = TRUE /\ f.readable = TRUE /\ Len(f.lines) <= MaxLines)
WholeTables == \A f \in Tables : Whole(f)
WholeInv    == \A f \in was : Whole(f)

(* lines[] has the rows of the table, but for the writer's own.            *)
GoodOut(p) ==
  /\ out[p].ended = TRUE /\ out[p].readable = TRUE
  /\ VersionOf(out[p].lines, p) = new[p]
  /\ \A q \in Id \ {p} : VersionOf(out[p].lines, q) = Holds(table, q)

(* The temporary file has the lines that were put there.                   *)
Begun(f, g) ==
  /\ f.ended = TRUE /\ f.readable = TRUE /\ Len(f.lines) <= Len(g.lines)
  /\ \A i \in 1..Len(f.lines) : f.lines[i] = g.lines[i]
Done(f, g)  == f.ended = TRUE /\ f.readable = TRUE /\ f.lines = g.lines

OutInv ==
  \A p \in Client :
    /\ pc[p] \in {"open", "put", "sync", "rename"} => GoodOut(p)
    /\ pc[p] = "put" => tmp # NoFile /\ Begun(tmp, out[p])
    /\ pc[p] \in {"sync", "rename"} => tmp # NoFile /\ Done(tmp, out[p])

RowInv == WholeInv /\ OutInv

(* A rename changes the writer's row.                                      *)
LEMMA RenamedRows ==
  ASSUME BaseInv, RowInv, NEW p \in Client, RenameTmp(p)
  PROVE  /\ new[p] \in Version
         /\ Holds(tmp, p) = new[p] /\ \A q \in Id \ {p} : Holds(tmp, q) = Holds(table, q)
         /\ Whole(tmp)
<1>1. pc[p] = "rename" /\ tmp # NoFile /\ tmp.lines = out[p].lines /\ GoodOut(p)
      /\ tmp.ended = TRUE /\ tmp.readable = TRUE
  BY DEF RenameTmp, RowInv, OutInv, Done
<1>2. new[p] \in Version
  BY <1>1 DEF BaseInv, NewInv, Writing
<1>3. Len(tmp.lines) <= MaxLines
  BY <1>1 DEF BaseInv, TypeOK
<1>4. QED  BY <1>1, <1>2, <1>3 DEF GoodOut, Holds, Whole

(* What the writer loads has the rows of the table.                        *)
LEMMA LoadedRows ==
  ASSUME BaseInv, WholeInv, NEW p \in Client, Load(p), pc'[p] = "open"
  PROVE  GoodOut(p)'
<1> USE DEF BaseInv
<1>1. pc \in [Client -> PC] /\ out \in [Client -> File] /\ UNCHANGED <<table, new>> /\ new[p] \in Version
  BY DEF TypeOK, Load, NewInv, Writing, fileVars
<1>2. out' = [out EXCEPT ![p] = Made(Text, p, new[p])] /\ WellFormed(Text.lines)
  <2>1. CASE WellFormed(Text.lines) /\ (HasRow(Text, p) \/ RoomLeft(Text))
    BY <2>1 DEF Load, Text, Made
  <2>2. CASE ~(WellFormed(Text.lines) /\ (HasRow(Text, p) \/ RoomLeft(Text)))
    <3>1. pc'[p] = "off"
      BY <1>1, <2>2 DEF Load, Text, At
    <3>2. QED  BY <3>1
  <2>3. QED  BY <2>1, <2>2
<1>3. Text.ended = TRUE /\ Text.readable = TRUE /\ \A q : VersionOf(Text.lines, q) = Holds(table, q)
  <2>1. CASE table = NoFile
    <3>1. Text = NoLines /\ Len(NoLines.lines) = 0
      BY <2>1, NoLinesFile DEF Text
    <3>2. RowsOf(NoLines.lines) = {}
      BY <3>1 DEF RowsOf
    <3>3. \A q : VersionOf(NoLines.lines, q) = 0
      BY <3>2, NoVersion
    <3>4. NoLines.ended = TRUE /\ NoLines.readable = TRUE
      BY DEF NoLines
    <3>5. QED  BY <2>1, <3>1, <3>3, <3>4 DEF Holds
  <2>2. CASE table # NoFile
    <3>1. table.ended = TRUE /\ table.readable = TRUE /\ Len(table.lines) <= MaxLines
      BY <2>2 DEF WholeInv, Whole, SyncInv
    <3>2. Text = table
      BY <2>2, <3>1 DEF Text, FirstLines
    <3>3. QED  BY <2>2, <3>1, <3>2 DEF Holds
  <2>3. QED  BY <2>1, <2>2
<1>4. Text \in File
  BY TextType
<1>5. /\ Made(Text, p, new[p]).ended = TRUE /\ Made(Text, p, new[p]).readable = TRUE
      /\ VersionOf(Made(Text, p, new[p]).lines, p) = new[p]
      /\ \A q \in Id \ {p} : VersionOf(Text.lines, q) = VersionOf(Made(Text, p, new[p]).lines, q)
  BY <1>1, <1>2, <1>3, <1>4, MadeRows
<1>6. out'[p] = Made(Text, p, new[p])
  BY <1>1, <1>2
<1>7. QED  BY <1>1, <1>3, <1>5, <1>6 DEF GoodOut

(* One line after the other reaches the temporary file.                    *)
LEMMA PutRows ==
  ASSUME BaseInv, OutInv, NEW p \in Client, PutLine(p)
  PROVE  /\ tmp' # NoFile
         /\ pc'[p] = "put" => Begun(tmp', out[p])
         /\ pc'[p] # "put" => pc'[p] = "sync" /\ Done(tmp', out[p])
<1> DEFINE n == Len(tmp.lines)
           e == n + 1 < Len(out[p].lines) \/ out[p].ended
<1>1. /\ tmp \in File /\ out[p] \in File /\ pc[p] = "put" /\ pc \in [Client -> PC]
      /\ Begun(tmp, out[p]) /\ out[p].ended = TRUE
  BY DEF BaseInv, TypeOK, PutLine, OutInv, GoodOut
<1>2. n \in Nat /\ Len(out[p].lines) \in Nat /\ tmp.lines \in Seq(Line) /\ out[p].lines \in Seq(Line)
  BY <1>1, FileParts
<1>3. CASE n < Len(out[p].lines)
  <2>1. tmp' = Puts(tmp, out[p].lines[n + 1], e) /\ UNCHANGED pc
    BY <1>3 DEF PutLine
  <2>2. out[p].lines[n + 1] \in Line
    BY <1>2, <1>3, ElementOfSeq
  <2>3. e = TRUE
    BY <1>1
  <2> HIDE DEF n, e
  <2>4. /\ tmp'.lines = Append(tmp.lines, out[p].lines[n + 1]) /\ tmp'.ended = TRUE
        /\ tmp'.readable = tmp.readable
    BY <1>1, <2>1, <2>2, <2>3, PutsAppend DEF Begun
  <2>5. /\ Len(tmp'.lines) = n + 1 /\ tmp'.lines[n + 1] = out[p].lines[n + 1]
        /\ \A i \in 1..n : tmp'.lines[i] = tmp.lines[i]
    BY <1>2, <2>2, <2>4, AppendProperties DEF n
  <2>6. tmp' \in File
    BY <1>1, <2>1, <2>2, <2>3, PutsType
  <2>7. Begun(tmp', out[p])
    BY <1>1, <1>2, <1>3, <2>4, <2>5 DEF Begun, n
  <2>8. QED  BY <1>1, <2>1, <2>6, <2>7, TableAssumption
<1>4. CASE ~(n < Len(out[p].lines))
  <2>1. UNCHANGED tmp /\ pc'[p] = "sync" /\ tmp # NoFile
    BY <1>1, <1>4 DEF PutLine, At
  <2>2. n = Len(out[p].lines)
    BY <1>1, <1>2, <1>4 DEF Begun
  <2>3. tmp.lines = out[p].lines
    BY <1>1, <1>2, <2>2, SeqEqual DEF Begun
  <2>4. QED  BY <1>1, <2>1, <2>3 DEF Begun, Done
<1>5. QED  BY <1>3, <1>4

(* Only a rename puts a new table in place, and it is whole.               *)
LEMMA WholeStep ==
  ASSUME BaseInv, RowInv, Next
  PROVE  WholeInv'
<1>1. ASSUME NEW p \in Client, RenameTmp(p)  PROVE WholeInv'
  <2>1. tmp \in File /\ tmp.synced /\ was' = was \cup {[tmp EXCEPT !.synced = TRUE]}
    BY <1>1 DEF BaseInv, TypeOK, SyncInv, RenameTmp
  <2>2. was' = was \cup {tmp}
    BY <2>1, SyncedType
  <2>3. QED  BY <1>1, <2>2, RenamedRows DEF RowInv, WholeInv
<1>2. ASSUME UNCHANGED was  PROVE WholeInv'
  BY <1>2 DEF RowInv, WholeInv
<1>3. ASSUME NEW p \in Client, ~RenameTmp(p),
             Start(p) \/ Advance(p) \/ LockFails(p) \/ WriteFails(p) \/ Kill(p)
      PROVE  UNCHANGED was
  <2>1. CASE OpenTmp(p) \/ PutLine(p) \/ SyncTmp(p) \/ WriteFails(p)
    BY <2>1 DEF OpenTmp, PutLine, SyncTmp, WriteFails
  <2>2. QED  BY <1>3, <2>1, FilesStay DEF Advance
<1>4. PowerLoss => UNCHANGED was
  BY DEF PowerLoss
<1>5. QED  BY <1>1, <1>2, <1>3, <1>4 DEF Next

(* lines[] and the temporary file, when p neither renames nor holds the    *)
(* lock.                                                                   *)
LEMMA OutKept ==
  ASSUME OutInv, NEW q \in Client, pc'[q] = pc[q], out'[q] = out[q], new'[q] = new[q],
         UNCHANGED table, UNCHANGED tmp \/ pc[q] \notin Holding
  PROVE  /\ pc'[q] \in {"open", "put", "sync", "rename"} => GoodOut(q)'
         /\ pc'[q] = "put" => tmp' # NoFile /\ Begun(tmp', out'[q])
         /\ pc'[q] \in {"sync", "rename"} => tmp' # NoFile /\ Done(tmp', out'[q])
BY DEF OutInv, GoodOut, Holds, Holding, Writing

(* Every step keeps what a client is writing in step with the table.       *)
LEMMA OutStep ==
  ASSUME BaseInv, RowInv, Next
  PROVE  OutInv'
<1> USE DEF BaseInv, RowInv
<1>1. ASSUME NEW p \in Client, UNCHANGED table,
             Start(p) \/ Advance(p) \/ LockFails(p) \/ WriteFails(p) \/ Kill(p),
             UNCHANGED tmp \/ pc[p] \in Holding,
             /\ pc'[p] \in {"open", "put", "sync", "rename"} => GoodOut(p)'
             /\ pc'[p] = "put" => tmp' # NoFile /\ Begun(tmp', out'[p])
             /\ pc'[p] \in {"sync", "rename"} => tmp' # NoFile /\ Done(tmp', out'[p])
      PROVE  OutInv'
  <2>1. ASSUME NEW q \in Client \ {p}
        PROVE  /\ pc'[q] \in {"open", "put", "sync", "rename"} => GoodOut(q)'
               /\ pc'[q] = "put" => tmp' # NoFile /\ Begun(tmp', out'[q])
               /\ pc'[q] \in {"sync", "rename"} => tmp' # NoFile /\ Done(tmp', out'[q])
    <3>1. pc'[q] = pc[q] /\ out'[q] = out[q] /\ new'[q] = new[q]
      BY <1>1, OthersStay
    <3>2. UNCHANGED tmp \/ pc[q] \notin Holding
      BY <1>1, Alone
    <3>3. QED  BY <1>1, <3>1, <3>2, OutKept
  <2>2. QED  BY <1>1, <2>1 DEF OutInv
<1>2. ASSUME NEW p \in Client,
             \/ Start(p) \/ LockFails(p) \/ Kill(p) \/ Lock(p) \/ ReadRow(p) \/ NothingNew(p)
             \/ (\E v \in Version : Installed(p, v)) \/ Unlock(p)
      PROVE  OutInv'
  <2>1. UNCHANGED <<table, tmp>>
    BY <1>2, FilesStay
  <2>2. pc'[p] \notin {"open", "put", "sync", "rename"}
    BY <1>2 DEF TypeOK, Start, LockFails, Kill, Lock, ReadRow, NothingNew, Installed, Unlock, At
  <2>3. QED  BY <1>1, <1>2, <2>1, <2>2 DEF Advance
<1>3. ASSUME NEW p \in Client, Load(p)  PROVE OutInv'
  <2>1. UNCHANGED <<table, tmp>> /\ pc'[p] \notin {"put", "sync", "rename"}
    BY <1>3, FilesStay
  <2>2. pc'[p] = "open" => GoodOut(p)'
    BY <1>3, LoadedRows
  <2>3. QED  BY <1>1, <1>3, <2>1, <2>2 DEF Advance
<1>4. ASSUME NEW p \in Client, OpenTmp(p)  PROVE OutInv'
  <2>1. UNCHANGED <<table, out, new>> /\ pc[p] = "open" /\ pc'[p] = "put" /\ tmp' = NoLines
    BY <1>4 DEF OpenTmp, At, TypeOK
  <2>2. GoodOut(p)'
    BY <2>1 DEF OutInv, GoodOut, Holds
  <2>3. tmp' # NoFile /\ Begun(tmp', out'[p])
    <3>1. Len(NoLines.lines) = 0 /\ NoLines \in File /\ Len(out[p].lines) \in Nat
      BY NoLinesFile, FileParts DEF TypeOK
    <3>2. NoLines.ended = TRUE /\ NoLines.readable = TRUE
      BY DEF NoLines
    <3>3. QED  BY <2>1, <3>1, <3>2, TableAssumption DEF Begun
  <2>4. pc[p] \in Holding
    BY <2>1 DEF Holding, Writing
  <2>5. QED  BY <1>1, <1>4, <2>1, <2>2, <2>3, <2>4 DEF Advance
<1>5. ASSUME NEW p \in Client, PutLine(p)  PROVE OutInv'
  <2>1. UNCHANGED <<table, out, new>> /\ pc[p] = "put"
    BY <1>5 DEF PutLine
  <2>2. GoodOut(p)'
    BY <2>1 DEF OutInv, GoodOut, Holds
  <2>3. pc[p] \in Holding
    BY <2>1 DEF Holding, Writing
  <2>4. /\ tmp' # NoFile
        /\ pc'[p] = "put" => Begun(tmp', out[p])
        /\ pc'[p] # "put" => pc'[p] = "sync" /\ Done(tmp', out[p])
    BY <1>5, PutRows
  <2>5. QED  BY <1>1, <1>5, <2>1, <2>2, <2>3, <2>4 DEF Advance
<1>6. ASSUME NEW p \in Client, SyncTmp(p)  PROVE OutInv'
  <2>1. UNCHANGED <<table, out, new>> /\ pc[p] = "sync" /\ pc'[p] = "rename"
        /\ tmp' = [tmp EXCEPT !.synced = TRUE] /\ tmp \in File
    BY <1>6 DEF SyncTmp, At, TypeOK
  <2>2. GoodOut(p)' /\ Done(tmp, out[p])
    BY <2>1 DEF OutInv, GoodOut, Holds
  <2>3. pc[p] \in Holding
    BY <2>1 DEF Holding, Writing
  <2>4. tmp' # NoFile /\ Done(tmp', out'[p])
    BY <2>1, <2>2, SyncedType, TableAssumption DEF Done
  <2>5. QED  BY <1>1, <1>6, <2>1, <2>2, <2>3, <2>4 DEF Advance
<1>7. ASSUME NEW p \in Client, WriteFails(p)  PROVE OutInv'
  <2>1. UNCHANGED table /\ pc'[p] = "off" /\ pc[p] \in Holding
    BY <1>7 DEF WriteFails, At, TypeOK, Holding, Writing
  <2>2. QED  BY <1>1, <1>7, <2>1
<1>8. ASSUME NEW p \in Client, RenameTmp(p)  PROVE OutInv'
  <2>1. pc'[p] = "unlock" /\ pc[p] \in Holding
    BY <1>8 DEF RenameTmp, At, TypeOK, Holding, Writing
  <2>2. \A q \in Client \ {p} : pc'[q] = pc[q] /\ pc[q] \notin Holding
    BY <1>8, <2>1, OthersStay, Alone DEF Advance
  <2>3. QED  BY <2>1, <2>2 DEF OutInv, Holding, Writing
<1>9. CASE PowerLoss
  BY <1>9 DEF PowerLoss, OutInv
<1>10. QED
  BY <1>2, <1>3, <1>4, <1>5, <1>6, <1>7, <1>8, <1>9 DEF Next, Advance

(* The initial table, when it is whole.                                    *)
LEMMA RowInit ==
  ASSUME WholeTables, Init
  PROVE  RowInv /\ OwnRowIsStable
<1>1. WholeInv
  BY DEF WholeTables, Init, WholeInv
<1>2. OutInv /\ OwnRowIsStable
  BY DEF Init, OutInv, OwnRowIsStable
<1>3. QED  BY <1>1, <1>2 DEF RowInv

(* A client's row stays its own while it runs.                             *)
LEMMA StableStep ==
  ASSUME BaseInv, RowInv, OwnRowIsStable, Next
  PROVE  OwnRowIsStable'
<1> USE DEF BaseInv, RowInv, TypeOK
<1> DEFINE Row_(q) == cur[q] \in {0, Holds(table, q)}
           Use     == {"running", "wait write", "load", "open", "put", "sync", "rename"}
<1>1. ASSUME NEW p \in Client, Start(p) \/ Advance(p) \/ LockFails(p) \/ WriteFails(p) \/ Kill(p),
             \A q \in Client \ {p} : Holds(table', q) = Holds(table, q),
             pc'[p] \in Use => cur'[p] \in {0, Holds(table', p)}
      PROVE  OwnRowIsStable'
  <2>1. ASSUME NEW q \in Client \ {p}, pc'[q] \in Use
        PROVE  cur'[q] \in {0, Holds(table', q)}
    <3>1. pc'[q] = pc[q] /\ cur'[q] = cur[q]
      BY <1>1, OthersStay
    <3>2. cur[q] \in {0, Holds(table, q)}
      BY <2>1, <3>1 DEF OwnRowIsStable
    <3>3. QED  BY <1>1, <3>1, <3>2
  <2>2. QED  BY <1>1, <2>1 DEF OwnRowIsStable
<1>2. ASSUME NEW p \in Client, RenameTmp(p)  PROVE OwnRowIsStable'
  <2>1. table' = tmp /\ pc'[p] = "unlock"
    BY <1>2 DEF RenameTmp, At
  <2>2. \A q \in Client \ {p} : Holds(table', q) = Holds(table, q)
    BY <1>2, <2>1, RenamedRows, TableAssumption
  <2>3. QED  BY <1>1, <1>2, <2>1, <2>2 DEF Advance
<1>3. ASSUME NEW p \in Client, OpenTmp(p) \/ PutLine(p) \/ SyncTmp(p) \/ WriteFails(p)
      PROVE  OwnRowIsStable'
  <2>1. UNCHANGED <<table, cur>>
    BY <1>3 DEF OpenTmp, PutLine, SyncTmp, WriteFails
  <2>2. pc'[p] = "off" \/ pc[p] \in Use
    BY <1>3 DEF OpenTmp, PutLine, SyncTmp, WriteFails, At
  <2>3. pc'[p] \in Use => cur'[p] \in {0, Holds(table', p)}
    BY <2>1, <2>2 DEF OwnRowIsStable
  <2>4. QED  BY <1>1, <1>3, <2>1, <2>3 DEF Advance
<1>4. ASSUME NEW p \in Client,
             \/ Start(p) \/ LockFails(p) \/ Kill(p) \/ Lock(p) \/ ReadRow(p) \/ NothingNew(p)
             \/ (\E v \in Version : Installed(p, v)) \/ Load(p) \/ Unlock(p)
      PROVE  OwnRowIsStable'
  <2>1. UNCHANGED table
    BY <1>4, FilesStay
  <2>2. pc'[p] \in Use => cur'[p] \in {0, Holds(table, p)}
    <3>1. CASE Start(p) \/ Kill(p) \/ NothingNew(p) \/ Unlock(p)
      BY <3>1 DEF Start, Kill, NothingNew, Unlock, At
    <3>2. CASE LockFails(p)
      BY <3>2 DEF LockFails, At
    <3>3. CASE ReadRow(p)
      BY <3>3 DEF ReadRow, At, Holds
    <3>4. ASSUME UNCHANGED cur, pc'[p] \in Use => pc[p] \in Use
          PROVE  pc'[p] \in Use => cur'[p] \in {0, Holds(table, p)}
      BY <3>4 DEF OwnRowIsStable
    <3>5. CASE Lock(p)
      BY <3>4, <3>5 DEF Lock, At
    <3>6. CASE Load(p)
      BY <3>4, <3>6 DEF Load, At
    <3>7. CASE \E v \in Version : Installed(p, v)
      BY <3>4, <3>7 DEF Installed, At
    <3>8. QED  BY <1>4, <3>1, <3>2, <3>3, <3>5, <3>6, <3>7
  <2>3. QED  BY <1>1, <1>4, <2>1, <2>2 DEF Advance
<1>5. CASE PowerLoss
  BY <1>5 DEF PowerLoss, OwnRowIsStable
<1>6. QED  BY <1>2, <1>3, <1>4, <1>5 DEF Next, Advance

(* Every step keeps it and changes only a client's own row.                *)
LEMMA RowStep ==
  ASSUME BaseInv, RowInv, OwnRowIsStable, [Next]_vars
  PROVE  RowInv' /\ OwnRowIsStable'
<1>1. CASE Next
  BY <1>1, WholeStep, OutStep, StableStep DEF RowInv
<1>2. CASE UNCHANGED vars
  BY <1>2 DEF RowInv, WholeInv, OutInv, GoodOut, Holds, OwnRowIsStable, vars, fileVars, procVars
<1>3. QED  BY <1>1, <1>2

(* Both hold in every behaviour over whole tables.                         *)
LEMMA RowsHold == WholeTables /\ Spec => []RowInv /\ []OwnRowIsStable
<1>1. WholeTables /\ Init => RowInv /\ OwnRowIsStable
  BY RowInit
<1>2. QED  BY <1>1, BaseHolds, RowStep, PTL DEF Spec

(* Where the operator's tables are whole, no client that rewrites the      *)
(* table from an older copy takes another one's row back.                  *)
THEOREM RowIsOwn == WholeTables => (Spec => []OwnRowIsStable)
BY RowsHold
-----------------------------------------------------------------------------
(* The refinement                                                          *)

(* The version a file holds for an id.                                     *)
LEMMA HoldsType ==
  ASSUME NEW f \in File \cup {NoFile}, NEW q
  PROVE  Holds(f, q) \in Version \cup {0}
<1>1. CASE f = NoFile
  BY <1>1 DEF Holds
<1>2. CASE f # NoFile
  <2>1. f \in File /\ f.lines \in Seq(Line) /\ Holds(f, q) = VersionOf(f.lines, q)
    BY <1>2, FileParts DEF Holds
  <2>2. CASE \E i \in RowsOf(f.lines) : f.lines[i].id = q
    <3>1. PICK i \in RowsOf(f.lines) : VersionOf(f.lines, q) = f.lines[i].ver
      BY <2>2 DEF VersionOf
    <3>2. QED  BY <2>1, <3>1, RowParts
  <2>3. CASE ~\E i \in RowsOf(f.lines) : f.lines[i].id = q
    BY <2>1, <2>3 DEF VersionOf
  <2>4. QED  BY <2>2, <2>3
<1>3. QED  BY <1>1, <1>2

(* The initial table has the initial rows.                                 *)
LEMMA RefineInit ==
  ASSUME Init
  PROVE  VR!Init
<1>1. table \in File \cup {NoFile} /\ was = {table}
  BY TableAssumption DEF Init
<1>2. Rows(table) \in [Id -> Version \cup {0}]
  BY <1>1, HoldsType DEF Rows
<1>3. {Rows(f) : f \in was} = {Rows(table)}
  BY <1>1
<1>4. QED  BY <1>2, <1>3 DEF VR!Init

(* A rename records the writer's version, a power loss takes the table     *)
(* back, nothing else changes a row.                                       *)
LEMMA RefineStep ==
  ASSUME BaseInv, RowInv, [Next]_vars
  PROVE  [VR!Next]_VR!vars
<1> USE DEF BaseInv
<1>1. ASSUME UNCHANGED <<table, was>>  PROVE UNCHANGED VR!vars
  BY <1>1 DEF VR!vars, Rows, Holds
<1>2. ASSUME NEW p \in Client, RenameTmp(p)  PROVE VR!Next
  <2>1. tmp \in File /\ tmp.synced /\ table' = tmp /\ was' = was \cup {[tmp EXCEPT !.synced = TRUE]}
    BY <1>2 DEF TypeOK, SyncInv, RenameTmp
  <2>2. was' = was \cup {tmp}
    BY <2>1, SyncedType
  <2>3. new[p] \in Version /\ Holds(tmp, p) = new[p] /\ \A q \in Id \ {p} : Holds(tmp, q) = Holds(table, q)
    BY <1>2, RenamedRows
  <2>4. Rows(tmp) = [Rows(table) EXCEPT ![p] = new[p]]
    BY <2>3, TableAssumption DEF Rows
  <2>5. Rows(table)' = Rows(tmp)
    BY <2>1 DEF Rows, Holds
  <2>6. {Rows(f) : f \in was}' = {Rows(f) : f \in was} \cup {Rows(tmp)}
    BY <2>2 DEF Rows, Holds
  <2>7. VR!Record(p, new[p])
    BY <2>4, <2>5, <2>6 DEF VR!Record
  <2>8. QED  BY <2>3, <2>7 DEF VR!Next
<1>3. CASE PowerLoss
  <2>1. table' \in was /\ UNCHANGED was
    BY <1>3, LeftOfSynced DEF PowerLoss, SyncInv
  <2>2. Rows(table)' \in {Rows(f) : f \in was}
    BY <2>1 DEF Rows, Holds
  <2>3. {Rows(f) : f \in was}' = {Rows(f) : f \in was}
    BY <2>1 DEF Rows, Holds
  <2>4. QED  BY <2>2, <2>3 DEF VR!PowerLoss, VR!Next
<1>4. ASSUME NEW p \in Client, ~RenameTmp(p),
             Start(p) \/ Advance(p) \/ LockFails(p) \/ WriteFails(p) \/ Kill(p)
      PROVE  UNCHANGED <<table, was>>
  <2>1. CASE OpenTmp(p) \/ PutLine(p) \/ SyncTmp(p) \/ WriteFails(p)
    BY <2>1 DEF OpenTmp, PutLine, SyncTmp, WriteFails
  <2>2. QED  BY <1>4, <2>1, FilesStay DEF Advance
<1>5. CASE UNCHANGED vars
  BY <1>1, <1>5 DEF vars, fileVars
<1>6. CASE Next
  BY <1>1, <1>2, <1>3, <1>4, <1>6 DEF Next
<1>7. QED  BY <1>5, <1>6

(* Where the operator's tables are whole, locking, rewriting and renaming  *)
(* the file amounts to clients that each change their own row in one step, *)
(* for any number of clients, lines, kills, failures and power losses.     *)
THEOREM RefinesVersionRows == WholeTables => (Spec => ImplementsVersionRows)
<1>1. WholeTables /\ Spec => [][VR!Next]_VR!vars
  BY BaseHolds, RowsHold, RefineStep, PTL DEF Spec
<1>2. Spec => VR!Init
  BY RefineInit DEF Spec
<1>3. QED  BY <1>1, <1>2 DEF ImplementsVersionRows, VR!Spec
=============================================================================
