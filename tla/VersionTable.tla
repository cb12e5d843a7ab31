---------------------------- MODULE VersionTable ----------------------------
(***************************************************************************)
(* The version table that the client processes of one machine share        *)
(* (src/client/downloader.c): getCurrentVersion reads a client's row,      *)
(* write_version_file rewrites the whole file around that row, both under  *)
(* a lock on <table>.lock, the second through <table>.tmp, an fsync and a  *)
(* rename.  A client process can be killed between any two of these steps, *)
(* the machine can lose its power, and the disk can refuse a write.        *)
(*                                                                         *)
(* A process is identified by its client id: acquire_client_instance_lock  *)
(* (src/client/client_main.c) lets one process at a time run as a client.  *)
(* A file is a sequence of lines; a line is a row in the form the program  *)
(* writes, a comment, or something parse_version_row rejects.              *)
(***************************************************************************)
EXTENDS Integers, Sequences, FiniteSets

CONSTANTS
  Client,     \* the clients that run, by their ids
  Id,         \* the ids that may have a row
  NoOne,
  Version,
  MaxLines,   \* lines[] and seen[] have 512 places
  Tables,     \* files the operator may have put there
  NoFile,
  Runs, Faults\* how often a client is started, how often something fails

Note == [id |-> "#", ver |-> 0]     \* a comment or a blank line
Bad  == [id |-> "?", ver |-> 0]
Row  == [id : Id, ver : Version]
Line == Row \cup {Note, Bad}

(* ended: the last line has its newline.  readable: fopen for reading      *)
(* succeeds.  synced: the content is on the disk, not in memory only.      *)
File == [lines : Seq(Line), ended : BOOLEAN, readable : BOOLEAN, synced : BOOLEAN]

ASSUME TableAssumption ==
  /\ Client \subseteq Id /\ NoOne \notin Client
  /\ "#" \notin Id /\ "?" \notin Id
  /\ Version \subseteq Nat \ {0}
  /\ MaxLines \in Nat \ {0}
  /\ NoFile \notin File
  /\ \A f \in Tables : f = NoFile \/ (f \in File /\ f.synced)
  /\ Runs \in Nat /\ Faults \in Nat

VARIABLES
  table,      \* the version table
  tmp,        \* <table>.tmp
  was,        \* every table there was: what a power loss can bring back
  lock,       \* who holds the lock on <table>.lock
  pc,         \* where each client process stands
  cur,        \* what getCurrentVersion returned
  new,        \* the version to record
  out,        \* lines[] of write_version_file, as the text they make
  runs, faults\* what is left of the budget

fileVars == <<table, tmp, was>>
procVars == <<pc, cur, new, out>>
vars == <<fileVars, lock, procVars, runs, faults>>

(* Holding the lock: to read, or to write.                                 *)
Writing == {"load", "open", "put", "sync", "rename", "unlock"}
Holding == {"read"} \cup Writing
PC == {"off", "wait read", "running", "wait write"} \cup Holding

NoLines == [lines |-> <<>>, ended |-> TRUE, readable |-> TRUE, synced |-> FALSE]

Init ==
  /\ table \in Tables /\ tmp = NoFile /\ was = {table}
  /\ lock = NoOne
  /\ pc = [p \in Client |-> "off"]
  /\ cur = [p \in Client |-> 0] /\ new = [p \in Client |-> 0]
  /\ out = [p \in Client |-> NoLines]
  /\ runs = Runs /\ faults = Faults
-----------------------------------------------------------------------------
(* What the text of the file says                                          *)

IsRow(line) == line \notin {Note, Bad}
RowsOf(lines) == {i \in 1..Len(lines) : IsRow(lines[i])}

(* parse_version_row and remember_version_id accept every line.            *)
WellFormed(lines) ==
  /\ \A i \in 1..Len(lines) : lines[i] # Bad
  /\ \A i, j \in RowsOf(lines) : lines[i].id = lines[j].id => i = j

VersionOf(lines, id) ==
  IF \E i \in RowsOf(lines) : lines[i].id = id
  THEN lines[CHOOSE i \in RowsOf(lines) : lines[i].id = id].ver
  ELSE 0

Holds(file, id) == IF file = NoFile THEN 0 ELSE VersionOf(file.lines, id)

(* fputs of one line after the others.  Behind a line without its newline  *)
(* it becomes part of that line: a comment grows, a row turns invalid.     *)
Puts(file, line, ended) ==
  LET glued == IF file.lines[Len(file.lines)] = Note THEN Note ELSE Bad IN
  [file EXCEPT
     !.lines = IF file.ended THEN Append(@, line) ELSE [@ EXCEPT ![Len(@)] = glued],
     !.ended = ended]

(* The lines fgets finds: no more than MaxLines.                           *)
FirstLines(file) ==
  IF Len(file.lines) <= MaxLines THEN file
  ELSE [file EXCEPT !.lines = SubSeq(@, 1, MaxLines), !.ended = TRUE]

(* The text with p's row replaced where it stands.                          *)
Replace(file, p, v) ==
  LET n == Len(file.lines) IN
  [file EXCEPT
     !.lines = [i \in 1..n |-> IF @[i].id = p THEN [id |-> p, ver |-> v] ELSE @[i]],
     !.ended = @ \/ (n > 0 /\ file.lines[n].id = p)]

HasRow(file, p) == \E i \in 1..Len(file.lines) : file.lines[i].id = p

-----------------------------------------------------------------------------
(* main, getCurrentVersion                                                 *)

At(p, state) == pc' = [pc EXCEPT ![p] = state]
Fails == faults > 0 /\ faults' = faults - 1

(* The instance lock is free: no other process runs as this client.        *)
Start(p) ==
  /\ pc[p] = "off" /\ runs > 0 /\ runs' = runs - 1
  /\ At(p, "wait read")
  /\ UNCHANGED <<fileVars, lock, cur, new, out, faults>>

(* lock_client_version_table: fcntl(F_SETLKW) on <table>.lock.             *)
LockIgnored == TRUE
LockFree    == lock = NoOne

Lock(p) ==
  /\ pc[p] \in {"wait read", "wait write"} /\ LockFree
  /\ lock' = p
  /\ At(p, IF pc[p] = "wait read" THEN "read" ELSE "load")
  /\ UNCHANGED <<fileVars, cur, new, out, runs, faults>>

(* The lock file cannot be opened, or a signal interrupts the wait: a      *)
(* reader assumes version 0.0.0, a writer gives up.                        *)
LockFails(p) ==
  /\ pc[p] \in {"wait read", "wait write"} /\ Fails
  /\ IF pc[p] = "wait read" THEN At(p, "running") /\ cur' = [cur EXCEPT ![p] = 0]
                            ELSE At(p, "off") /\ UNCHANGED cur
  /\ UNCHANGED <<fileVars, lock, new, out, runs>>

(* The client's row; no row or no readable file counts as version 0.0.0, a *)
(* line that is invalid, twice there or too many ends the client.          *)
ReadRow(p) ==
  /\ pc[p] = "read"
  /\ lock' = NoOne
  /\ IF table = NoFile \/ ~table.readable
     THEN At(p, "running") /\ cur' = [cur EXCEPT ![p] = 0]
     ELSE IF WellFormed(table.lines) /\ Cardinality(RowsOf(table.lines)) <= MaxLines
     THEN At(p, "running") /\ cur' = [cur EXCEPT ![p] = VersionOf(table.lines, p)]
     ELSE At(p, "off") /\ UNCHANGED cur
  /\ UNCHANGED <<fileVars, new, out, runs, faults>>

(* The run ends without an update.                                         *)
NothingNew(p) ==
  /\ pc[p] = "running" /\ At(p, "off")
  /\ UNCHANGED <<fileVars, lock, cur, new, out, runs, faults>>

(* Version v was downloaded, verified and renamed into place.              *)
Installed(p, v) ==
  /\ pc[p] = "running" /\ v > cur[p]
  /\ At(p, "wait write") /\ new' = [new EXCEPT ![p] = v]
  /\ UNCHANGED <<fileVars, lock, cur, out, runs, faults>>
-----------------------------------------------------------------------------
(* write_version_file                                                      *)

(* Room in lines[] for one row more.                                       *)
RoomLeftOff(file) == Len(file.lines) <= MaxLines
RoomLeft(file)    == Len(file.lines) < MaxLines

(* lines[] is filled, the client's row replaced or appended.  A file that  *)
(* cannot be opened counts as empty.                                       *)
Load(p) ==
  /\ pc[p] = "load"
  /\ LET text == IF table = NoFile \/ ~table.readable THEN NoLines ELSE FirstLines(table) IN
     IF WellFormed(text.lines) /\ (HasRow(text, p) \/ RoomLeft(text))
     THEN /\ At(p, "open") /\ UNCHANGED lock
          /\ out' = [out EXCEPT ![p] =
                       IF HasRow(text, p) THEN Replace(text, p, new[p])
                       ELSE Puts(text, [id |-> p, ver |-> new[p]], TRUE)]
     ELSE At(p, "off") /\ lock' = NoOne /\ UNCHANGED out
  /\ UNCHANGED <<fileVars, cur, new, runs, faults>>

(* fopen(tmp_path, "w"): what a killed writer left there is gone.  Faulty:  *)
(* the new lines go behind it.                                             *)
OpenTmpAppend(p) ==
  /\ pc[p] = "open" /\ At(p, "put")
  /\ tmp' = IF tmp = NoFile THEN NoLines ELSE [tmp EXCEPT !.synced = FALSE]
  /\ UNCHANGED <<table, was, lock, cur, new, out, runs, faults>>

OpenTmp(p) ==
  /\ pc[p] = "open" /\ At(p, "put")
  /\ tmp' = NoLines
  /\ UNCHANGED <<table, was, lock, cur, new, out, runs, faults>>

(* The lines reach the file one by one.                                    *)
PutLine(p) ==
  /\ pc[p] = "put" /\ tmp # NoFile
  /\ LET n == Len(tmp.lines) IN
     IF n < Len(out[p].lines)
     THEN tmp' = Puts(tmp, out[p].lines[n + 1], n + 1 < Len(out[p].lines) \/ out[p].ended)
          /\ UNCHANGED pc
     ELSE At(p, "sync") /\ UNCHANGED tmp
  /\ UNCHANGED <<table, was, lock, cur, new, out, runs, faults>>

(* fflush, fsync, fclose.                                                  *)
CloseUnsynced(p) ==
  /\ pc[p] = "sync" /\ At(p, "rename")
  /\ UNCHANGED <<fileVars, lock, cur, new, out, runs, faults>>

SyncTmp(p) ==
  /\ pc[p] = "sync" /\ At(p, "rename") /\ tmp # NoFile
  /\ tmp' = [tmp EXCEPT !.synced = TRUE]
  /\ UNCHANGED <<table, was, lock, cur, new, out, runs, faults>>

RenameTmp(p) ==
  /\ pc[p] = "rename" /\ At(p, "unlock") /\ tmp # NoFile
  /\ table' = tmp /\ tmp' = NoFile
  /\ was' = was \cup {[tmp EXCEPT !.synced = TRUE]}
  /\ UNCHANGED <<lock, cur, new, out, runs, faults>>

Unlock(p) ==
  /\ pc[p] = "unlock" /\ At(p, "off") /\ lock' = NoOne
  /\ UNCHANGED <<fileVars, cur, new, out, runs, faults>>

(* fopen fails; or fputs, fflush, fsync, fclose or rename does, and the    *)
(* temporary file is removed.                                              *)
WriteFails(p) ==
  /\ pc[p] \in {"open", "put", "sync", "rename"} /\ Fails
  /\ At(p, "off") /\ lock' = NoOne
  /\ tmp' = IF pc[p] = "open" THEN tmp ELSE NoFile
  /\ UNCHANGED <<table, was, cur, new, out, runs>>

(* A client process is killed: the kernel releases its locks, <table>.tmp  *)
(* stays behind as it is.                                                  *)
KeepsLock(p)     == UNCHANGED lock
KernelUnlocks(p) == lock' = IF lock = p THEN NoOne ELSE lock

Kill(p) ==
  /\ pc[p] # "off" /\ Fails
  /\ At(p, "off") /\ KernelUnlocks(p)
  /\ UNCHANGED <<fileVars, cur, new, out, runs>>

(* The machine loses its power: of a file that was not synced any prefix   *)
(* may be left, and a rename may not have reached the disk.                *)
LeftOf(file) ==
  IF file = NoFile \/ file.synced THEN {file}
  ELSE {[file EXCEPT !.lines = SubSeq(@, 1, n), !.synced = TRUE] : n \in 0..Len(file.lines)}

PowerLoss ==
  /\ Fails
  /\ pc' = [p \in Client |-> "off"] /\ lock' = NoOne
  /\ tmp' = NoFile
  /\ table' \in was \cup LeftOf(table)
  /\ UNCHANGED <<was, cur, new, out, runs>>

Advance(p) ==
  \/ Lock(p) \/ ReadRow(p) \/ NothingNew(p) \/ (\E v \in Version : Installed(p, v))
  \/ Load(p) \/ OpenTmp(p) \/ PutLine(p) \/ SyncTmp(p) \/ RenameTmp(p) \/ Unlock(p)

Next ==
  \/ \E p \in Client : Start(p) \/ Advance(p) \/ LockFails(p) \/ WriteFails(p) \/ Kill(p)
  \/ PowerLoss

Spec == Init /\ [][Next]_vars

(* A client that is not killed runs on, its own operations end, and a lock *)
(* that stays free is granted.  Nobody has to start a client.              *)
Fairness == \A p \in Client : WF_vars(Advance(p))

FairSpec == Spec /\ Fairness
-----------------------------------------------------------------------------
(* Types, and the bounds of lines[].                                       *)
TypeOK ==
  /\ table \in File \cup {NoFile} /\ tmp \in File \cup {NoFile}
  /\ was \subseteq File \cup {NoFile}
  /\ lock \in Client \cup {NoOne}
  /\ pc \in [Client -> PC]
  /\ cur \in [Client -> Version \cup {0}] /\ new \in [Client -> Version \cup {0}]
  /\ out \in [Client -> File] /\ \A p \in Client : Len(out[p].lines) <= MaxLines
  /\ runs \in Nat /\ faults \in Nat

(* Under its final name the table is never a file in the making: killed    *)
(* writers, failed writes and a power loss leave a table that some client  *)
(* completed, or the operator's.                                           *)
TableNeverTorn == table = NoFile \/ [table EXCEPT !.synced = TRUE] \in was

(* From reading its row to replacing it a client's row is its own: no      *)
(* client that rewrites the table from an older copy takes it back.        *)
OwnRowIsStable ==
  \A p \in Client :
    pc[p] \in {"running", "wait write", "load", "open", "put", "sync", "rename"} =>
      cur[p] \in {0, Holds(table, p)}

(* The file operations implement independent rows: a client that records   *)
(* its version changes its own row and no other, in one step, whatever the *)
(* other clients are doing with the file.                                  *)
Rows(file) == [i \in Id |-> Holds(file, i)]
VR == INSTANCE VersionRows WITH rows <- Rows(table), past <- {Rows(f) : f \in was}

ImplementsVersionRows == VR!Spec

(* A client that waits for the lock gets it and its run ends, wherever the *)
(* one before it was killed.                                               *)
EveryClientEnds == \A p \in Client : pc[p] # "off" ~> pc[p] = "off"
=============================================================================
