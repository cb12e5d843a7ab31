------------------------------ MODULE Manifest ------------------------------
(***************************************************************************)
(* The server's manifest (src/server/version_manager.c) and the threads    *)
(* around it: reload_thread, which loads it again after a SIGHUP           *)
(* (src/server/server_main.c), and the sessions that take a copy of it,    *)
(* while the operator edits the metadata file and the package file.        *)
(*                                                                         *)
(* The metadata is read by cfg_load (src/common/config.c).  Struct         *)
(* assignments under the rwlock are two steps, so that the lock has        *)
(* something to protect.  As in UpdateProtocol a digest is represented by  *)
(* the content it is the digest of; Sha256 says how it is computed.        *)
(***************************************************************************)
EXTENDS Integers, Sequences, FiniteSets, Sha256

CONSTANTS
  Reader,      \* workers, each taking snapshots for its sessions
  Version,     \* valid version texts; 0 stands for an invalid one
  Content,     \* what the package file can hold
  Conf,        \* what the metadata file can hold: sequences of entries
  NoFile,      \* no metadata file
  ReadLen,     \* the buffer of sha256_file_hex, 65536
  MaxEntries,  \* CONFIG_MAX_ENTRIES
  MaxEdits, MaxSignals, MaxCopies  \* bounds on what happens in a behaviour

(* A line of the metadata file that is not blank or a comment: a key and   *)
(* its value, or a line without "=".                                       *)
Key == {"LATEST_VERSION", "PACKAGE_FILE", "CHECKSUM_SHA256", "MIN_SUPPORTED"}
Junk == [key |-> "", value |-> 0]

ASSUME ManifestAssumption ==
  /\ Version \subseteq Nat \ {0} /\ Content \subseteq Seq(Nat)
  /\ ReadLen \in Nat \ {0} /\ MaxEntries \in Nat \ {0}
  /\ MaxEdits \in Nat /\ MaxSignals \in Nat /\ MaxCopies \in Nat
  /\ \A c \in Conf : c # NoFile => \A i \in 1..Len(c) : c[i] = Junk \/ c[i].key \in Key

VARIABLES
  running,       \* g_running
  hup,           \* g_reload_requested
  conf, package, \* the metadata file and the package file
  manifest,      \* vm->manifest
  reloader,      \* where reload_thread stands
  entries,       \* what vm_reload read from the metadata file
  next,          \* version_manifest_t of vm_reload
  got,           \* what sha256_file_hex has read of the package file
  locked,        \* the rwlock is held for writing
  reader, copy,  \* where each session stands, and its copy
  edits, signals, copies, \* what is left of the behaviour's budget
  inForce,       \* every manifest a reload put in force or is about to
  seen,          \* the edits to come when the last reload read the metadata
  disturbed      \* the package file was edited while vm_reload looked at it

fileVars   == <<conf, package>>
loadVars   == <<reloader, entries, next, got>>
readVars   == <<reader, copy, copies>>
historyVars == <<inForce, seen, disturbed>>
manifestVars == <<running, hup, fileVars, manifest, loadVars, locked, readVars,
                  edits, signals, historyVars>>

Description == [ver : Nat, size : Nat, digest : Seq(Nat)]
Described(v, size, digest) == [ver |-> v, size |-> size, digest |-> digest]
Nothing == Described(0, 0, <<>>)

ReaderPC   == {"idle", "copy version", "copy rest", "use", "gone"}
ReloaderPC == {"test", "clear", "load", "size", "hash", "compare", "lock", "assign version",
               "assign rest", "unlock", "log", "gone"}

-----------------------------------------------------------------------------
(* cfg_load and cfg_get                                                    *)

(* Every line has a "=", no key comes twice, and there is room for all.    *)
Loadable(c) ==
  /\ c # NoFile /\ Len(c) <= MaxEntries
  /\ \A i \in 1..Len(c) : c[i] # Junk
  /\ \A i, j \in 1..Len(c) : c[i].key = c[j].key => i = j

cfg_get(c, key, fallback) ==
  IF \E i \in 1..Len(c) : c[i].key = key
  THEN c[CHOOSE i \in 1..Len(c) : c[i].key = key].value
  ELSE fallback

(* The fields vm_reload takes from the metadata.  PACKAGE_FILE names the   *)
(* package or a file that is not there.                                    *)
FieldsValid(c) ==
  /\ cfg_get(c, "LATEST_VERSION", 0) \in Version
  /\ cfg_get(c, "MIN_SUPPORTED", 1) # 0
  /\ cfg_get(c, "PACKAGE_FILE", "") # ""

PackageThere(c) == cfg_get(c, "PACKAGE_FILE", "") = "package"

(* The manifest is loaded when the server starts, or there is no server.   *)
ManifestInit ==
  /\ running = TRUE /\ hup = FALSE
  /\ conf \in {c \in Conf : Loadable(c) /\ FieldsValid(c)}
  /\ package \in Content /\ PackageThere(conf)
  /\ cfg_get(conf, "CHECKSUM_SHA256", package) = package
  /\ manifest = Described(cfg_get(conf, "LATEST_VERSION", 0), Len(package), package)
  /\ reloader = "test" /\ entries = <<>> /\ next = Nothing /\ got = <<>>
  /\ locked = FALSE
  /\ reader = [r \in Reader |-> "idle"] /\ copy = [r \in Reader |-> Nothing]
  /\ edits = MaxEdits /\ signals = MaxSignals /\ copies = MaxCopies
  /\ inForce = {manifest} /\ seen = MaxEdits /\ disturbed = FALSE
-----------------------------------------------------------------------------
(* The operator                                                            *)

EditConf(c) ==
  /\ edits > 0 /\ edits' = edits - 1 /\ conf' = c
  /\ UNCHANGED <<running, hup, package, manifest, loadVars, locked, readVars, signals, historyVars>>

EditPackage(content) ==
  /\ edits > 0 /\ edits' = edits - 1 /\ package' = content
  /\ disturbed' = (disturbed \/ reloader \in {"hash", "compare"})
  /\ UNCHANGED <<running, hup, conf, manifest, loadVars, locked, readVars, signals, inForce, seen>>

(* handle_signal.                                                          *)
SigHup ==
  /\ signals > 0 /\ signals' = signals - 1
  /\ hup' = TRUE
  /\ UNCHANGED <<running, fileVars, manifest, loadVars, locked, readVars, edits, historyVars>>

SigTerm ==
  /\ running /\ running' = FALSE
  /\ UNCHANGED <<hup, fileVars, manifest, loadVars, locked, readVars, edits, signals, historyVars>>
-----------------------------------------------------------------------------
(* reload_thread and vm_reload                                             *)

ReloaderAt(pc) == reloader' = pc
OthersStill    == UNCHANGED <<running, fileVars, readVars, edits, signals>>

ReloadTest ==
  /\ reloader = "test"
  /\ \/ ~running /\ ReloaderAt("gone")
     \/ running /\ hup /\ ReloaderAt("clear")
  /\ OthersStill /\ UNCHANGED <<hup, manifest, entries, next, got, locked, historyVars>>

(* The flag is cleared before the files are read.                          *)
ReloadClear ==
  /\ reloader = "clear" /\ ReloaderAt("load") /\ hup' = FALSE
  /\ OthersStill /\ UNCHANGED <<manifest, entries, next, got, locked, historyVars>>

(* cfg_load and the fields.                                                *)
ReloadConf ==
  /\ reloader = "load"
  /\ IF Loadable(conf) /\ FieldsValid(conf)
     THEN /\ ReloaderAt("size")
          /\ next' = [Nothing EXCEPT !.ver = cfg_get(conf, "LATEST_VERSION", 0)]
     ELSE ReloaderAt("log") /\ UNCHANGED next
  /\ entries' = conf /\ seen' = edits /\ disturbed' = FALSE
  /\ OthersStill /\ UNCHANGED <<hup, manifest, got, locked, inForce>>

(* pkg_resolve_path and pkg_file_size.                                     *)
ReloadSize ==
  /\ reloader = "size"
  /\ IF PackageThere(entries)
     THEN /\ ReloaderAt("hash") /\ next' = [next EXCEPT !.size = Len(package)]
          /\ got' = <<>>
     ELSE ReloaderAt("log") /\ UNCHANGED <<next, got>>
  /\ OthersStill /\ UNCHANGED <<hup, manifest, entries, locked, historyVars>>

(* sha256_file_hex: one fread after the other of the file as it is then;   *)
(* or the file is gone by now, or a read fails, and the manifest is kept.  *)
LastReadEarly(chunk) == Len(chunk) <= ReadLen
LastRead(chunk)      == Len(chunk) < ReadLen

ReloadRead ==
  /\ reloader = "hash"
  /\ LET pos   == Len(got)
         until == IF Len(package) < pos + ReadLen THEN Len(package) ELSE pos + ReadLen
         chunk == SubSeq(package, pos + 1, until)
     IN /\ got' = got \o chunk
        /\ IF LastRead(chunk) THEN ReloaderAt("compare") /\ next' = [next EXCEPT !.digest = got']
                              ELSE UNCHANGED <<reloader, next>>
  /\ OthersStill /\ UNCHANGED <<hup, manifest, entries, locked, historyVars>>

ReloadUnread ==
  /\ reloader = "hash" /\ ReloaderAt("log")
  /\ OthersStill /\ UNCHANGED <<hup, manifest, entries, next, got, locked, historyVars>>

ReloadHash == ReloadRead \/ ReloadUnread

(* A CHECKSUM_SHA256 in the metadata must be the digest that was computed. *)
ChecksumOk == cfg_get(entries, "CHECKSUM_SHA256", next.digest) = next.digest

ReloadCompare ==
  /\ reloader = "compare"
  /\ ReloaderAt(IF ChecksumOk THEN "lock" ELSE "log")
  /\ OthersStill /\ UNCHANGED <<hup, manifest, entries, next, got, locked, historyVars>>

Reading     == {r \in Reader : reader[r] \in {"copy version", "copy rest"}}
NotExcluded == TRUE
NoReaders   == Reading = {}

ReloadLock ==
  /\ reloader = "lock" /\ NoReaders /\ ReloaderAt("assign version") /\ locked' = TRUE
  /\ inForce' = inForce \cup {next}
  /\ OthersStill /\ UNCHANGED <<hup, manifest, entries, next, got, seen, disturbed>>

ReloadAssign ==
  /\ \/ /\ reloader = "assign version" /\ ReloaderAt("assign rest")
        /\ manifest' = [manifest EXCEPT !.ver = next.ver]
     \/ /\ reloader = "assign rest" /\ ReloaderAt("unlock")
        /\ manifest' = [next EXCEPT !.ver = manifest.ver]
  /\ OthersStill /\ UNCHANGED <<hup, entries, next, got, locked, historyVars>>

ReloadUnlock ==
  /\ reloader = "unlock" /\ ReloaderAt("log") /\ locked' = FALSE
  /\ OthersStill /\ UNCHANGED <<hup, manifest, entries, next, got, historyVars>>

(* The outcome was logged; sleep(1).  Faulty: the request is cleared when  *)
(* it was answered.                                                        *)
ClearsWhenDone ==
  /\ reloader = "log" /\ ReloaderAt("test") /\ hup' = FALSE
  /\ OthersStill /\ UNCHANGED <<manifest, entries, next, got, locked, historyVars>>

ReloadLogged ==
  /\ reloader = "log" /\ ReloaderAt("test")
  /\ OthersStill /\ UNCHANGED <<hup, manifest, entries, next, got, locked, historyVars>>

ReloadWork == ReloadTest \/ ReloadClear \/ ReloadConf \/ ReloadSize \/ ReloadHash
                \/ ReloadCompare \/ ReloadLock \/ ReloadAssign \/ ReloadUnlock
-----------------------------------------------------------------------------
(* Sessions: vm_get_snapshot                                               *)

OperatorStill == UNCHANGED <<running, hup, fileVars, manifest, loadVars, locked, edits, signals,
                             historyVars>>
ReaderAt(r, pc) == reader' = [reader EXCEPT ![r] = pc]

ReadLock(r) ==
  /\ reader[r] = "idle" /\ running /\ copies > 0 /\ copies' = copies - 1
  /\ ~locked /\ ReaderAt(r, "copy version")
  /\ OperatorStill /\ UNCHANGED copy

ReadCopy(r) ==
  /\ \/ /\ reader[r] = "copy version" /\ ReaderAt(r, "copy rest")
        /\ copy' = [copy EXCEPT ![r] = [Nothing EXCEPT !.ver = manifest.ver]]
     \/ /\ reader[r] = "copy rest" /\ ReaderAt(r, "use")
        /\ copy' = [copy EXCEPT ![r] = [manifest EXCEPT !.ver = copy[r].ver]]
  /\ OperatorStill /\ UNCHANGED copies

(* The decision was logged; the session ends.                              *)
ReadLogged(r) ==
  /\ reader[r] = "use" /\ ReaderAt(r, "idle")
  /\ copy' = [copy EXCEPT ![r] = Nothing]
  /\ OperatorStill /\ UNCHANGED copies

ReaderLeaves(r) ==
  /\ reader[r] = "idle" /\ ~running /\ ReaderAt(r, "gone")
  /\ OperatorStill /\ UNCHANGED <<copy, copies>>

ReadWork(r) == ReadLock(r) \/ ReadCopy(r) \/ ReaderLeaves(r)

Operator == (\E c \in Conf : EditConf(c)) \/ (\E p \in Content : EditPackage(p)) \/ SigHup

ManifestStep == Operator \/ SigTerm \/ ReloadWork \/ ReloadLogged
                  \/ \E r \in Reader : ReadWork(r) \/ ReadLogged(r)

ManifestSpec == ManifestInit /\ [][ManifestStep]_manifestVars

(* The reload thread and the sessions run; nobody has to edit or signal.   *)
ManifestFairSpec ==
  /\ ManifestSpec /\ WF_manifestVars(ReloadWork \/ ReloadLogged)
  /\ \A r \in Reader : WF_manifestVars(ReadWork(r) \/ ReadLogged(r))
-----------------------------------------------------------------------------
ManifestTypeOK ==
  /\ running \in BOOLEAN /\ hup \in BOOLEAN /\ locked \in BOOLEAN /\ disturbed \in BOOLEAN
  /\ conf \in Conf \cup {NoFile} /\ package \in Content
  /\ reloader \in ReloaderPC /\ reader \in [Reader -> ReaderPC]
  /\ manifest \in Description /\ next \in Description /\ copy \in [Reader -> Description]
  /\ inForce \subseteq Description /\ got \in Seq(Nat)
  /\ edits \in Nat /\ signals \in Nat /\ copies \in Nat /\ seen \in Nat

(* A session works with a manifest that was in force as a whole, never     *)
(* with the version of one and the size or digest of another, however a    *)
(* reload falls into its copying.                                          *)
SnapshotIsWhole == \A r \in Reader : reader[r] = "use" => copy[r] \in inForce

(* What a reload puts in force describes the package file: its size, and   *)
(* the SHA-256 digest of its content, for files shorter and longer than a  *)
(* read and at every turn of the last block; unless the file was edited    *)
(* while vm_reload looked at it.                                           *)
LoadIsAccurate ==
  (reloader = "compare" /\ ~disturbed) =>
     /\ next.size = Len(package)
     /\ sha256_final(sha256_update(sha256_init, next.digest)) = Digest(package)

(* A SIGHUP that comes after edits is answered with a reload that reads    *)
(* the files as they were edited, also when it comes during another        *)
(* reload; unless the server stops.                                        *)
SignalIsHonoured == \A n \in 0..MaxEdits : (hup /\ edits = n) ~> (seen <= n \/ ~running)
=============================================================================
