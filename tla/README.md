# A TLA+ development of the distributed software update framework

This directory specifies, model-checks and proves parts of the C program in
`src/Project_3/Project_3/` (paths below are relative to it): a multi-threaded update server and
an update client that talk over TLS. A client reports the version it runs; the server answers
"up to date", or advertises a package and streams it; the client resumes interrupted downloads,
verifies the SHA-256 digest, installs by renaming, and records the version in a table.

Definitions follow the code, not its documents. `PROJECT.json` maps each definition to the lines
it stands for.

## 1. Inventory

| Component | State | Operations | What is hard | Correct when |
|---|---|---|---|---|
| Connection queue (`src/common/threadpool.c`) | ring buffer, head, tail, count, shutdown flag, mutex, condition variable | `tpq_push`, `tpq_pop`, `tpq_shutdown` | one signal per push, overtaking, spurious wakeups, wrap-around, shutdown while workers sleep | bounded FIFO, no lost wakeup, every worker released at shutdown |
| Acceptor (`src/server/acceptor.c`) | one accepted descriptor | select, accept, push, or `BUSY` and close | the running flag is read before select; queue full or shut down | every accepted connection is queued or refused |
| Workers (`src/server/worker.c`, `worker_thread`) | the connection served, a slot of `g_worker_fds`, `busy_workers` | read flag, pop, read flag, count, track, TLS, session, close, untrack, uncount | the order of these against the shutdown's scan | nothing stays tracked, counted or open |
| Session (`handle_client_session`, `src/server/package_service.c`) | manifest snapshot, stream position, reserved id in `g_active_client_ids` | AUTH, VERSION_REQ, DOWNLOAD_REQ, streaming with PAUSE/RESUME, RESULT | reconnects overlapping old sessions, reloads and package overwrites, many error paths | one session per id, id always released, stream continues where the part file ends |
| Version manager (`src/server/version_manager.c`) | manifest under a rwlock, the reload request | `vm_init`, `vm_reload` on SIGHUP with its reads of metadata and package, `vm_get_snapshot`, `vm_destroy` | reload under running sessions, edits while it reads, a SIGHUP during a reload, failing reload keeps the old manifest | a session works on one whole manifest, a reload describes the file, a SIGHUP is answered |
| Start and shutdown (`src/server/server_main.c`, `src/server/dashboard.c`) | `g_running`, listening socket, `g_shutdown_lock`, `g_acceptor_started`, `g_reloader_started` | creation of the threads, signal handler, watcher thread, `server_request_shutdown` from three callers, `cleanup_server` | called more than once, races with every thread, a signal while threads are being created | terminates, joins every thread, leaves nothing |
| Client run (`src/client/downloader.c`) | attempt counter, connection, advert, part file and its stdio buffer, installed file, version table | `CheckForUpdate`, `run_attempt`, `receive_update`, pause/resume | kills at any point, resets, silence, resume, republished packages | installs only what was published, records only what is installed, every run ends |
| Version table (`getCurrentVersion`, `write_version_file` in `downloader.c`) | the table shared by the client processes of a machine, its lock file, its temporary file | read a row, rewrite the file around a row | kills and power loss between lock, write, `fsync` and `rename`; hand-edited tables | each client changes its own row, the file is never torn, the lock never stays |
| Client process (`src/client/client_main.c`) | `g_client_stop`, `g_active_fd`, `g_signal_closed_fd`, instance lock | signal handler, `client_request_stop`, cleanup | the descriptor is closed from another thread and its number used again | no foreign close, no connection left, a stop is noticed |
| Client GUI (`src/client/client_gui.c`) | pause/resume flags, status, log lines | setters, mouse callback, timer | clicks consumed later than made | a click acts on the download it was made for |
| Wire protocol and sockets (`src/common/protocol.c`, `netutil.c`) | bytes under way | framing, `conn_read_all`, `conn_write_all`, connect with timeout | receive timeouts under TLS, partial reads | messages in order or a broken connection |
| Logger (`src/common/logger.c`) | queue of lines, drop counter, ring of recent lines | `log_msg`, writer thread, `logger_stop`, `logger_recent` | queue full, wrap-around of both, drain at stop, calls after it | lines are written in order, drops counted |
| Statistics (`src/common/stats.c`) | counters, list of active clients | add, update, remove, snapshot | keys that can repeat | the list is the set of served connections |
| SHA-256 (`src/common/sha256.c`) | one block buffer, the length | `sha256_update`, `sha256_final`, `sha256_file_hex` | turns of a block, of the padding and of a read | the blocks are those of FIPS 180-4 |
| Configuration (`src/common/config.c`) | a list of keys and values | `cfg_load`, `cfg_set`, `cfg_get` | duplicate keys, lines without `=`, too many entries | an ambiguous file is refused |
| Version parsing (`src/common/version.c`), registry (`auth.c`), TLS (`tls.c`) | none, or read once | parsing, comparison, lookup, OpenSSL | malformed input | outcomes only, see section 6 |

Interactions: the acceptor and the workers share the connection queue; sessions share the
manifest and the id registry; the shutdown reaches acceptor and workers through the running flag,
the closed listening socket, the queue and `g_worker_fds`; client and session are joined by the
connection only; the client shares files with later runs of itself, and the version table with
other clients. Inside a client, the update thread, the signal handler and the GUI's main loop share
flags and the number of a descriptor. Every thread of the server logs.

The hazards, each at its line and with the properties that would catch it going wrong, are in
`PROJECT.json`.

## 2. Modules

| Module | Models | Extends / instantiates |
|---|---|---|
| `WorkQueue` | what the connection queue promises: a bounded FIFO that closes, and when its workers leave | |
| `ThreadPool` | `threadpool.c`: ring, mutex sections, condition variable, spurious wakeups; the loop of `worker_thread` around it | `WQ == INSTANCE WorkQueue` |
| `UpdateProtocol` | one client, its files and the server's sessions with it, over connections that break | |
| `UpdateServer` | the server's threads, queue, id registry, tracked descriptors and shutdown | uses the queue as `WorkQueue` specifies it |
| `VersionRows` | what the version table promises: rows that only their own client changes, in one step | |
| `VersionTable` | the client processes of one machine, step by step over table, lock file and temporary file | `VR == INSTANCE VersionRows` |
| `Sha256` | buffering and padding of `sha256.c`, and the blocks FIPS 180-4 asks for | |
| `Manifest` | `version_manager.c`, the reload thread, SIGHUP, the sessions' copies, the operator's edits | extends `Sha256` |
| `Logger` | `logger.c`: queue, drops, writer thread, ring of recent lines, `logger_stop` | |
| `ServerServices` | manifest and logger together, with main's creation of acceptor and reload thread, who logs what, and the order of `cleanup_server` | extends `Manifest`, `Logger` |
| `ClientProcess` | one client process: update thread, signal handler, GUI buttons, window | |
| `MCThreadPool`, `MCUpdateProtocol`, `MCUpdateServer`, `MCVersionTable`, `MCManifest`, `MCServerServices`, `MCClientProcess` | values for the constants, symmetry sets | |
| `ThreadPoolProofs`, `UpdateProtocolProofs`, `UpdateServerProofs`, `VersionTableProofs`, `ManifestProofs`, `LoggerProofs`, `ServerServicesProofs`, `ClientProcessProofs` | theorems and proofs | the module they are named for |

**ThreadPool.** A step is what one thread does between taking the mutex and giving it up
(`pthread_mutex_unlock` or `pthread_cond_wait`). `pc[w]` tells whether a worker is at the test of its
loop, about to pop, asleep on the condition variable, woken but not yet holding the mutex, about to look at
the running flag again, serving, or gone, and if so why. `items`, `head`, `tail`, `count`, `shutdown`
are the fields of `tpq_t`, `running` is `g_running`. Once the flag is down, a worker leaves at its loop
test, or closes what it popped and leaves (`CheckAfterPop`), so connections may stay in the queue:
`EveryConnectionServed` promises service only while the server runs. The refinement mapping reads the
abstract queue off the ring (`Contents`); in `WorkQueue` a worker leaves refused (queue closed and
empty) or quits.

**UpdateProtocol.** `spc[k]` is the place of connection `k`'s session in `worker_thread` /
`handle_client_session` / `pkg_stream_file`; `cpc` is the client's place in `run_attempt` /
`receive_update`. A message is a record of type and argument; `toClient[k]` and `toServer[k]` are
the bytes under way. `sOpen[k]` / `cOpen[k]` say whether the other end's close (or a reset) is not
yet visible; `dead` holds connections whose peer went silent. A package's content is a sequence of
blocks, one per DATA message, and a digest is represented by the content it belongs to. Closing a
socket with unread input may destroy what the peer has not read (a reset), and the model leaves both
outcomes open. The client's files are `part`, `final` and `table`; `flushed` says how much of the
part file has left the stdio buffer, and a kill loses any part of the rest. Sessions of other clients
only appear as refusals (`TurnAway`, and SERVER_BUSY in `RefuseAuth`).

**UpdateServer.** `fate[c]` says who is responsible for a connection; `wpc[w]` walks through
`worker_thread` one shared access at a time: pop, look at the flag, count, track, handshake,
reserve, session, release, close, untrack, uncount. `spc[p]` and `scan` walk through
`server_request_shutdown` in each of its three callers, one slot of `g_worker_fds` per step, under
`g_shutdown_lock`. main creates the acceptor (`CreateAcceptor`) and notes it as started (`MarkAcceptor`) in
two steps, each with its own look at the running flag; `AllJoined` waits for the acceptor only if it was noted.
After a signal between the two the acceptor is not joined, and may have a connection when the queue is
destroyed. `NothingLeftBehind` allows for that one connection and no more.

**VersionTable.** `pc[p]` is where a client process stands in `getCurrentVersion` or
`write_version_file`; a process is named by its client id, because `acquire_client_instance_lock` admits
one at a time. A file has its lines, and says whether the last one has its newline, whether `fopen`
can read it, and whether it is on the disk (`synced`). Every writer's line is a step, so a kill
leaves any prefix in `<table>.tmp`; a power loss leaves of an unsynced file any prefix, and may bring
back any table there `was`. `Rows` reads the abstract rows off the file's lines; a file with two rows
of one id is refused by readers and writers alike.

**Manifest.** `reloader` walks through `reload_thread` and `vm_reload`: test and clear the request,
read the metadata, size and hash the package (in reads of `ReadLen`, with the end of the file in its own
read), compare with `CHECKSUM_SHA256`, take the write lock, assign, unlock, log. The operator may edit either
file between any two of these; the package can be gone or unreadable when it is hashed (`ReloadUnread`). A struct
assignment under the rwlock is two steps, in `vm_reload` and in `vm_get_snapshot`, so that the lock has something
to protect. `seen` and `disturbed` are history: what
was still to be edited when the metadata was read, and whether the package changed under the reload.

**Logger.** A line is the number of the `log_msg` call that made it. `queue` with `head`, `tail` and `count` is
the array of `log_msg` and `logger_thread`; `lines` reads it from `head` on. A call that finds the logger not
started goes to stderr and leaves only its count in `calls`. What the code does under the mutex is
one step; `caller` is a thread's place in `log_msg`, `writer` the logger thread's: asleep, woken, about to
write the count of dropped lines, about to write the line. `file` is the log, `ring` with `ringStart` and
`ringCount` the recent lines that the dashboard shows.

**ServerServices** composes the two. `main` creates the acceptor and then the reload thread, with the same two
reads of the running flag around each (`Create`, `MarkStarted`); `born` are the threads that exist and
`marked` those `cleanup_server` knows. The acceptor logs its start, each connection and its end, the reload
thread each outcome, a worker its decision, main the end. `Destroy` is `vm_destroy` after the joins of the
marked threads and the workers, `StopLogger` is `logger_stop`; `due` notes what had been logged when
it was called. `NoLostLogs` is what the documents promise, and a thread that is not joined can break it:
`JoinedLogsKept` says it holds when every thread created was marked, and `LogsBeforeStopKept` what is kept in
any case. That nothing uses the manifest after `vm_destroy` is not stated: a reload thread that is not
joined may.

**ClientProcess.** Each access to a shared variable is a step. `number` says what the descriptor number
stands for: nothing, the connection, a broken connection, or the part file that got the number after a
close. `handler[r]` walks through `client_request_stop`: store the flag, read `g_active_fd`, unset it,
note the number in `g_signal_closed_fd`, close. `thread` walks through `run_attempt`,
`receive_update` and `close_attempt_connection`. `allowed` and `requested` are the GUI's two pairs of
flags; `period` numbers downloads and pauses, so that a property can say which one a click was made in.

**Sha256.** A context is the compressed blocks, the partial block and the length. `Digest` is the
reference: the padded message of FIPS 180-4 cut into blocks.

### Abstractions that matter

* The operator overwrites package files in place; a session reads a block from the file as it is
  when the block is read. stdio read-ahead, which could return older bytes of the file, and
  replacement by rename, which would keep the old contents, both give the client a content the digest check
  decides on, as in the model.
* Versions are numbers in the order of `ver_compare`, 0 is `0.0.0`. A version names its package
  file. The configuration's `CURRENT_VERSION` override is not used; a version table that cannot be
  opened is (`Start` reads 0 then).
* Timeouts have no length: a hold, a pause or a back-off may end at any moment. The ten seconds
  after a finished run, during which a stop request changes only the exit status, are left out, and
  so is a part file that cannot be opened, which ends the run as a failing rename does.
* `UpdateProtocol` takes `client_request_stop` as one step, and leaves the `.resume` file out, which the
  code writes and never reads; `ClientProcess` has both in detail, and says nothing of the server, which
  may answer there anything the protocol allows, or nothing. A thread blocked in `recv` on a closed
  descriptor notices at the latest when `SO_RCVTIMEO` expires, as the repeated `SSL_read` then fails.
* `UpdateProtocol` has one row of the version table, changed in one step. That is what
  `ImplementsVersionRows` shows for the file operations of `VersionTable`.
* In `ClientProcess` accesses are sequentially consistent; the flags and descriptor numbers of the code are
  `volatile sig_atomic_t`, and the store buffer that could delay `g_active_fd = fd` past the second
  look at the stop flag is not modelled. Every connection and every part file get the same, lowest,
  descriptor number, the worst case. A download that ends paused leaves its `FILE` open, as the code
  does. The GUI is the build without `GLUT_ACTION_ON_WINDOW_CLOSE`, where closing the window
  ends the process by `exit` from `glutMainLoop`.
* A digest is represented by what it is a digest of: the content, or in `Sha256` the blocks. The compression
  function is left out.
* In `UpdateServer` a descriptor names one connection for ever. In the program its number can be used
  again between `conn_close` and the clearing of the slot; a scan then shuts down a newer connection,
  which a shutdown does to every connection anyway.
* Connections still in the queue when the server ends are closed by the end of the process.

## 3. Runs

Bounds are chosen so that the case a property is about occurs; each property has a mutant
in `PROJECT.json`, a small plausible fault in one definition, under which the same run
finds the property violated.

| Run | Instance | Shows |
|---|---|---|
| `queue` | 3 workers, 4 connections, 2 slots, a stop at any moment, fairness | `NoLostWakeup`, `ImplementsWorkQueue`, `EveryConnectionServed`, `ShutdownReleasesWorkers`. Two slots and four connections wrap the ring several times; three workers let an idle one overtake two woken ones; the stop comes before, between and after the workers' two looks at the flag. |
| `update_safety` | 1 version, 3 contents (two with a common first block, one shorter), 2 connections, 2 runs, budgets of edits, faults, silence and pauses | `InstalledWasPublished`, `RecordedIsInstalled`, `OneSessionPerClient`, `ResultConfirmsInstall`, `StreamAligned`. A part file can be a prefix of the wrong package and longer than the right one; an old session can overlap a new one. |
| `update_progress` | 2 versions, 1 content, fairness | `NoDowngrade` with rollbacks of the manifest, `EveryRunEnds`, `IdIsReleased`. |
| `update_silence` (violated) | 1 silent connection | `WorkerReturns`: see findings. |
| `server_safety` | 3 connections of 2 clients, 2 workers, queue of 1, 2 registry slots | `RegistryIsSessions`, `NothingLeftBehind` with shutdown at any point, also before the acceptor is marked. Two slots allow a gap below an active id. |
| `server_shutdown` | 2 connections, 2 workers, 1 registry slot, fairness | `ShutdownCompletes`, `AcceptedIsSettled`. One slot makes the registry full. |
| `server_cut_off` (violated) | as `server_safety` | `InFlightCompletes`: see findings. |
| `server_hangs` (violated) | 1 worker, a silent peer, fairness | `ShutdownCompletes`: see findings. |
| `version_table` | clients `a`, `b` and the row of a third id, 4 lines, 3 runs, 2 faults, fairness | `TableNeverTorn`, `OwnRowIsStable`, `ImplementsVersionRows`, `EveryClientEnds`. Two clients wait for one lock; two faults allow a kill that leaves a temporary file and then a power loss; a table can be full but for one row. |
| `manifest` | 1 session's worker, blocks of 10 bytes (2 beside the length field), reads of 10, 6 metadata files, 3 packages, 2 edits, 2 SIGHUPs, 1 snapshot, fairness | `SnapshotIsWhole`, `LoadIsAccurate`, `SignalIsHonoured`. With two edits a reload can bring another version and another package at once, so that a mixture of two manifests equals neither; the packages end before and behind the turn of a block and of a read; two SIGHUPs overlap one reload. `BlocksAreStandard` evaluates the padding for every length of up to four blocks. |
| `server_services` | 2 workers, 1 snapshot, 1 connection, 1 SIGHUP, a SIGTERM, no edits, queue of 2, ring of 2, fairness | `WrittenInOrder`, `DropsReported`, `RecentIsTail`, `JoinedLogsKept`, `LogsBeforeStopKept`, `ShutdownEnds`. The threads together call `log_msg` six times at most, and `MaxCalls` is six, so it never stops one; six lines overflow queue and ring and wrap both. A SIGTERM falls between any two reads of the running flag. |
| `client_process` | 1 stop request, package of 2, 2 attempts, 3 clicks, 1 loss, fairness | `ClosesOnlyItsOwn`, `NoConnectionLeft`, `ResumeIsSaved`, `ClickActsWhereMade`, `StopIsNoticed`. Two attempts let a number be used again; three clicks allow pause, resume and a click too late. |

In `UpdateProtocol`, `left` counts what is left of each kind of event the environment may cause
(client runs, edits by the operator, faults, silences, pauses); `Budgets` bounds them, and several
budgets in one run avoid the product of all events. `Window` bounds the DATA messages the
sockets hold; other messages are few by the protocol. `UpdateServer` has no counters: its state is
finite because each connection is opened once.

`VersionTable`, `Manifest` and `ClientProcess` count down `runs`, `faults`, `edits`, `signals`,
`copies`, `clicks` and `losses` from the constants named after them, `ServerServices` counts `accepts` down from
`MaxAccepts`; `Logger` counts `calls` up to `MaxCalls`.

Deadlock is not checked because every system may stop: a queue after shutdown with its workers gone,
a client with no runs left, a server after `cleanup_server`, a client process that ended.

**Fairness.** Threads that can run do (`WF` of each worker, of the acceptor, of main, of each
session and of the client); a server that crashed is started again; TCP gives up what it cannot
deliver. Holds and pauses end by their timeouts. Nothing forces a signal, a click, a new connection, a
fault or a reload. `EveryRunEnds` and `IdIsReleased` are checked without silent peers
(`silence` budget 0), because with them they do not hold; `ShutdownCompletes` is checked with `Silent = {}`
for the same reason and shown to fail otherwise.

In the other modules: `VersionTable` lets a process that is not killed run on, and the kernel grant a
lock to a client that waits for it while it is free; nobody has to start a client. `Manifest` lets the reload
thread and the sessions run (`ManifestFairSpec`). `ServerServices` lets every thread run, main while it creates
the others included, and nobody has to connect; readers of the manifest are bounded by `MaxCopies`, because an unbounded stream of
them could keep the writer of a rwlock waiting for ever, which is the lock's policy and not this
code's. `ClientProcess` lets the update thread, the GUI's timer and a handler that started run; waits of the
update thread end by their own timeouts, but the server need not say anything, so `StopIsNoticed` rests on
nothing of the server's.

## 4. Findings

1. **A silent peer holds a worker for ever** (`update_silence`). `conn_read_all` repeats `SSL_read` on
   `SSL_ERROR_WANT_READ` (`src/common/netutil.c:215-220`), which is what an expired `SO_RCVTIMEO` gives, so
   no TLS receive times out. `DESIGN.md:556` promises that a silent client cannot hold a worker.
2. **Shutdown cuts sessions off** (`server_cut_off`). `shutdown_active_worker_fds`
   (`src/server/server_main.c:60-69`) shuts down every tracked descriptor; `DESIGN.md:650` says transfers in
   flight complete.
3. **Shutdown can wait for ever** (`server_hangs`). A worker between its look at the running flag
   (`src/server/worker.c:295`) and the store of its descriptor (`worker.c:304`) is missed by
   the scan; with a silent peer, `cleanup_server` then never passes `pthread_join`.
Five more things go wrong in the models and have no run of their own; `PROJECT.json` lists them as hazards.

* main reads `g_running` before it creates the acceptor (`src/server/server_main.c:324`) and again before it
  sets `g_acceptor_started` (327-329), and the same for the reload thread (330-335). After a SIGINT or SIGTERM
  between the two reads the thread runs unmarked and `cleanup_server` skips its join (128-135), against
  `DESIGN.md:646`. The acceptor may then hold a connection when the queue is destroyed, and what it logs after
  `logger_stop` is neither in the file nor counted, against `DESIGN.md:647` ("no lost logs").
  `NothingLeftBehind`, `JoinedLogsKept` and `LogsBeforeStopKept` say exactly what is lost then;
  without its exception for the acceptor the first is violated, without `born \subseteq marked` the second.
* `write_version_file` can take another client's row from a table that is not whole: it keeps at most 512 lines
  (`src/client/downloader.c:309`), it appends a row behind a last line that may have no newline (339), and it takes a
  table it cannot open for reading for an empty one (307). `README.md:147` says it updates only its own
  row. `WholeTables` is the hypothesis under which it does.
* A Pause clicked right after a stop request can put a message into the part file, which the
  digest check of the next run rejects.
* Two stop requests at once can close the part file's descriptor.
* Closing the window frees the TLS context and stops the logger under a running update thread.

## 5. Theorems

TLAPS proves the following for every value of the constants that satisfies the assumptions of the
modules. Every safety theorem is proved from an inductive invariant, split into named parts so that a
step is looked at only in the parts whose variables it touches.

* `ThreadPoolProofs` (`PoolAssumption`: finitely many workers, positive capacity): `TypeCorrect`,
  `WakeupsSuffice` (`NoLostWakeup`) and `RefinesWorkQueue` (`ImplementsWorkQueue`). The invariant relates
  `head`, `tail` and `count` modulo the capacity; the wakeup proof counts sleepers against
  connections with the cardinality theorems, and the refinement maps each step to a step of `WorkQueue` or
  to a stutter. The workers' way out by the running flag is part of all three.
* `UpdateProtocolProofs` (`ProtocolAssumption`, `NoManifestAssumption`: contents are sequences of blocks,
  placeholders differ from real values, limits are positive): `TypeCorrect`, `InstallIsSound`
  (`InstalledWasPublished`), `RecordIsSound` (`RecordedIsInstalled`), `ReservationIsSound`
  (`OneSessionPerClient`), `NeverDowngrades` (`NoDowngrade`). None of the properties is inductive alone.
  `IInv` adds that every UPDATE_AVAILABLE under way and the advert being downloaded are manifests that
  were in force, that the part file of a client about to rename equals the advertised content, that the
  installed file stays in place until it is recorded, and that a streaming session has a snapshot.
  `OfferInv`, for `NeverDowngrades`, adds that on the client's own connection only the version it
  read is asked about and only newer ones are offered, however many attempts and sessions overlap.
  `ConfirmIsSound` (`ResultConfirmsInstall`) rests on `SessionInv`: a message under way tells how far its session
  was when it was sent, and sessions do not go back (`ChanInv`); what the client received says as much
  (`StageInv`); and while a RESULT status=ok waits to be read its session holds the client's id, so that a newer
  connection of the client is not past `hello` or `auth` and no AUTH_OK is under way to it (`ConfirmInv`). That
  last part is what joins two overlapping sessions.
  `StreamIsAligned` (`StreamAligned`) rests on `LiveInv`: on a connection that nothing has broken, client and
  session are in step from the HELLO on, at most one handshake message being under way; the session has
  either not read the DOWNLOAD_REQ yet, which names the end of the part file (`Asked`), or it streams,
  all that is under way is data, and part file and data add up to the stream's position (`Streaming`).
* `UpdateServerProofs` (`ServerAssumption`): `ServerTypeCorrect` (`TypeOK`), `RegistryIsRight`
  (`RegistryIsSessions`), `ShutdownLeavesNothing` (`NothingLeftBehind`). `BusyInv` says the busy counter is
  the cardinality of the set of counted workers, which is what keeps it within its bounds. `RegistryInv`
  says slots hold different ids, workers serve different ids, and slots and serving workers belong to each
  other; the search of the whole registry before a slot is taken is what preserves it. `EndInv`
  follows a connection from hand to hand: each worker that owns one tracks it until it closed
  it, and an acceptor that was not joined is the only other owner when the joins are through.
* `VersionTableProofs` (`TableAssumption`): `TableTypeCorrect` (`TypeOK`), `TableIsWhole` (`TableNeverTorn`),
  `RowIsOwn` (`OwnRowIsStable`), `RefinesVersionRows` (`ImplementsVersionRows`). The lock gives mutual exclusion
  (`LockInv`), only a synced file is renamed (`SyncInv`), and what a client is writing is the table with its own row
  replaced (`OutInv`). The last two theorems have the hypothesis `WholeTables`: the operator's tables are
  readable, end with a newline and have no more lines than the array. Section 4 has the three ways
  in which the hypothesis fails.
* `ManifestProofs` (`ManifestAssumption`, `Sha256Assumption`): `ManifestTypeCorrect`, `SnapshotsAreWhole`
  (`SnapshotIsWhole`). The invariant says who may be inside the lock, that the manifest outside an
  assignment was put in force as a whole, and that a copy half taken belongs to the manifest as it is.
  `LoadsAreAccurate` (`LoadIsAccurate`) adds that an undisturbed reload has read a prefix of the package
  (`LoadInv`), and that the code's digest of the bytes read is the reference digest. That is a chain of facts about
  `Sha256` for every message: `UpdateInPieces` (the context after any sequence of bytes is the one of
  the whole message, by induction over the bytes), `UpdatesCompose` and `FinalIsDigest` (the padding of
  `sha256_final` is that of FIPS 180-4, whether or not the length still fits into the last block).
* `LoggerProofs` (`LoggerAssumption`): `LoggerTypeCorrect`, `RecentLinesAreNewest`
  (`RecentIsTail`), `DropsAreFollowed`. `QueueInv` says `tail` is `head` plus `count` modulo the capacity; from it
  the lemmas `LinesPut` and `LinesTake` show that a call appends to `lines` and the writer takes their head, at every
  turn of the array. `RingInv` says the ring is the end of the file and holds all of it until it is full.
* `ServerServicesProofs` (`ServicesAssumption`): `ServicesImplementParts` shows that the composition implements
  the specifications of `Manifest` and `Logger`, so that their theorems hold of it too;
  `ServicesTypeCorrect` (`TypeOK`).
  `LinesWrittenInOrder` (`WrittenInOrder`) and `DropsAreReported` (`DropsReported`) are of the logger: `FileInv` says
  that file, the line in the writer's hand and queue are the accepted lines, that the drops reported and pending
  are the lines lost, and that the writer holds a count of drops only until its warning is written. `EveryLogKept`
  (`JoinedLogsKept`) adds the order of `cleanup_server` (`OrderInv`), that accepted and lost lines are all calls, and that the writer leaves an empty queue
  behind after the last of them (`EndInv`). `EarlierLogsKept` (`LogsBeforeStopKept`) needs no thread to be joined: `DueInv`
  carries what was logged before `logger_stop` through the writer's last round.
* `ClientProcessProofs` (`ClientAssumption`): `ClientTypeCorrect` (`TypeOK`), `PausedIsResumable`
  (`ResumeIsSaved`), `ClicksActWhereMade` (`ClickActsWhereMade`), `ClosesItsOwn` (`ClosesOnlyItsOwn`) and `ClosesAll`
  (`NoConnectionLeft`). The last two have the hypothesis `OneRequest`, at most one stop request: with
  two, both can read the number before one unsets it. `FdInv` relates the flag, the number, what it stands for
  and the handler's place at each place of the update thread.

What the recursive functions `sha256_update`, `LinesOf` and `DropsOf` compute is proved for every argument by an
induction that the modules spell out: a set of numbers that has 0 and with each number the next one has
all, because a set that is not empty has a least element (`LeastNumber` and `SetInduction` in `ManifestProofs`, from
the well-foundedness of `<`).

Only model-checked: every liveness property (`EveryConnectionServed`, `ShutdownReleasesWorkers`, `EveryRunEnds`,
`IdIsReleased`, `ShutdownCompletes`, `AcceptedIsSettled`, `EveryClientEnds`, `SignalIsHonoured`, `ShutdownEnds`,
`StopIsNoticed`). They rest on fairness, and the provers can reason neither about it nor about `ENABLED`. Every
invariant and every action property of the passing runs is a theorem. The three violated runs stay what
they are, counterexamples in small instances.

## 6. Not modelled

* The dashboard's list of active clients, and the other counters of `stats.c`: nothing the server decides
  depends on them. `busy_workers` is in `UpdateServer`.
* Texts: the digits of versions and numbers, framing and byte order, rows of the client registry, levels
  and wording of log lines, the ranges of `cfg_get_int_range`. Versions and sizes are numbers in every
  model, a registry lookup is a choice, a frame arrives whole or breaks the connection.
* OpenSSL's inside and the SHA-256 compression function; drawing and progress; the settings read at start, the
  prompt for the client id; the GUI build with control over the main
  loop; the Makefile and scripts.

What could be added, in this order: `ActiveClients`, the dashboard's list with keys that end in a
descriptor number; the parsing of versions and of numbers with their fallbacks against a
reference definition over short texts; the registry's rows.
