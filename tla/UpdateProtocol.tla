--------------------------- MODULE UpdateProtocol ---------------------------
(***************************************************************************)
(* One client and the server's sessions with it: the client's retry loop,  *)
(* handshake, download, verification and install (src/client/downloader.c),*)
(* the server's session (src/server/worker.c) and its streaming of the     *)
(* package file (src/server/package_service.c), joined by connections that *)
(* can break at any moment.  Either process can crash; the client can be   *)
(* stopped, paused from its GUI and run again; the operator can overwrite  *)
(* a package file or reload the manifest under running sessions.           *)
(*                                                                         *)
(* A package's content is a sequence of blocks, one block per DATA         *)
(* message, and a SHA-256 digest is represented by the content it is the   *)
(* digest of: two contents have one digest only if they are equal.         *)
(***************************************************************************)
EXTENDS Integers, Sequences, FiniteSets

CONSTANTS
  Version,     \* published versions, ordered as ver_compare orders them
  Block,       \* contents of one chunk
  Body,        \* contents a package file can have
  NoBody,      \* "no such file"
  NoManifest,  \* a manifest_t or advert not filled in yet
  Conn,        \* TCP connections; an identity is used again once both ends left it
  NoConn,
  Window,      \* DATA messages the sockets hold while the client does not read
  RetryMax,    \* RETRY_MAX of the client configuration
  Budgets      \* how often each kind of event may happen in a behaviour

Kind == {"run", "edit", "fault", "silence", "pause"}

ASSUME ProtocolAssumption ==
  /\ Version \subseteq Nat \ {0} /\ Version # {}
  /\ Body \subseteq Seq(Block) /\ Body # {}
  /\ NoBody \notin Body
  /\ NoConn \notin Conn
  /\ Window \in Nat \ {0} /\ RetryMax \in Nat \ {0}
  /\ Budgets \subseteq [Kind -> Nat]

(* ctx->vm.current: version, and the digest and size of its package file.  *)
Manifest == [ver : Version, digest : Body]

ASSUME NoManifestAssumption == NoManifest \notin Manifest

VARIABLES
  disk,        \* the package file of each version
  manifest,    \* the manifest in force
  published,   \* every manifest that was ever in force
  up,          \* the server process runs
  spc,         \* where the session of each connection stands
  snap,        \* the session's copy of the manifest
  sent, total, \* pkg_stream_file: position in the file, size found by stat
  holder,      \* the connection whose session has reserved the client's id
  toClient, toServer, \* bytes under way, as messages
  sOpen, cOpen,\* neither a close by the server (client) nor a reset is visible
  dead,        \* connections that silently stopped delivering
  cpc,         \* where the client stands
  conn,        \* the client's connection
  attempt,     \* loop variable of CheckForUpdate
  cur,         \* the version the client reports, read when it starts
  adv,         \* the advert being downloaded
  stop,        \* stop_requested: the active descriptor was closed
  exit,        \* how the last run ended
  part,        \* app-<v>.bin.part; <<>> also when there is no such file
  flushed,     \* blocks of the open part file that left the stdio buffer
  final,       \* app-<v>.bin
  table,       \* the client's row of the version table, 0 when it has none
  left         \* what is left of the behaviour's budget

pubVars    == <<disk, manifest, published>>
srvVars    == <<up, spc, snap, sent, total, holder>>
endVars    == <<sOpen, cOpen, dead>>
netVars    == <<toClient, toServer, endVars>>
callVars   == <<conn, attempt, cur, adv, stop, exit>>
runVars    == <<cpc, callVars>>
fileVars   == <<part, flushed, final, table>>
vars       == <<pubVars, srvVars, netVars, runVars, fileVars, left>>

Msg(type, arg) == [type |-> type, arg |-> arg]
Plain(type)    == Msg(type, "-")

Spend(kind) == left[kind] > 0 /\ left' = [left EXCEPT ![kind] = @ - 1]

ServerPC == {"none", "new", "auth", "version", "download", "stream", "held",
             "result", "release", "close"}
(* Between the reservation of the client id and its release.               *)
Reserved == {"version", "download", "stream", "held", "result", "release"}

ClientPC == {"off", "connect", "hello", "auth", "version", "recv", "paused",
             "verify", "mismatch", "rename", "bye", "record"}

Init ==
  /\ disk \in [Version -> Body]
  /\ \E v \in Version : manifest = [ver |-> v, digest |-> disk[v]]
  /\ published = {manifest}
  /\ up = TRUE
  /\ spc = [k \in Conn |-> "none"]
  /\ snap = [k \in Conn |-> NoManifest]
  /\ sent = [k \in Conn |-> 0] /\ total = [k \in Conn |-> 0]
  /\ holder = NoConn
  /\ toClient = [k \in Conn |-> <<>>] /\ toServer = [k \in Conn |-> <<>>]
  /\ sOpen = [k \in Conn |-> FALSE] /\ cOpen = [k \in Conn |-> FALSE] /\ dead = {}
  /\ cpc = "off" /\ conn = NoConn /\ attempt = 0 /\ cur = 0
  /\ adv = NoManifest /\ stop = FALSE /\ exit = "none"
  /\ part = [v \in Version |-> <<>>] /\ flushed = 0
  /\ final = [v \in Version |-> NoBody] /\ table = 0
  /\ left \in Budgets
-----------------------------------------------------------------------------
(* The operator                                                            *)

(* A package file is overwritten in place.                                 *)
OverwritePackage(v, b) ==
  /\ Spend("edit")
  /\ disk' = [disk EXCEPT ![v] = b]
  /\ UNCHANGED <<manifest, published, srvVars, netVars, runVars, fileVars>>

(* vm_reload after the metadata names version v: size and digest are those *)
(* of the file as it is then.                                              *)
LoadManifest(v) ==
  /\ manifest' = [ver |-> v, digest |-> disk[v]]
  /\ published' = published \cup {manifest'}

Reload(v) ==
  /\ up /\ Spend("edit")
  /\ LoadManifest(v)
  /\ UNCHANGED <<disk, srvVars, netVars, runVars, fileVars>>
-----------------------------------------------------------------------------
(* The server                                                              *)

Reply(k, msgs) == toClient' = [toClient EXCEPT ![k] = @ \o msgs]
Consume(k)     == toServer' = [toServer EXCEPT ![k] = Tail(@)]
Goto(k, pc)    == spc' = [spc EXCEPT ![k] = pc]

HasInput(k)      == k \notin dead /\ toServer[k] # <<>>
Arrived(k, type) == HasInput(k) /\ Head(toServer[k]).type = type

(* select() finds the descriptor readable: a message or the peer's close.  *)
Readable(k) == HasInput(k) \/ ~cOpen[k]

(* worker_thread takes the connection from the queue, completes the TLS    *)
(* handshake and sends HELLO.                                              *)
Greet(k) ==
  /\ spc[k] = "new"
  /\ Reply(k, <<Plain("HELLO")>>) /\ Goto(k, "auth")
  /\ UNCHANGED <<pubVars, up, snap, sent, total, holder, toServer, endVars,
                 runVars, fileVars, left>>

(* acceptor_thread: the queue is full, BUSY is written and the connection  *)
(* closed; or the TLS handshake fails.  The client sees a failed handshake.*)
TurnAway(k) ==
  /\ spc[k] = "new" /\ k \notin dead /\ Spend("fault")
  /\ Goto(k, "none")
  /\ sOpen' = [sOpen EXCEPT ![k] = FALSE]
  /\ UNCHANGED <<pubVars, up, snap, sent, total, holder, toClient, toServer, cOpen, dead,
                 runVars, fileVars>>

(* reserve_active_client_id: one session per client id.                    *)
ReserveAlways == TRUE
CanReserve    == holder = NoConn

(* authenticate_client.                                                    *)
Authenticate(k) ==
  /\ spc[k] = "auth" /\ Arrived(k, "AUTH")
  /\ Consume(k)
  /\ IF CanReserve
     THEN holder' = k /\ Reply(k, <<Plain("AUTH_OK")>>) /\ Goto(k, "version")
     ELSE /\ Reply(k, <<Msg("ERROR", "DUPLICATE_CLIENT")>>) /\ Goto(k, "close")
          /\ UNCHANGED holder
  /\ UNCHANGED <<pubVars, up, snap, sent, total, endVars, runVars, fileVars, left>>

(* The registry file, read at every login, does not have the client as     *)
(* registered; or other clients hold every slot of the active ids.         *)
RefuseAuth(k) ==
  /\ spc[k] = "auth" /\ Arrived(k, "AUTH") /\ Spend("fault")
  /\ Consume(k) /\ Goto(k, "close")
  /\ \E code \in {"AUTH_FAIL", "SERVER_BUSY"} :
       /\ code = "SERVER_BUSY" => CanReserve
       /\ Reply(k, <<Msg("ERROR", code)>>)
  /\ UNCHANGED <<pubVars, up, snap, sent, total, holder, endVars, runVars, fileVars>>

(* ver_compare of the version the client reports with the manifest's.      *)
UptodateIfEqual(v, m) == v = m.ver
Uptodate(v, m)        == v >= m.ver

(* vm_get_snapshot and the decision of handle_client_session.              *)
CheckVersion(k) ==
  /\ spc[k] = "version" /\ Arrived(k, "VERSION_REQ")
  /\ Consume(k)
  /\ snap' = [snap EXCEPT ![k] = manifest]
  /\ IF Uptodate(Head(toServer[k]).arg, manifest)
     THEN Reply(k, <<Plain("UPTODATE"), Plain("BYE")>>) /\ Goto(k, "release")
     ELSE Reply(k, <<Msg("UPDATE_AVAILABLE", manifest)>>) /\ Goto(k, "download")
  /\ UNCHANGED <<pubVars, up, sent, total, holder, endVars, runVars, fileVars, left>>

(* The position pkg_stream_file seeks to.                                  *)
OffsetIgnored(k) == 0
Offset(k)        == Head(toServer[k]).arg

(* DOWNLOAD_REQ: the offset is checked against the advertised size, then   *)
(* by pkg_stream_file against the size the file has now.                   *)
StartTransfer(k) ==
  /\ spc[k] = "download" /\ Arrived(k, "DOWNLOAD_REQ")
  /\ Consume(k)
  /\ LET size == Len(disk[snap[k].ver]) IN
     /\ sent' = [sent EXCEPT ![k] = Offset(k)]
     /\ total' = [total EXCEPT ![k] = size]
     /\ IF Offset(k) > Len(snap[k].digest)
        THEN Reply(k, <<Msg("ERROR", "BAD_REQUEST")>>) /\ Goto(k, "release")
        ELSE /\ Goto(k, IF Offset(k) > size THEN "release" ELSE "stream")
             /\ UNCHANGED toClient
  /\ UNCHANGED <<pubVars, up, snap, holder, endVars, runVars, fileVars, left>>

(* The loop of pkg_stream_file when nothing is readable: one block is read *)
(* from the file as it is now and sent.  A file that became shorter ends   *)
(* the transfer.                                                           *)
StreamChunk(k) ==
  /\ spc[k] = "stream" /\ sent[k] < total[k] /\ ~Readable(k)
  /\ Len(toClient[k]) < Window
  /\ LET content == disk[snap[k].ver] IN
     IF sent[k] < Len(content)
     THEN /\ Reply(k, <<Msg("DATA", content[sent[k] + 1])>>)
          /\ sent' = [sent EXCEPT ![k] = @ + 1]
          /\ UNCHANGED spc
     ELSE Goto(k, "release") /\ UNCHANGED <<toClient, sent>>
  /\ UNCHANGED <<pubVars, up, snap, total, holder, toServer, endVars,
                 runVars, fileVars, left>>

(* handle_pause_if_requested, called before each block: PAUSE starts the   *)
(* hold, anything else readable ends the session.                          *)
PollControl(k) ==
  /\ spc[k] = "stream" /\ sent[k] < total[k] /\ Readable(k)
  /\ IF Arrived(k, "PAUSE")
     THEN Goto(k, "held") /\ Consume(k)
     ELSE Goto(k, "release") /\ UNCHANGED toServer
  /\ UNCHANGED <<pubVars, up, snap, sent, total, holder, toClient, endVars,
                 runVars, fileVars, left>>

ResumeStream(k) ==
  /\ spc[k] = "held" /\ Arrived(k, "RESUME")
  /\ Consume(k) /\ Goto(k, "stream")
  /\ UNCHANGED <<pubVars, up, snap, sent, total, holder, toClient, endVars,
                 runVars, fileVars, left>>

(* pause_hold_timeout_sec has passed.                                      *)
HoldExpires(k) ==
  /\ spc[k] = "held" /\ ~HasInput(k)
  /\ Goto(k, "release")
  /\ UNCHANGED <<pubVars, up, snap, sent, total, holder, netVars, runVars, fileVars, left>>

(* TRANSFER_DONE carries the digest of the snapshot.                       *)
FinishStream(k) ==
  /\ spc[k] = "stream" /\ sent[k] = total[k]
  /\ Reply(k, <<Msg("TRANSFER_DONE", snap[k].digest)>>) /\ Goto(k, "result")
  /\ UNCHANGED <<pubVars, up, snap, sent, total, holder, toServer, endVars,
                 runVars, fileVars, left>>

(* RESULT is answered with BYE, whatever its status; a late PAUSE ends the *)
(* session instead.                                                        *)
TakeResult(k) ==
  /\ spc[k] = "result" /\ HasInput(k)
  /\ Consume(k) /\ Goto(k, "release")
  /\ IF Arrived(k, "RESULT") THEN Reply(k, <<Plain("BYE")>>) ELSE UNCHANGED toClient
  /\ UNCHANGED <<pubVars, up, snap, sent, total, holder, endVars,
                 runVars, fileVars, left>>

(* The code after the session: the id is released if it was reserved.      *)
CloseOnly(k) == "close"
Cleanup(k)   == IF spc[k] = "auth" THEN "close" ELSE "release"

(* A receive fails: the connection was closed or given up.  Nothing else   *)
(* ends it: conn_read_all repeats an SSL_read that SO_RCVTIMEO interrupts. *)
SessionFails(k) ==
  /\ spc[k] \in {"auth", "version", "download", "held", "result"}
  /\ ~HasInput(k) /\ ~cOpen[k]
  /\ Goto(k, Cleanup(k))
  /\ UNCHANGED <<pubVars, up, snap, sent, total, holder, netVars, runVars, fileVars, left>>

Release(k) ==
  /\ spc[k] = "release"
  /\ holder' = NoConn /\ Goto(k, "close")
  /\ UNCHANGED <<pubVars, up, snap, sent, total, netVars, runVars, fileVars, left>>

(* conn_close in worker_thread.  Closing with unread input resets the      *)
(* connection, and the client may lose what it has not read yet.           *)
CloseConn(k) ==
  /\ spc[k] = "close"
  /\ Goto(k, "none")
  /\ snap' = [snap EXCEPT ![k] = NoManifest]
  /\ sent' = [sent EXCEPT ![k] = 0] /\ total' = [total EXCEPT ![k] = 0]
  /\ IF k \in dead THEN UNCHANGED netVars
     ELSE /\ sOpen' = [sOpen EXCEPT ![k] = FALSE]
          /\ toServer' = [toServer EXCEPT ![k] = <<>>]
          /\ \/ UNCHANGED toClient
             \/ HasInput(k) /\ toClient' = [toClient EXCEPT ![k] = <<>>]
          /\ UNCHANGED <<cOpen, dead>>
  /\ UNCHANGED <<pubVars, up, holder, runVars, fileVars, left>>

(* The server process dies, whatever it was doing.                         *)
ServerCrash ==
  /\ up /\ Spend("fault")
  /\ up' = FALSE /\ holder' = NoConn
  /\ spc' = [k \in Conn |-> "none"] /\ snap' = [k \in Conn |-> NoManifest]
  /\ sent' = [k \in Conn |-> 0] /\ total' = [k \in Conn |-> 0]
  /\ sOpen' = [k \in Conn |-> k \in dead /\ sOpen[k]]
  /\ toServer' = [k \in Conn |-> IF k \in dead THEN toServer[k] ELSE <<>>]
  /\ UNCHANGED <<pubVars, toClient, cOpen, dead, runVars, fileVars>>

(* main loads the manifest before it accepts connections.                  *)
ServerStart ==
  /\ ~up /\ up' = TRUE
  /\ \E v \in Version : LoadManifest(v)
  /\ UNCHANGED <<disk, spc, snap, sent, total, holder, netVars, runVars, fileVars, left>>

Server(k) ==
  \/ Greet(k) \/ Authenticate(k) \/ CheckVersion(k) \/ StartTransfer(k)
  \/ StreamChunk(k) \/ PollControl(k) \/ ResumeStream(k) \/ HoldExpires(k)
  \/ FinishStream(k) \/ TakeResult(k) \/ SessionFails(k) \/ Release(k) \/ CloseConn(k)
-----------------------------------------------------------------------------
(* The network                                                             *)

(* The connection is reset: nothing more arrives in either direction.      *)
Reset(k) ==
  /\ sOpen[k] /\ cOpen[k] /\ Spend("fault")
  /\ sOpen' = [sOpen EXCEPT ![k] = FALSE] /\ cOpen' = [cOpen EXCEPT ![k] = FALSE]
  /\ toClient' = [toClient EXCEPT ![k] = <<>>] /\ toServer' = [toServer EXCEPT ![k] = <<>>]
  /\ UNCHANGED <<pubVars, srvVars, dead, runVars, fileVars>>

(* The peer's machine, or the path to it, is gone without a word: nothing  *)
(* is delivered any more, and neither a close nor a reset is seen.         *)
Vanish(k) ==
  /\ k \notin dead /\ sOpen[k] /\ cOpen[k] /\ Spend("silence")
  /\ dead' = dead \cup {k}
  /\ UNCHANGED <<pubVars, srvVars, toClient, toServer, sOpen, cOpen, runVars, fileVars>>

(* TCP gives a connection up when what was sent on it stays unacknowledged.*)
GiveUp(k) ==
  /\ k \in dead
  /\ \/ toClient[k] # <<>> /\ cOpen[k]
        /\ cOpen' = [cOpen EXCEPT ![k] = FALSE] /\ UNCHANGED sOpen
     \/ toServer[k] # <<>> /\ sOpen[k]
        /\ sOpen' = [sOpen EXCEPT ![k] = FALSE] /\ UNCHANGED cOpen
  /\ UNCHANGED <<pubVars, srvVars, toClient, toServer, dead, runVars, fileVars, left>>
-----------------------------------------------------------------------------
(* The client                                                              *)

(* A stop request has closed the descriptor: nothing is read from it any   *)
(* more.  A closed or given up connection ends a receive, silence does     *)
(* not: conn_read_all repeats an SSL_read that SO_RCVTIMEO interrupts.     *)
HasMessage        == ~stop /\ conn \notin dead /\ toClient[conn] # <<>>
Received(type)    == HasMessage /\ Head(toClient[conn]).type = type
ReceiveFailsOnStop == stop
ReceiveFails      == stop \/ (~HasMessage /\ ~sOpen[conn])
TakeMessage       == toClient' = [toClient EXCEPT ![conn] = Tail(@)]

(* A message sent on a connection whose other end is gone is lost.         *)
Send(msg) == toServer' = [toServer EXCEPT ![conn] =
                            IF sOpen[conn] /\ (cOpen[conn] \/ conn \in dead)
                            THEN Append(@, msg) ELSE @]
SendFails == stop \/ ~sOpen[conn]

(* close_attempt_connection.  Closing with unread input resets the         *)
(* connection, and what the client sent last may not arrive.               *)
Disconnect ==
  /\ conn' = NoConn
  /\ IF conn \in dead \cup {NoConn} THEN UNCHANGED netVars
     ELSE /\ cOpen' = [cOpen EXCEPT ![conn] = FALSE]
          /\ \/ UNCHANGED toServer
             \/ /\ toClient[conn] # <<>>
                /\ toServer' = [toServer EXCEPT ![conn] = <<>>]
          /\ toClient' = [toClient EXCEPT ![conn] = <<>>]
          /\ UNCHANGED <<sOpen, dead>>

Off(status) ==
  /\ cpc' = "off" /\ exit' = status /\ adv' = NoManifest
  /\ attempt' = 0 /\ cur' = 0 /\ stop' = FALSE

(* The condition of the loop in CheckForUpdate.                            *)
LastAttemptLate == attempt > RetryMax
LastAttempt     == attempt = RetryMax

(* The end of run_attempt and the loop of CheckForUpdate.  RETRY and       *)
(* RECONNECT (which differ in the time they wait) use up an attempt,       *)
(* RESUME_RECONNECT does not; all three end the run on the last attempt.   *)
EndAttempt(result) ==
  /\ Disconnect
  /\ \/ result = "SUCCESS" /\ Off("ok")
     \/ result = "PAUSED" /\ Off("paused")
     \/ result = "FATAL" /\ Off("failed")
     \/ result \in {"RETRY", "RESUME_RECONNECT"} /\ LastAttempt /\ Off("failed")
     \/ /\ result \in {"RETRY", "RESUME_RECONNECT"} /\ ~LastAttempt
        /\ attempt' = IF result = "RETRY" THEN attempt + 1 ELSE attempt
        /\ cpc' = "connect" /\ adv' = NoManifest /\ UNCHANGED <<cur, stop, exit>>

(* Most failures: give up when a stop was requested, else try again.       *)
AttemptFails == EndAttempt(IF stop THEN "PAUSED" ELSE "RETRY")

(* main: the user starts the client.  getCurrentVersion reads the table;   *)
(* a table or lock file it cannot open counts as version 0.0.0.            *)
Start ==
  /\ cpc = "off" /\ Spend("run")
  /\ cpc' = "connect" /\ attempt' = 1 /\ cur' \in {table, 0} /\ stop' = FALSE
  /\ exit' = "none"
  /\ UNCHANGED <<pubVars, srvVars, netVars, conn, adv, fileVars>>

Connect(k) ==
  /\ cpc = "connect" /\ ~stop /\ up /\ spc[k] = "none"
  /\ cpc' = "hello" /\ conn' = k
  /\ spc' = [spc EXCEPT ![k] = "new"]
  /\ sOpen' = [sOpen EXCEPT ![k] = TRUE] /\ cOpen' = [cOpen EXCEPT ![k] = TRUE]
  /\ toClient' = [toClient EXCEPT ![k] = <<>>] /\ toServer' = [toServer EXCEPT ![k] = <<>>]
  /\ dead' = dead \ {k}
  /\ UNCHANGED <<pubVars, up, snap, sent, total, holder, attempt, cur, adv, stop, exit,
                 fileVars, left>>

(* Refused by a server that is down, or stopped while waiting or before    *)
(* the descriptor was used.                                                *)
ConnectFails ==
  /\ cpc = "connect" /\ (stop \/ ~up)
  /\ AttemptFails
  /\ UNCHANGED <<pubVars, srvVars, fileVars, left>>

RecvHello ==
  /\ cpc = "hello" /\ Received("HELLO")
  /\ TakeMessage /\ Send(Plain("AUTH")) /\ cpc' = "auth"
  /\ UNCHANGED <<pubVars, srvVars, endVars, callVars,
                 fileVars, left>>

RecvAuthOk ==
  /\ cpc = "auth" /\ Received("AUTH_OK")
  /\ TakeMessage /\ Send(Msg("VERSION_REQ", cur)) /\ cpc' = "version"
  /\ UNCHANGED <<pubVars, srvVars, endVars, callVars,
                 fileVars, left>>

(* An ERROR reply: DUPLICATE_CLIENT and AUTH_FAIL are final.               *)
FinalErrors == {"DUPLICATE_CLIENT", "AUTH_FAIL"}

RecvError ==
  /\ cpc \in {"auth", "version", "recv"} /\ Received("ERROR")
  /\ EndAttempt(IF Head(toClient[conn]).arg \in FinalErrors THEN "FATAL" ELSE "RETRY")
  /\ UNCHANGED <<pubVars, srvVars, fileVars, left>>

RecvUptodate ==
  /\ cpc = "version" /\ Received("UPTODATE")
  /\ EndAttempt("SUCCESS")
  /\ UNCHANGED <<pubVars, srvVars, fileVars, left>>

(* receive_update up to its loop: what the part file already holds is not  *)
(* asked for again, unless it is longer than the advertised package.       *)
RecvUpdateAvailable ==
  /\ cpc = "version" /\ Received("UPDATE_AVAILABLE")
  /\ LET offer == Head(toClient[conn]).arg
         kept == IF Len(part[offer.ver]) > Len(offer.digest) THEN <<>> ELSE part[offer.ver]
     IN /\ adv' = offer
        /\ part' = [part EXCEPT ![offer.ver] = kept]
        /\ flushed' = Len(kept)
        /\ Send(Msg("DOWNLOAD_REQ", Len(kept)))
  /\ TakeMessage /\ cpc' = "recv"
  /\ UNCHANGED <<pubVars, srvVars, endVars, conn, attempt, cur, stop, exit,
                 final, table, left>>

AppendBlock(b) == part' = [part EXCEPT ![adv.ver] = Append(@, b)]
DiscardPart    == part' = [part EXCEPT ![adv.ver] = <<>>] /\ flushed' = 0

(* DATA: appended to the part file, unless that exceeds the advertised     *)
(* size: then the part file is removed and the run fails.                  *)
RecvData ==
  /\ cpc = "recv" /\ Received("DATA")
  /\ IF Len(part[adv.ver]) < Len(adv.digest)
     THEN /\ AppendBlock(Head(toClient[conn]).arg) /\ TakeMessage
          /\ UNCHANGED <<toServer, endVars, runVars, flushed>>
     ELSE DiscardPart /\ EndAttempt("FATAL")
  /\ UNCHANGED <<pubVars, srvVars, final, table, left>>

(* TRANSFER_DONE: its digest must be the advertised one.                   *)
RecvTransferDone ==
  /\ cpc = "recv" /\ Received("TRANSFER_DONE")
  /\ IF Head(toClient[conn]).arg = adv.digest
     THEN /\ TakeMessage /\ cpc' = "verify"
          /\ UNCHANGED <<toServer, endVars, callVars, part, flushed>>
     ELSE DiscardPart /\ EndAttempt("RETRY")
  /\ UNCHANGED <<pubVars, srvVars, final, table, left>>

(* The connection ends, or a stop was requested, in the middle of the      *)
(* handshake or of the transfer; what was received is flushed and kept.    *)
RecvFails ==
  /\ cpc \in {"hello", "auth", "version", "recv"} /\ ReceiveFails
  /\ AttemptFails
  /\ UNCHANGED <<pubVars, srvVars, fileVars, left>>

(* The GUI's pause request, looked at before each receive.                 *)
GuiPause ==
  /\ cpc = "recv" /\ Spend("pause")
  /\ flushed' = Len(part[adv.ver])
  /\ \/ ~stop /\ Send(Plain("PAUSE")) /\ cpc' = "paused"
        /\ UNCHANGED <<toClient, endVars, callVars>>
     \/ SendFails /\ EndAttempt("RETRY")
  /\ UNCHANGED <<pubVars, srvVars, part, final, table>>

(* wait_for_gui_resume_on_connection.  RESUME may be accepted by a socket  *)
(* whose other end is gone: the failure then shows at the next receive.    *)
GuiResume ==
  /\ cpc = "paused" /\ ~stop
  /\ \/ Send(Plain("RESUME")) /\ cpc' = "recv"
        /\ UNCHANGED <<toClient, endVars, callVars>>
     \/ SendFails /\ EndAttempt("RESUME_RECONNECT")
  /\ UNCHANGED <<pubVars, srvVars, fileVars, left>>

(* pause_timeout_sec has passed, or a stop was requested.                  *)
GuiPauseEnds ==
  /\ cpc = "paused"
  /\ EndAttempt("PAUSED")
  /\ UNCHANGED <<pubVars, srvVars, fileVars, left>>

(* sha256_file of the part file compared with the advertised digest.       *)
SizeMatches   == Len(part[adv.ver]) = Len(adv.digest)
DigestMatches == part[adv.ver] = adv.digest

SendResult(status) ==
  IF stop THEN UNCHANGED toServer ELSE Send(Msg("RESULT", status))

(* The part file is flushed and its digest computed; a wrong one is        *)
(* reported to the server.                                                 *)
Verify ==
  /\ cpc = "verify"
  /\ flushed' = Len(part[adv.ver])
  /\ IF DigestMatches
     THEN cpc' = "rename" /\ UNCHANGED toServer
     ELSE cpc' = "mismatch" /\ SendResult("checksum_fail")
  /\ UNCHANGED <<pubVars, srvVars, toClient, endVars, callVars, part, final, table, left>>

(* The part file is removed and the download tried again from its start.   *)
DropMismatch ==
  /\ cpc = "mismatch"
  /\ DiscardPart /\ EndAttempt("RETRY")
  /\ UNCHANGED <<pubVars, srvVars, final, table, left>>

(* rename, then RESULT status=ok.                                          *)
RenameUnchecked ==
  /\ cpc = "rename" /\ SendResult("ok") /\ cpc' = "bye"
  /\ UNCHANGED <<pubVars, srvVars, toClient, endVars, callVars, fileVars, left>>

Rename ==
  /\ cpc = "rename"
  /\ final' = [final EXCEPT ![adv.ver] = part[adv.ver]]
  /\ DiscardPart /\ SendResult("ok") /\ cpc' = "bye"
  /\ UNCHANGED <<pubVars, srvVars, toClient, endVars, callVars, table, left>>

(* One more message is waited for and ignored, as is its failure.          *)
RecvBye ==
  /\ cpc = "bye"
  /\ \/ HasMessage /\ TakeMessage
     \/ ReceiveFails /\ UNCHANGED toClient
  /\ cpc' = "record"
  /\ UNCHANGED <<pubVars, srvVars, toServer, endVars, callVars, fileVars, left>>

(* write_version_file, as one step: VersionTable models its inside.        *)
Record ==
  /\ cpc = "record"
  /\ table' = adv.ver
  /\ EndAttempt(IF stop THEN "PAUSED" ELSE "SUCCESS")
  /\ UNCHANGED <<pubVars, srvVars, part, flushed, final, left>>

(* A write, flush, rename or table update fails on the client's disk.      *)
LocalFailure ==
  /\ Spend("fault")
  /\ \/ cpc = "recv" /\ Received("DATA") /\ EndAttempt("RETRY")
     \/ cpc = "verify" /\ EndAttempt("RETRY")
     \/ cpc \in {"rename", "record"} /\ EndAttempt("FATAL")
  /\ UNCHANGED <<pubVars, srvVars, fileVars>>

(* SIGINT: client_request_stop closes the active descriptor.               *)
Stop ==
  /\ cpc # "off" /\ ~stop /\ Spend("fault")
  /\ stop' = TRUE
  /\ IF conn \in dead \cup {NoConn} THEN UNCHANGED cOpen
     ELSE cOpen' = [cOpen EXCEPT ![conn] = FALSE]
  /\ UNCHANGED <<pubVars, srvVars, toClient, toServer, sOpen, dead, cpc, conn, attempt, cur, adv,
                 exit, fileVars>>

(* The client process is killed: blocks still in the stdio buffer are lost.*)
ClientCrash ==
  /\ cpc # "off" /\ Spend("fault")
  /\ Disconnect /\ Off("killed")
  /\ IF cpc \in {"recv", "verify"}
     THEN \E n \in flushed..Len(part[adv.ver]) :
            part' = [part EXCEPT ![adv.ver] = SubSeq(@, 1, n)]
     ELSE UNCHANGED part
  /\ UNCHANGED <<pubVars, srvVars, flushed, final, table>>

Client ==
  \/ ConnectFails \/ RecvHello \/ RecvAuthOk \/ RecvError \/ RecvUptodate
  \/ RecvUpdateAvailable \/ RecvData \/ RecvTransferDone \/ RecvFails
  \/ GuiPauseEnds \/ Verify \/ DropMismatch \/ Rename \/ RecvBye \/ Record
  \/ \E k \in Conn : Connect(k)

Environment ==
  \/ \E v \in Version, b \in Body : OverwritePackage(v, b)
  \/ \E v \in Version : Reload(v)
  \/ \E k \in Conn : TurnAway(k) \/ RefuseAuth(k) \/ Reset(k) \/ Vanish(k)
  \/ ServerCrash \/ Start \/ GuiPause \/ GuiResume \/ LocalFailure \/ Stop \/ ClientCrash

Next == Client \/ ServerStart \/ (\E k \in Conn : Server(k) \/ GiveUp(k)) \/ Environment

Spec == Init /\ [][Next]_vars

(* Both processes keep running, a crashed server is started again, the     *)
(* server's hold and the client's pause end by their timeouts, and TCP     *)
(* gives up what it cannot deliver.  Nothing makes a user resume, pause or *)
(* run the client, or a fault happen.                                      *)
Fairness ==
  /\ WF_vars(Client) /\ WF_vars(ServerStart)
  /\ \A k \in Conn : WF_vars(Server(k)) /\ WF_vars(GiveUp(k))

FairSpec == Spec /\ Fairness
-----------------------------------------------------------------------------
ToClientMsg ==
  [type : {"HELLO", "AUTH_OK", "UPTODATE", "BYE"}, arg : {"-"}]
    \cup [type : {"ERROR"}, arg : {"DUPLICATE_CLIENT", "AUTH_FAIL", "SERVER_BUSY",
                                        "BAD_REQUEST"}]
    \cup [type : {"UPDATE_AVAILABLE"}, arg : Manifest]
    \cup [type : {"DATA"}, arg : Block]
    \cup [type : {"TRANSFER_DONE"}, arg : Body]

ToServerMsg ==
  [type : {"AUTH", "PAUSE", "RESUME"}, arg : {"-"}]
    \cup [type : {"RESULT"}, arg : {"ok", "checksum_fail"}]
    \cup [type : {"VERSION_REQ"}, arg : Version \cup {0}]
    \cup [type : {"DOWNLOAD_REQ"}, arg : Nat]

TypeOK ==
  /\ disk \in [Version -> Body]
  /\ manifest \in Manifest /\ published \subseteq Manifest
  /\ up \in BOOLEAN
  /\ spc \in [Conn -> ServerPC]
  /\ snap \in [Conn -> Manifest \cup {NoManifest}]
  /\ sent \in [Conn -> Nat] /\ total \in [Conn -> Nat]
  /\ holder \in Conn \cup {NoConn}
  /\ toClient \in [Conn -> Seq(ToClientMsg)] /\ toServer \in [Conn -> Seq(ToServerMsg)]
  /\ sOpen \in [Conn -> BOOLEAN] /\ cOpen \in [Conn -> BOOLEAN]
  /\ dead \subseteq Conn
  /\ cpc \in ClientPC /\ conn \in Conn \cup {NoConn}
  /\ attempt \in 0..RetryMax /\ cur \in Version \cup {0}
  /\ adv \in Manifest \cup {NoManifest}
  /\ stop \in BOOLEAN /\ exit \in {"none", "ok", "paused", "failed", "killed"}
  /\ part \in [Version -> Seq(Block)] /\ flushed \in Nat
  /\ final \in [Version -> Body \cup {NoBody}] /\ table \in Version \cup {0}
  /\ left \in [Kind -> Nat]

(* Whatever is overwritten, reset, paused, resumed or killed: a file under *)
(* its final name is, to the block, a package some manifest of that        *)
(* version described.  A part file mixed from two packages, cut short by a *)
(* crash or continued at a wrong place is never installed.                 *)
InstalledWasPublished ==
  \A v \in Version :
    final[v] # NoBody => [ver |-> v, digest |-> final[v]] \in published

(* The version table never names a version whose file is not in place,     *)
(* wherever a crash falls between the rename and the table's update.       *)
RecordedIsInstalled == table # 0 => final[table] # NoBody

(* The server has at most one session of a client that is past AUTH_OK and *)
(* not yet released, over every overlap of an old connection that is still *)
(* closing with a new one; and the reservation is that session's.          *)
OneSessionPerClient ==
  \A k \in Conn : spc[k] \in Reserved <=> holder = k

(* RESULT status=ok, which the server counts as an update served, is read  *)
(* only while the file it confirms is in place: no later session of the    *)
(* client can have replaced it before the server counts it.                *)
ResultConfirmsInstall ==
  \A k \in Conn :
    (spc[k] = "result" /\ Arrived(k, "RESULT") /\ Head(toServer[k]).arg = "ok") =>
      final[snap[k].ver] = snap[k].digest

(* The stream continues exactly where the part file ends, without gap or   *)
(* overlap, through pauses, resumes and what is still in the sockets.      *)
DataUnderWay(k) == Cardinality({i \in DOMAIN toClient[k] : toClient[k][i].type = "DATA"})
StreamAligned ==
  (cpc \in {"recv", "paused"} /\ spc[conn] \in {"stream", "held"}
   /\ sOpen[conn] /\ conn \notin dead /\ ~stop) =>
    Len(part[adv.ver]) + DataUnderWay(conn) = sent[conn]

(* A run that read the client's row never takes the row back to an older   *)
(* version, whatever the manifest is reloaded to while it and the server's *)
(* sessions are under way.                                                 *)
NoDowngrade == [][cur = table => table' >= table]_table

(* Every run of the client ends, however the connection breaks, the server *)
(* restarts or the user pauses, as long as breaks are noticed: a server    *)
(* that goes silent can hold the client in conn_read_all for ever.         *)
EveryRunEnds == cpc # "off" ~> cpc = "off"

(* The server gives the client's id back after every session, on every     *)
(* path out of it, as long as breaks are noticed.                          *)
IdIsReleased == holder # NoConn ~> holder = NoConn

(* A client that connects and goes silent cannot hold a worker hostage:    *)
(* the worker times out, closes and returns to the pool.                   *)
WorkerReturns == \A k \in Conn : spc[k] # "none" ~> spc[k] = "none"
=============================================================================
