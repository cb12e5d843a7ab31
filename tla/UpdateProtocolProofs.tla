------------------------ MODULE UpdateProtocolProofs ------------------------
(***************************************************************************)
(* What is proved of UpdateProtocol for every set of versions, contents    *)
(* and connections, every window, retry limit and budget of events.        *)
(*                                                                         *)
(* The inductive invariant has one part for each group of variables that   *)
(* change together, so that a step has to be looked at only in the parts   *)
(* whose variables it touches.  On it rest three more: OfferInv (which     *)
(* version is asked for), SessionInv (what messages under way say of the   *)
(* session and of the client's stage) and LiveInv (client and session are  *)
(* in step as long as their connection holds).                             *)
(***************************************************************************)
EXTENDS UpdateProtocol, SequenceTheorems, FiniteSetTheorems, TLAPS

Connected   == ClientPC \ {"off", "connect"}
Downloading == {"recv", "paused", "verify", "mismatch", "rename", "bye", "record"}

(* The only advert a client can receive is a manifest that was in force.   *)
SoundMsg == {m \in ToClientMsg : m.type = "UPDATE_AVAILABLE" => m.arg \in published}

PubInv ==
  /\ disk \in [Version -> Body]
  /\ published \subseteq Manifest /\ manifest \in published

(* A session that streams has its snapshot, and the client's id is         *)
(* reserved by the one session that is past AUTH_OK.                       *)
SrvInv ==
  /\ up \in BOOLEAN
  /\ spc \in [Conn -> ServerPC]
  /\ snap \in [Conn -> Manifest \cup {NoManifest}]
  /\ sent \in [Conn -> Nat] /\ total \in [Conn -> Nat]
  /\ holder \in Conn \cup {NoConn}
  /\ \A k \in Conn : spc[k] \in {"download", "stream", "held", "result"} => snap[k] \in Manifest
  /\ OneSessionPerClient

NetInv ==
  /\ toClient \in [Conn -> Seq(SoundMsg)] /\ toServer \in [Conn -> Seq(ToServerMsg)]
  /\ sOpen \in [Conn -> BOOLEAN] /\ cOpen \in [Conn -> BOOLEAN] /\ dead \subseteq Conn

RunInv ==
  /\ cpc \in ClientPC /\ conn \in Conn \cup {NoConn}
  /\ attempt \in 0..RetryMax /\ cur \in Version \cup {0}
  /\ adv \in published \cup {NoManifest}
  /\ stop \in BOOLEAN /\ exit \in {"none", "ok", "paused", "failed", "killed"}
  /\ cpc \in Connected => conn \in Conn
  /\ cpc \in Downloading => adv \in published

(* Between the check of the digest and the rename nobody else writes the   *)
(* part file; after the rename the installed file stays in place.          *)
FileInv ==
  /\ part \in [Version -> Seq(Block)] /\ flushed \in Nat
  /\ final \in [Version -> Body \cup {NoBody}] /\ table \in Version \cup {0}
  /\ InstalledWasPublished /\ RecordedIsInstalled
  /\ cpc = "rename" => part[adv.ver] = adv.digest
  /\ cpc \in {"bye", "record"} => final[adv.ver] # NoBody

LeftInv == left \in [Kind -> Nat]

IInv == PubInv /\ SrvInv /\ NetInv /\ RunInv /\ FileInv /\ LeftInv
-----------------------------------------------------------------------------
(* Values                                                                  *)

(* The fields of a manifest.                                               *)
LEMMA ManifestFields ==
  ASSUME NEW m \in Manifest
  PROVE  m.ver \in Version /\ m.digest \in Body /\ m = [ver |-> m.ver, digest |-> m.digest]
BY DEF Manifest

(* The blocks of a content.                                                *)
LEMMA BodyBlocks ==
  ASSUME NEW b \in Body
  PROVE  b \in Seq(Block) /\ Len(b) \in Nat /\ \A i \in 1..Len(b) : b[i] \in Block
BY ProtocolAssumption

(* What each side of the protocol can send.                                *)
LEMMA ServerMessages ==
  ASSUME PubInv
  PROVE  /\ Plain("HELLO") \in SoundMsg /\ Plain("AUTH_OK") \in SoundMsg
         /\ Plain("UPTODATE") \in SoundMsg /\ Plain("BYE") \in SoundMsg
         /\ Msg("ERROR", "DUPLICATE_CLIENT") \in SoundMsg
         /\ Msg("ERROR", "AUTH_FAIL") \in SoundMsg
         /\ Msg("ERROR", "SERVER_BUSY") \in SoundMsg
         /\ Msg("ERROR", "BAD_REQUEST") \in SoundMsg
         /\ Msg("UPDATE_AVAILABLE", manifest) \in SoundMsg
         /\ \A b \in Block : Msg("DATA", b) \in SoundMsg
         /\ \A b \in Body : Msg("TRANSFER_DONE", b) \in SoundMsg
<1>1. manifest \in Manifest
  BY DEF PubInv
<1>2. QED  BY <1>1 DEF PubInv, SoundMsg, ToClientMsg, Msg, Plain

(* What the client can send has the type of its channel.                   *)
LEMMA ClientMessages ==
  /\ Plain("AUTH") \in ToServerMsg /\ Plain("PAUSE") \in ToServerMsg
  /\ Plain("RESUME") \in ToServerMsg
  /\ Msg("RESULT", "ok") \in ToServerMsg /\ Msg("RESULT", "checksum_fail") \in ToServerMsg
  /\ \A v \in Version \cup {0} : Msg("VERSION_REQ", v) \in ToServerMsg
  /\ \A n \in Nat : Msg("DOWNLOAD_REQ", n) \in ToServerMsg
BY DEF ToServerMsg, Msg, Plain

(* The arguments of what the client may receive.                           *)
LEMMA ServerArguments ==
  ASSUME NEW m \in SoundMsg
  PROVE  /\ m.type = "UPDATE_AVAILABLE" => m.arg \in published
         /\ m.type = "DATA" => m.arg \in Block
BY DEF SoundMsg, ToClientMsg

(* The argument of a DOWNLOAD_REQ.                                         *)
LEMMA ClientArguments ==
  ASSUME NEW m \in ToServerMsg
  PROVE  m.type = "DOWNLOAD_REQ" => m.arg \in Nat
BY DEF ToServerMsg

(* A manifest put in force is one more that was in force.                  *)
LEMMA LoadStep ==
  ASSUME PubInv, NEW v \in Version, LoadManifest(v), UNCHANGED disk
  PROVE  PubInv' /\ published \subseteq published'
BY DEF PubInv, LoadManifest, Manifest
-----------------------------------------------------------------------------
(* The parts, under the steps that do not touch their variables            *)

(* The packages and manifests.                                             *)
LEMMA PubIdle ==
  ASSUME PubInv, UNCHANGED pubVars
  PROVE  PubInv' /\ published' = published /\ SoundMsg' = SoundMsg
BY DEF PubInv, pubVars, SoundMsg

(* The sessions.                                                           *)
LEMMA SrvIdle == ASSUME SrvInv, UNCHANGED srvVars PROVE SrvInv'
BY DEF SrvInv, srvVars, OneSessionPerClient

(* A manifest more in force makes no message unsound.                      *)
LEMMA SoundGrows ==
  ASSUME published \subseteq published'
  PROVE  SoundMsg \subseteq SoundMsg' /\ Seq(SoundMsg) \subseteq Seq(SoundMsg')
<1>1. SoundMsg \subseteq SoundMsg'
  BY DEF SoundMsg
<1>2. ASSUME NEW s \in Seq(SoundMsg) PROVE s \in Seq(SoundMsg')
  BY <1>1, <1>2
<1>3. QED  BY <1>1, <1>2

(* The connections.                                                        *)
LEMMA NetIdle ==
  ASSUME NetInv, UNCHANGED netVars, published \subseteq published'
  PROVE  NetInv'
<1>1. Seq(SoundMsg) \subseteq Seq(SoundMsg')
  BY SoundGrows
<1>2. QED  BY <1>1 DEF NetInv, netVars, endVars

(* The run of the client.                                                  *)
LEMMA RunIdle ==
  ASSUME RunInv, UNCHANGED runVars, published \subseteq published'
  PROVE  RunInv'
BY DEF RunInv, runVars, callVars

(* The files of the client.                                                *)
LEMMA FileIdle ==
  ASSUME FileInv, UNCHANGED fileVars, published \subseteq published',
         cpc' \in {"rename", "bye", "record"} => cpc' = cpc /\ adv' = adv
  PROVE  FileInv'
BY DEF FileInv, fileVars, InstalledWasPublished, RecordedIsInstalled

(* The budget.                                                             *)
LEMMA LeftIdle == ASSUME LeftInv, UNCHANGED left PROVE LeftInv'
BY DEF LeftInv

(* The budget, when an event is taken from it.                             *)
LEMMA SpendStep == ASSUME LeftInv, NEW kind \in Kind, Spend(kind) PROVE LeftInv'
BY DEF LeftInv, Spend
-----------------------------------------------------------------------------
(* The channels                                                            *)

(* What a session sends is sound.                                          *)
LEMMA ReplyStep ==
  ASSUME NetInv, NEW k \in Conn, NEW m \in SoundMsg
  PROVE  /\ Reply(k, <<m>>) => toClient' \in [Conn -> Seq(SoundMsg)]
         /\ \A n \in SoundMsg : Reply(k, <<m, n>>) => toClient' \in [Conn -> Seq(SoundMsg)]
<1>1. <<m>> \in Seq(SoundMsg) /\ \A n \in SoundMsg : <<m, n>> \in Seq(SoundMsg)
  OBVIOUS
<1>2. ASSUME NEW msgs \in Seq(SoundMsg), Reply(k, msgs)
      PROVE  toClient' \in [Conn -> Seq(SoundMsg)]
  BY <1>2 DEF NetInv, Reply
<1>3. QED  BY <1>1, <1>2

(* What a session reads has the type of its channel.                       *)
LEMMA ConsumeStep ==
  ASSUME NetInv, NEW k \in Conn, HasInput(k)
  PROVE  /\ Head(toServer[k]) \in ToServerMsg
         /\ Consume(k) => toServer' \in [Conn -> Seq(ToServerMsg)]
<1>1. toServer[k] \in Seq(ToServerMsg) /\ toServer[k] # <<>>
  BY DEF NetInv, HasInput
<1>2. Head(toServer[k]) \in ToServerMsg /\ Tail(toServer[k]) \in Seq(ToServerMsg)
  BY <1>1
<1>3. QED  BY <1>2 DEF NetInv, Consume

(* What the client receives is sound.                                      *)
LEMMA TakeStep ==
  ASSUME NetInv, conn \in Conn, HasMessage
  PROVE  /\ Head(toClient[conn]) \in SoundMsg
         /\ TakeMessage => toClient' \in [Conn -> Seq(SoundMsg)]
<1>1. toClient[conn] \in Seq(SoundMsg) /\ toClient[conn] # <<>>
  BY DEF NetInv, HasMessage
<1>2. Head(toClient[conn]) \in SoundMsg /\ Tail(toClient[conn]) \in Seq(SoundMsg)
  BY <1>1
<1>3. QED  BY <1>2 DEF NetInv, TakeMessage

(* What the client sends has the type of its channel.                      *)
LEMMA SendStep ==
  ASSUME NetInv, conn \in Conn, NEW msg \in ToServerMsg, Send(msg)
  PROVE  toServer' \in [Conn -> Seq(ToServerMsg)]
BY DEF NetInv, Send

(* Closing the client's end empties channels and closes an end, no more.   *)
LEMMA DisconnectStep ==
  ASSUME NetInv, Disconnect, UNCHANGED published, conn \in Conn \cup {NoConn}
  PROVE  NetInv' /\ conn' = NoConn
<1>1. SoundMsg' = SoundMsg
  BY DEF SoundMsg
<1>2. CASE conn \in dead \cup {NoConn}
  BY <1>1, <1>2 DEF NetInv, Disconnect, netVars, endVars
<1>3. CASE conn \notin dead \cup {NoConn}
  <2>1. conn \in Conn /\ <<>> \in Seq(SoundMsg) /\ <<>> \in Seq(ToServerMsg)
    BY <1>3
  <2>2. QED  BY <1>1, <1>3, <2>1 DEF NetInv, Disconnect
<1>4. QED  BY <1>2, <1>3

(* Every way an attempt ends leaves the client stopped or about to connect *)
(* again, within its number of attempts.                                   *)
LEMMA EndAttemptStep ==
  ASSUME NetInv, RunInv, NEW result, EndAttempt(result), UNCHANGED published
  PROVE  NetInv' /\ RunInv' /\ cpc' \in {"off", "connect"}
<1>1. NetInv' /\ conn' = NoConn
  BY DisconnectStep DEF RunInv, EndAttempt
<1>2. ~LastAttempt => attempt + 1 \in 0..RetryMax
  BY ProtocolAssumption DEF RunInv, LastAttempt
<1>3. 0 \in 0..RetryMax
  BY ProtocolAssumption
<1>4. cpc' \in {"off", "connect"} /\ adv' = NoManifest /\ attempt' \in 0..RetryMax
      /\ cur' \in Version \cup {0} /\ stop' \in BOOLEAN
      /\ exit' \in {"none", "ok", "paused", "failed", "killed"}
  BY <1>2, <1>3 DEF EndAttempt, Off, RunInv
<1>5. RunInv'
  BY <1>1, <1>4 DEF RunInv, ClientPC, Connected, Downloading
<1>6. QED  BY <1>1, <1>4, <1>5
-----------------------------------------------------------------------------
(* The server's steps                                                      *)

(* A session's step leaves packages, client and files alone.               *)
LEMMA ServerFrame ==
  ASSUME IInv, UNCHANGED <<pubVars, runVars, fileVars, left>>
  PROVE  PubInv' /\ RunInv' /\ FileInv' /\ LeftInv' /\ published' = published /\ SoundMsg' = SoundMsg
<1>1. PubInv' /\ published' = published /\ SoundMsg' = SoundMsg
  BY PubIdle DEF IInv
<1>2. cpc' = cpc /\ adv' = adv
  BY DEF runVars, callVars
<1>3. QED  BY <1>1, <1>2, RunIdle, FileIdle, LeftIdle DEF IInv

(* A session moves between two stages that both hold, or both do not hold, *)
(* the client's reservation.                                               *)
LEMMA StageStep ==
  ASSUME SrvInv, NEW k \in Conn, NEW pc \in ServerPC, Goto(k, pc),
         spc[k] \in Reserved <=> pc \in Reserved,
         pc \in {"download", "stream", "held", "result"} => snap'[k] \in Manifest,
         snap' \in [Conn -> Manifest \cup {NoManifest}],
         \A i \in Conn \ {k} : snap'[i] = snap[i],
         sent' \in [Conn -> Nat], total' \in [Conn -> Nat], UNCHANGED <<up, holder>>
  PROVE  SrvInv'
BY DEF SrvInv, Goto, OneSessionPerClient

(* So it is enough to look at the sessions and the connections.            *)
LEMMA ServerCompose ==
  ASSUME IInv, UNCHANGED <<pubVars, runVars, fileVars, left>>, SrvInv',
         toClient' \in [Conn -> Seq(SoundMsg)], toServer' \in [Conn -> Seq(ToServerMsg)],
         sOpen' \in [Conn -> BOOLEAN], cOpen' \in [Conn -> BOOLEAN], dead' \subseteq Conn
  PROVE  IInv'
<1>1. PubInv' /\ RunInv' /\ FileInv' /\ LeftInv' /\ SoundMsg' = SoundMsg
  BY ServerFrame
<1>2. NetInv'
  BY <1>1 DEF NetInv
<1>3. QED  BY <1>1, <1>2 DEF IInv

(* Every step of a session keeps the invariant.                            *)
LEMMA ServerStep ==
  ASSUME IInv, NEW k \in Conn, Server(k)
  PROVE  IInv'
<1>0. k # NoConn /\ NetInv /\ SrvInv /\ PubInv
  BY ProtocolAssumption DEF IInv
<1> USE <1>0
<1>1. CASE Greet(k)
  <2>2. toClient' \in [Conn -> Seq(SoundMsg)]
    BY <1>1, ServerMessages, ReplyStep DEF Greet
  <2>3. SrvInv'
    BY <1>1, StageStep DEF Greet, ServerPC, Reserved, SrvInv
  <2>4. QED  BY <1>1, <2>2, <2>3, ServerCompose DEF Greet, NetInv, endVars, netVars
<1>2. CASE Authenticate(k)
  <2>1. toServer' \in [Conn -> Seq(ToServerMsg)]
    BY <1>2, ConsumeStep DEF Authenticate, Arrived
  <2>2. toClient' \in [Conn -> Seq(SoundMsg)]
    BY <1>2, ServerMessages, ReplyStep DEF Authenticate
  <2>3. SrvInv'
    <3>1. CASE CanReserve
      <4>1. \A i \in Conn : spc[i] \notin Reserved
        BY <3>1, ProtocolAssumption DEF CanReserve, SrvInv, OneSessionPerClient
      <4>2. spc' = [spc EXCEPT ![k] = "version"] /\ holder' = k
            /\ UNCHANGED <<up, snap, sent, total>>
        BY <1>2, <3>1 DEF Authenticate, Goto
      <4>3. OneSessionPerClient'
        BY <4>1, <4>2 DEF OneSessionPerClient, Reserved, SrvInv
      <4>4. QED  BY <4>2, <4>3 DEF SrvInv, ServerPC
    <3>2. CASE ~CanReserve
      BY <1>2, <3>2, StageStep DEF Authenticate, ServerPC, Reserved, SrvInv
    <3>3. QED  BY <3>1, <3>2
  <2>4. QED  BY <1>2, <2>1, <2>2, <2>3, ServerCompose DEF Authenticate, NetInv, endVars
<1>3. CASE CheckVersion(k)
  <2>1. toServer' \in [Conn -> Seq(ToServerMsg)]
    BY <1>3, ConsumeStep DEF CheckVersion, Arrived
  <2>2. toClient' \in [Conn -> Seq(SoundMsg)]
    BY <1>3, ServerMessages, ReplyStep DEF CheckVersion
  <2>3. manifest \in Manifest
    BY DEF PubInv
  <2>4. SrvInv'
    BY <1>3, <2>3, StageStep DEF CheckVersion, ServerPC, Reserved, SrvInv
  <2>5. QED  BY <1>3, <2>1, <2>2, <2>4, ServerCompose DEF CheckVersion, NetInv, endVars
<1>4. CASE StartTransfer(k)
  <2>1. toServer' \in [Conn -> Seq(ToServerMsg)] /\ Offset(k) \in Nat
    BY <1>4, ConsumeStep, ClientArguments DEF StartTransfer, Arrived, Offset
  <2>2. toClient' \in [Conn -> Seq(SoundMsg)]
    BY <1>4, ServerMessages, ReplyStep DEF StartTransfer, NetInv
  <2>3. snap[k] \in Manifest /\ Len(disk[snap[k].ver]) \in Nat
    BY <1>4, BodyBlocks, ManifestFields DEF StartTransfer, SrvInv, PubInv
  <2>4. SrvInv'
    BY <1>4, <2>1, <2>3, StageStep DEF StartTransfer, ServerPC, Reserved, SrvInv
  <2>5. QED  BY <1>4, <2>1, <2>2, <2>4, ServerCompose DEF StartTransfer, NetInv, endVars
<1>5. CASE StreamChunk(k)
  <2>1. snap[k] \in Manifest /\ disk[snap[k].ver] \in Body /\ sent[k] \in Nat
    BY <1>5, ManifestFields DEF StreamChunk, SrvInv, PubInv
  <2>2. sent[k] < Len(disk[snap[k].ver]) => disk[snap[k].ver][sent[k] + 1] \in Block
    BY <2>1, BodyBlocks
  <2>3. toClient' \in [Conn -> Seq(SoundMsg)]
    BY <1>5, <2>2, ServerMessages, ReplyStep DEF StreamChunk, NetInv
  <2>4. SrvInv'
    <3>1. CASE sent[k] < Len(disk[snap[k].ver])
      <4>1. sent' = [sent EXCEPT ![k] = @ + 1] /\ UNCHANGED <<up, spc, snap, total, holder>>
        BY <1>5, <3>1 DEF StreamChunk
      <4>2. sent' \in [Conn -> Nat]
        BY <4>1 DEF SrvInv
      <4>3. QED  BY <4>1, <4>2 DEF SrvInv, OneSessionPerClient
    <3>2. CASE ~(sent[k] < Len(disk[snap[k].ver]))
      BY <1>5, <3>2, StageStep DEF StreamChunk, ServerPC, Reserved, SrvInv
    <3>3. QED  BY <3>1, <3>2
  <2>5. QED  BY <1>5, <2>3, <2>4, ServerCompose DEF StreamChunk, NetInv, endVars
<1>6. CASE PollControl(k)
  <2>1. toServer' \in [Conn -> Seq(ToServerMsg)]
    BY <1>6, ConsumeStep DEF PollControl, Arrived, NetInv
  <2>2. SrvInv'
    BY <1>6, StageStep DEF PollControl, ServerPC, Reserved, SrvInv
  <2>3. QED  BY <1>6, <2>1, <2>2, ServerCompose DEF PollControl, NetInv, endVars
<1>7. CASE ResumeStream(k)
  <2>1. toServer' \in [Conn -> Seq(ToServerMsg)]
    BY <1>7, ConsumeStep DEF ResumeStream, Arrived
  <2>3. SrvInv'
    BY <1>7, StageStep DEF ResumeStream, ServerPC, Reserved, SrvInv
  <2>4. QED  BY <1>7, <2>1, <2>3, ServerCompose DEF ResumeStream, NetInv, endVars, netVars
<1>8. CASE HoldExpires(k)
  <2>3. SrvInv'
    BY <1>8, StageStep DEF HoldExpires, ServerPC, Reserved, SrvInv
  <2>4. QED  BY <1>8, <2>3, ServerCompose DEF HoldExpires, NetInv, endVars, netVars
<1>9. CASE FinishStream(k)
  <2>1. snap[k].digest \in Body
    BY <1>9, ManifestFields DEF FinishStream, SrvInv
  <2>2. toClient' \in [Conn -> Seq(SoundMsg)]
    BY <1>9, <2>1, ServerMessages, ReplyStep DEF FinishStream
  <2>3. SrvInv'
    BY <1>9, StageStep DEF FinishStream, ServerPC, Reserved, SrvInv
  <2>4. QED  BY <1>9, <2>2, <2>3, ServerCompose DEF FinishStream, NetInv, endVars
<1>10. CASE TakeResult(k)
  <2>1. toServer' \in [Conn -> Seq(ToServerMsg)]
    BY <1>10, ConsumeStep DEF TakeResult
  <2>2. toClient' \in [Conn -> Seq(SoundMsg)]
    BY <1>10, ServerMessages, ReplyStep DEF TakeResult, NetInv
  <2>3. SrvInv'
    BY <1>10, StageStep DEF TakeResult, ServerPC, Reserved, SrvInv
  <2>4. QED  BY <1>10, <2>1, <2>2, <2>3, ServerCompose DEF TakeResult, NetInv, endVars
<1>11. CASE SessionFails(k)
  <2>1. SrvInv'
    BY <1>11, StageStep DEF SessionFails, Cleanup, ServerPC, Reserved, SrvInv
  <2>2. QED  BY <1>11, <2>1, ServerCompose DEF SessionFails, NetInv, netVars, endVars
<1>12. CASE Release(k)
  <2>1. SrvInv'
    BY <1>12, ProtocolAssumption
    DEF Release, Goto, ServerPC, Reserved, SrvInv, OneSessionPerClient
  <2>2. QED  BY <1>12, <2>1, ServerCompose DEF Release, NetInv, netVars, endVars
<1>13. CASE CloseConn(k)
  <2>1. SrvInv'
    BY <1>13 DEF CloseConn, Goto, ServerPC, Reserved, SrvInv, OneSessionPerClient
  <2>2. <<>> \in Seq(SoundMsg) /\ <<>> \in Seq(ToServerMsg)
    OBVIOUS
  <2>3. /\ toClient' \in [Conn -> Seq(SoundMsg)] /\ toServer' \in [Conn -> Seq(ToServerMsg)]
        /\ sOpen' \in [Conn -> BOOLEAN] /\ cOpen' \in [Conn -> BOOLEAN] /\ dead' \subseteq Conn
    BY <1>13, <2>2 DEF CloseConn, NetInv, netVars, endVars
  <2>4. QED  BY <1>13, <2>1, <2>3, ServerCompose DEF CloseConn
<1>14. QED
  BY <1>1, <1>2, <1>3, <1>4, <1>5, <1>6, <1>7, <1>8, <1>9, <1>10, <1>11, <1>12, <1>13
  DEF Server
-----------------------------------------------------------------------------
(* The client's steps                                                      *)

(* A step that changes channels only.                                      *)
LEMMA NetCompose ==
  ASSUME NetInv, UNCHANGED <<published, endVars>>,
         toClient' \in [Conn -> Seq(SoundMsg)], toServer' \in [Conn -> Seq(ToServerMsg)]
  PROVE  NetInv'
BY DEF NetInv, endVars, SoundMsg

(* A step of the client leaves packages and sessions alone.                *)
LEMMA ClientCompose ==
  ASSUME IInv, UNCHANGED <<pubVars, srvVars>>, NetInv', RunInv', FileInv', LeftInv'
  PROVE  IInv'
BY PubIdle, SrvIdle DEF IInv

(* A step that ends the attempt and leaves the files alone.                *)
LEMMA EndStep ==
  ASSUME IInv, NEW result, EndAttempt(result), UNCHANGED <<pubVars, srvVars, fileVars>>, LeftInv'
  PROVE  IInv'
<1>1. published' = published
  BY DEF pubVars
<1>2. NetInv' /\ RunInv' /\ cpc' \in {"off", "connect"}
  BY <1>1, EndAttemptStep DEF IInv
<1>3. FileInv'
  BY <1>1, <1>2, FileIdle DEF IInv
<1>4. QED  BY <1>2, <1>3, ClientCompose

(* The part file is given up together with the attempt.                    *)
LEMMA DiscardStep ==
  ASSUME FileInv, NEW v, part' = [part EXCEPT ![v] = <<>>], flushed' = 0,
         UNCHANGED <<published, final, table>>, cpc' \in {"off", "connect"}
  PROVE  FileInv'
<1>1. <<>> \in Seq(Block) /\ part' \in [Version -> Seq(Block)]
  <2>1. part \in [Version -> Seq(Block)] /\ <<>> \in Seq(Block)
    BY DEF FileInv
  <2>2. \A u \in Version : part'[u] \in Seq(Block)
    BY <2>1
  <2>3. QED  BY <2>1, <2>2
<1>2. InstalledWasPublished' /\ RecordedIsInstalled'
  BY DEF FileInv, InstalledWasPublished, RecordedIsInstalled
<1>3. QED  BY <1>1, <1>2 DEF FileInv

(* The part file is given up and the attempt ends.                         *)
LEMMA DropStep ==
  ASSUME IInv, NEW result, DiscardPart, EndAttempt(result),
         UNCHANGED <<pubVars, srvVars, final, table>>, LeftInv'
  PROVE  IInv'
<1>1. published' = published /\ part' = [part EXCEPT ![adv.ver] = <<>>] /\ flushed' = 0
  BY DEF pubVars, DiscardPart
<1>2. NetInv' /\ RunInv' /\ cpc' \in {"off", "connect"}
  BY <1>1, EndAttemptStep DEF IInv
<1>3. FileInv'
  BY <1>1, <1>2, DiscardStep DEF IInv
<1>4. QED  BY <1>2, <1>3, ClientCompose

(* A step inside an attempt: the connection, and the advert once there is  *)
(* one, stay.                                                              *)
LEMMA MoveStep ==
  ASSUME RunInv, cpc \in Connected, UNCHANGED <<published, callVars>>,
         cpc' \in Connected, cpc' \in Downloading => cpc \in Downloading
  PROVE  RunInv'
BY DEF RunInv, Connected, callVars

(* Every step of the client keeps the invariant.                           *)
LEMMA ClientStep ==
  ASSUME IInv, Client
  PROVE  IInv'
<1>0. /\ NetInv /\ RunInv /\ FileInv /\ PubInv /\ LeftInv
      /\ cpc \in Connected => conn \in Conn
  BY DEF IInv, RunInv
<1> USE <1>0
<1>1. CASE ConnectFails
  BY <1>1, EndStep, LeftIdle DEF ConnectFails, AttemptFails
<1>2. CASE RecvHello
  <2>1. cpc \in Connected /\ HasMessage /\ published' = published
    BY <1>2 DEF RecvHello, Received, Connected, ClientPC, pubVars
  <2>2. NetInv'
    BY <1>2, <2>1, TakeStep, SendStep, ClientMessages, NetCompose DEF RecvHello
  <2>3. RunInv'
    BY <1>2, <2>1, MoveStep DEF RecvHello, Connected, Downloading, ClientPC
  <2>4. QED  BY <1>2, <2>1, <2>2, <2>3, FileIdle, LeftIdle, ClientCompose DEF RecvHello
<1>3. CASE RecvAuthOk
  <2>1. cpc \in Connected /\ HasMessage /\ published' = published /\ cur \in Version \cup {0}
    BY <1>3 DEF RecvAuthOk, Received, Connected, ClientPC, pubVars, RunInv
  <2>2. NetInv'
    BY <1>3, <2>1, TakeStep, SendStep, ClientMessages, NetCompose DEF RecvAuthOk
  <2>3. RunInv'
    BY <1>3, <2>1, MoveStep DEF RecvAuthOk, Connected, Downloading, ClientPC
  <2>4. QED  BY <1>3, <2>1, <2>2, <2>3, FileIdle, LeftIdle, ClientCompose DEF RecvAuthOk
<1>4. CASE RecvError
  BY <1>4, EndStep, LeftIdle DEF RecvError
<1>5. CASE RecvUptodate
  BY <1>5, EndStep, LeftIdle DEF RecvUptodate
<1>6. CASE RecvUpdateAvailable
  <2> DEFINE offer == Head(toClient[conn]).arg
             kept  == IF Len(part[offer.ver]) > Len(offer.digest) THEN <<>> ELSE part[offer.ver]
  <2>1. conn \in Conn /\ HasMessage /\ published' = published
        /\ Head(toClient[conn]).type = "UPDATE_AVAILABLE"
    BY <1>6 DEF RecvUpdateAvailable, Received, Connected, ClientPC, pubVars
  <2>2. offer \in published /\ offer \in Manifest
    BY <2>1, TakeStep, ServerArguments DEF PubInv
  <2>3. offer.ver \in Version /\ part[offer.ver] \in Seq(Block)
    BY <2>2, ManifestFields DEF FileInv
  <2>4. kept \in Seq(Block) /\ Len(kept) \in Nat
    BY <2>3
  <2>5. adv' = offer /\ part' = [part EXCEPT ![offer.ver] = kept] /\ flushed' = Len(kept)
        /\ Send(Msg("DOWNLOAD_REQ", Len(kept))) /\ TakeMessage /\ cpc' = "recv"
        /\ UNCHANGED <<pubVars, srvVars, endVars, conn, attempt, cur, stop, exit,
                       final, table, left>>
    BY <1>6 DEF RecvUpdateAvailable
  <2> HIDE DEF offer, kept
  <2>6. NetInv'
    BY <2>1, <2>4, <2>5, TakeStep, SendStep, ClientMessages, NetCompose
  <2>7. RunInv'
    BY <2>1, <2>2, <2>5 DEF RunInv, Connected, Downloading, ClientPC
  <2>8. FileInv'
    BY <2>1, <2>4, <2>5 DEF FileInv, InstalledWasPublished, RecordedIsInstalled
  <2>9. QED  BY <2>5, <2>6, <2>7, <2>8, LeftIdle, ClientCompose
<1>7. CASE RecvData
  <2>1. conn \in Conn /\ HasMessage /\ published' = published /\ cpc = "recv"
        /\ Head(toClient[conn]).type = "DATA"
    BY <1>7 DEF RecvData, Received, Connected, ClientPC, pubVars
  <2>2. adv.ver \in Version /\ part[adv.ver] \in Seq(Block)
    BY <2>1, ManifestFields DEF RunInv, PubInv, FileInv, Downloading
  <2>3. CASE Len(part[adv.ver]) < Len(adv.digest)
    <3>1. AppendBlock(Head(toClient[conn]).arg) /\ TakeMessage
          /\ UNCHANGED <<pubVars, srvVars, toServer, endVars, runVars, flushed, final, table, left>>
      BY <1>7, <2>3 DEF RecvData
    <3>2. Head(toClient[conn]).arg \in Block
      BY <2>1, TakeStep, ServerArguments
    <3>3. part' \in [Version -> Seq(Block)]
      BY <2>2, <3>1, <3>2 DEF AppendBlock, FileInv
    <3>4. FileInv'
      BY <2>1, <3>1, <3>3 DEF FileInv, InstalledWasPublished, RecordedIsInstalled, runVars, callVars
    <3>5. NetInv'
      BY <2>1, <3>1, TakeStep, NetCompose DEF NetInv
    <3>6. QED  BY <2>1, <3>1, <3>4, <3>5, RunIdle, LeftIdle, ClientCompose
  <2>4. CASE ~(Len(part[adv.ver]) < Len(adv.digest))
    BY <1>7, <2>4, DropStep, LeftIdle DEF RecvData
  <2>5. QED  BY <2>3, <2>4
<1>8. CASE RecvTransferDone
  <2>1. cpc = "recv" /\ conn \in Conn /\ HasMessage /\ published' = published
    BY <1>8 DEF RecvTransferDone, Received, Connected, ClientPC, pubVars
  <2>2. CASE Head(toClient[conn]).arg = adv.digest
    <3>1. TakeMessage /\ cpc' = "verify"
          /\ UNCHANGED <<pubVars, srvVars, toServer, endVars, callVars, fileVars, left>>
      BY <1>8, <2>2 DEF RecvTransferDone, fileVars
    <3>2. NetInv'
      BY <2>1, <3>1, TakeStep, NetCompose DEF NetInv
    <3>3. RunInv'
      BY <2>1, <3>1, MoveStep DEF Connected, Downloading, ClientPC
    <3>4. QED  BY <2>1, <3>1, <3>2, <3>3, FileIdle, LeftIdle, ClientCompose
  <2>3. CASE Head(toClient[conn]).arg # adv.digest
    BY <1>8, <2>3, DropStep, LeftIdle DEF RecvTransferDone
  <2>4. QED  BY <2>2, <2>3
<1>9. CASE RecvFails
  BY <1>9, EndStep, LeftIdle DEF RecvFails, AttemptFails
<1>10. CASE GuiPauseEnds
  BY <1>10, EndStep, LeftIdle DEF GuiPauseEnds
<1>11. CASE Verify
  <2>1. cpc = "verify" /\ conn \in Conn /\ published' = published
        /\ cpc' \in {"rename", "mismatch"} /\ flushed' = Len(part[adv.ver])
        /\ UNCHANGED <<pubVars, srvVars, toClient, endVars, callVars, part, final, table, left>>
    BY <1>11 DEF Verify, pubVars, Connected, ClientPC
  <2>2. adv.ver \in Version /\ part[adv.ver] \in Seq(Block)
    BY <2>1, ManifestFields DEF RunInv, PubInv, FileInv, Downloading
  <2>3. cpc' = "rename" => part[adv.ver] = adv.digest
    BY <1>11 DEF Verify, DigestMatches
  <2>4. NetInv'
    BY <1>11, <2>1, SendStep, ClientMessages, NetCompose DEF Verify, SendResult, NetInv
  <2>5. RunInv'
    BY <2>1, MoveStep DEF Connected, Downloading, ClientPC
  <2>6. FileInv'
    BY <2>1, <2>2, <2>3 DEF FileInv, InstalledWasPublished, RecordedIsInstalled, callVars
  <2>7. QED  BY <2>1, <2>4, <2>5, <2>6, LeftIdle, ClientCompose
<1>16. CASE DropMismatch
  BY <1>16, DropStep, LeftIdle DEF DropMismatch
<1>12. CASE Rename
  <2>1. cpc = "rename" /\ published' = published /\ conn \in Conn /\ adv' = adv
        /\ final' = [final EXCEPT ![adv.ver] = part[adv.ver]]
        /\ part' = [part EXCEPT ![adv.ver] = <<>>] /\ flushed' = 0 /\ cpc' = "bye"
        /\ UNCHANGED <<pubVars, srvVars, toClient, endVars, callVars, table, left>>
    BY <1>12 DEF Rename, DiscardPart, pubVars, callVars, Connected, ClientPC
  <2>2. adv \in published /\ adv \in Manifest /\ part[adv.ver] = adv.digest
    BY <2>1 DEF RunInv, PubInv, FileInv, Downloading
  <2>3. adv.ver \in Version /\ adv.digest \in Body /\ [ver |-> adv.ver, digest |-> adv.digest] \in published
    BY <2>2, ManifestFields
  <2>4. NetInv'
    BY <1>12, <2>1, SendStep, ClientMessages, NetCompose DEF Rename, SendResult, NetInv
  <2>5. RunInv'
    BY <2>1, MoveStep DEF Connected, Downloading, ClientPC
  <2>6. /\ \A v \in Version : v # adv.ver => final'[v] = final[v]
        /\ final'[adv.ver] = adv.digest /\ adv.digest # NoBody
        /\ final' \in [Version -> Body \cup {NoBody}]
    BY <2>1, <2>2, <2>3, ProtocolAssumption DEF FileInv
  <2>7. InstalledWasPublished'
    BY <2>1, <2>3, <2>6 DEF FileInv, InstalledWasPublished
  <2>8. RecordedIsInstalled'
    BY <2>1, <2>6 DEF FileInv, RecordedIsInstalled
  <2>9. FileInv'
    BY <2>1, <2>6, <2>7, <2>8 DEF FileInv
  <2>10. QED  BY <2>1, <2>4, <2>5, <2>9, LeftIdle, ClientCompose
<1>13. CASE RecvBye
  <2>1. cpc = "bye" /\ conn \in Conn /\ published' = published
    BY <1>13 DEF RecvBye, Connected, ClientPC, pubVars
  <2>2. NetInv'
    BY <1>13, <2>1, TakeStep, NetCompose DEF RecvBye, NetInv
  <2>3. RunInv'
    BY <1>13, <2>1, MoveStep DEF RecvBye, Connected, Downloading, ClientPC
  <2>4. FileInv'
    BY <1>13, <2>1 DEF RecvBye, FileInv, fileVars, callVars, InstalledWasPublished, RecordedIsInstalled
  <2>5. QED  BY <1>13, <2>2, <2>3, <2>4, LeftIdle, ClientCompose DEF RecvBye
<1>14. CASE Record
  <2>1. cpc = "record" /\ published' = published /\ table' = adv.ver
        /\ EndAttempt(IF stop THEN "PAUSED" ELSE "SUCCESS")
        /\ UNCHANGED <<pubVars, srvVars, part, flushed, final, left>>
    BY <1>14 DEF Record, pubVars
  <2>2. adv.ver \in Version /\ final[adv.ver] # NoBody
    BY <2>1, ManifestFields DEF RunInv, PubInv, FileInv, Downloading
  <2>3. NetInv' /\ RunInv' /\ cpc' \in {"off", "connect"}
    BY <2>1, EndAttemptStep
  <2>4. FileInv'
    BY <2>1, <2>2, <2>3 DEF FileInv, InstalledWasPublished, RecordedIsInstalled
  <2>5. QED  BY <2>1, <2>3, <2>4, LeftIdle, ClientCompose
<1>15. ASSUME NEW k \in Conn, Connect(k) PROVE IInv'
  <2>1. published' = published /\ cpc' = "hello" /\ conn' = k /\ spc[k] = "none"
        /\ UNCHANGED <<pubVars, left, fileVars>>
    BY <1>15 DEF Connect, pubVars
  <2>2. SrvInv'
    BY <1>15 DEF Connect, IInv, SrvInv, ServerPC, Reserved, OneSessionPerClient
  <2>3. <<>> \in Seq(SoundMsg') /\ <<>> \in Seq(ToServerMsg) /\ SoundMsg' = SoundMsg
    BY <2>1 DEF SoundMsg
  <2>4. NetInv'
    BY <1>15, <2>3 DEF Connect, NetInv
  <2>5. RunInv'
    BY <1>15, <2>1 DEF Connect, RunInv, Connected, Downloading, ClientPC
  <2>6. QED  BY <2>1, <2>2, <2>4, <2>5, PubIdle, FileIdle, LeftIdle DEF IInv
<1>17. QED
  BY <1>1, <1>2, <1>3, <1>4, <1>5, <1>6, <1>7, <1>8, <1>9, <1>10, <1>11, <1>12, <1>13,
     <1>14, <1>15, <1>16 DEF Client
-----------------------------------------------------------------------------
(* Operator, network, faults and user                                      *)

(* A manifest is put in force, whatever else stays.                        *)
LEMMA LoadFrame ==
  ASSUME IInv, NEW v \in Version, LoadManifest(v), UNCHANGED <<disk, netVars, runVars, fileVars>>,
         SrvInv', LeftInv'
  PROVE  IInv'
<1>1. PubInv' /\ published \subseteq published'
  BY LoadStep DEF IInv
<1>2. cpc' = cpc /\ adv' = adv
  BY DEF runVars, callVars
<1>3. QED  BY <1>1, <1>2, NetIdle, RunIdle, FileIdle DEF IInv

(* A server that starts loads a manifest.                                  *)
LEMMA ServerStartStep ==
  ASSUME IInv, ServerStart
  PROVE  IInv'
<1>1. SrvInv' /\ LeftInv'
  BY DEF ServerStart, IInv, SrvInv, LeftInv, OneSessionPerClient
<1>2. QED  BY <1>1, LoadFrame DEF ServerStart

(* Steps that change nothing but the ends of connections.                  *)
LEMMA NetStep ==
  ASSUME IInv, UNCHANGED <<pubVars, runVars, fileVars>>, LeftInv', SrvInv',
         toClient' \in [Conn -> Seq(SoundMsg)], toServer' \in [Conn -> Seq(ToServerMsg)],
         sOpen' \in [Conn -> BOOLEAN], cOpen' \in [Conn -> BOOLEAN], dead' \subseteq Conn
  PROVE  IInv'
<1>1. PubInv' /\ published' = published /\ SoundMsg' = SoundMsg
  BY PubIdle DEF IInv
<1>2. cpc' = cpc /\ adv' = adv
  BY DEF runVars, callVars
<1>3. NetInv'
  BY <1>1 DEF NetInv
<1>4. QED  BY <1>1, <1>2, <1>3, RunIdle, FileIdle DEF IInv

(* TCP gives a silent connection up.                                       *)
LEMMA GiveUpStep ==
  ASSUME IInv, NEW k \in Conn, GiveUp(k)
  PROVE  IInv'
<1>1. SrvInv' /\ LeftInv'
  BY SrvIdle, LeftIdle DEF GiveUp, IInv
<1>2. QED  BY <1>1, NetStep DEF GiveUp, IInv, NetInv

(* Everything the operator, the user and the faults do.                    *)
LEMMA EnvironmentStep ==
  ASSUME IInv, Environment
  PROVE  IInv'
<1>0. /\ NetInv /\ RunInv /\ FileInv /\ PubInv /\ SrvInv /\ LeftInv
      /\ cpc \in Connected => conn \in Conn
      /\ \A kind \in Kind : Spend(kind) => LeftInv'
      /\ <<>> \in Seq(SoundMsg) /\ <<>> \in Seq(ToServerMsg)
  BY SpendStep DEF IInv, RunInv
<1>k. Kind = {"run", "edit", "fault", "silence", "pause"}
  BY DEF Kind
<1> USE <1>0, <1>k
<1>1. ASSUME NEW v \in Version, NEW b \in Body, OverwritePackage(v, b) PROVE IInv'
  <2>1. PubInv' /\ published' = published /\ cpc' = cpc /\ adv' = adv
    BY <1>1 DEF OverwritePackage, PubInv, runVars, callVars
  <2>2. QED
    BY <1>1, <2>1, SrvIdle, NetIdle, RunIdle, FileIdle DEF OverwritePackage, IInv
<1>2. ASSUME NEW v \in Version, Reload(v) PROVE IInv'
  BY <1>2, SrvIdle, LoadFrame DEF Reload
<1>3. ASSUME NEW k \in Conn, TurnAway(k) PROVE IInv'
  <2>1. SrvInv'
    BY <1>3, StageStep DEF TurnAway, ServerPC, Reserved, SrvInv
  <2>2. QED  BY <1>3, <2>1, NetStep DEF TurnAway, NetInv
<1>4. ASSUME NEW k \in Conn, RefuseAuth(k) PROVE IInv'
  <2>1. SrvInv'
    BY <1>4, StageStep DEF RefuseAuth, ServerPC, Reserved, SrvInv
  <2>2. PICK code \in {"AUTH_FAIL", "SERVER_BUSY"} : Reply(k, <<Msg("ERROR", code)>>)
    BY <1>4 DEF RefuseAuth
  <2>3. toServer' \in [Conn -> Seq(ToServerMsg)] /\ toClient' \in [Conn -> Seq(SoundMsg)]
    BY <1>4, <2>2, ConsumeStep, ReplyStep, ServerMessages DEF RefuseAuth, Arrived
  <2>4. QED  BY <1>4, <2>1, <2>3, NetStep DEF RefuseAuth, NetInv, endVars
<1>5. ASSUME NEW k \in Conn, Reset(k) PROVE IInv'
  BY <1>5, SrvIdle, NetStep DEF Reset, NetInv
<1>6. ASSUME NEW k \in Conn, Vanish(k) PROVE IInv'
  BY <1>6, SrvIdle, NetStep DEF Vanish, NetInv
<1>7. CASE ServerCrash
  <2>1. SrvInv'
    BY <1>7, ProtocolAssumption DEF ServerCrash, SrvInv, ServerPC, Reserved, OneSessionPerClient
  <2>2. /\ sOpen' \in [Conn -> BOOLEAN] /\ toServer' \in [Conn -> Seq(ToServerMsg)]
    BY <1>7 DEF ServerCrash, NetInv
  <2>3. QED  BY <1>7, <2>1, <2>2, NetStep DEF ServerCrash, NetInv
<1>8. CASE Start
  <2>1. /\ cpc' = "connect" /\ attempt' = 1 /\ cur' \in {table, 0} /\ stop' = FALSE /\ exit' = "none"
        /\ published' = published /\ conn' = conn /\ adv' = adv
    BY <1>8 DEF Start, pubVars
  <2>2. attempt' \in 0..RetryMax /\ cur' \in Version \cup {0}
    BY <2>1, ProtocolAssumption DEF FileInv
  <2>3. RunInv'
    BY <2>1, <2>2 DEF RunInv, Connected, Downloading, ClientPC
  <2>4. QED  BY <1>8, <2>1, <2>3, NetIdle, FileIdle, ClientCompose DEF Start
<1>9. CASE GuiPause
  <2>1. cpc = "recv" /\ conn \in Conn /\ published' = published /\ LeftInv'
    BY <1>9 DEF GuiPause, Connected, ClientPC, pubVars
  <2>2. Len(part[adv.ver]) \in Nat
    BY <2>1, ManifestFields DEF RunInv, PubInv, FileInv, Downloading
  <2>3. CASE SendFails /\ EndAttempt("RETRY")
    <3>1. NetInv' /\ RunInv' /\ cpc' \in {"off", "connect"}
      BY <2>1, <2>3, EndAttemptStep
    <3>2. FileInv'
      BY <1>9, <2>1, <2>2, <3>1 DEF GuiPause, FileInv, InstalledWasPublished, RecordedIsInstalled
    <3>3. QED  BY <1>9, <2>1, <3>1, <3>2, ClientCompose DEF GuiPause
  <2>4. CASE /\ ~stop /\ Send(Plain("PAUSE")) /\ cpc' = "paused"
             /\ UNCHANGED <<toClient, endVars, callVars>>
    <3>1. NetInv'
      BY <2>1, <2>4, SendStep, ClientMessages, NetCompose DEF NetInv
    <3>2. RunInv'
      BY <2>1, <2>4, MoveStep DEF Connected, Downloading, ClientPC
    <3>3. FileInv'
      BY <1>9, <2>1, <2>2, <2>4 DEF GuiPause, FileInv, InstalledWasPublished, RecordedIsInstalled
    <3>4. QED  BY <1>9, <2>1, <3>1, <3>2, <3>3, ClientCompose DEF GuiPause
  <2>5. QED  BY <1>9, <2>3, <2>4 DEF GuiPause
<1>10. CASE GuiResume
  <2>1. cpc = "paused" /\ conn \in Conn /\ published' = published /\ LeftInv'
    BY <1>10, LeftIdle DEF GuiResume, Connected, ClientPC, pubVars
  <2>2. CASE EndAttempt("RESUME_RECONNECT")
    BY <1>10, <2>1, <2>2, EndStep DEF GuiResume
  <2>3. CASE Send(Plain("RESUME")) /\ cpc' = "recv" /\ UNCHANGED <<toClient, endVars, callVars>>
    <3>1. NetInv'
      BY <2>1, <2>3, SendStep, ClientMessages, NetCompose DEF NetInv
    <3>2. RunInv'
      BY <2>1, <2>3, MoveStep DEF Connected, Downloading, ClientPC
    <3>3. QED  BY <1>10, <2>1, <2>3, <3>1, <3>2, FileIdle, ClientCompose DEF GuiResume
  <2>4. QED  BY <1>10, <2>2, <2>3 DEF GuiResume
<1>11. CASE LocalFailure
  BY <1>11, EndStep DEF LocalFailure
<1>12. CASE Stop
  <2>1. RunInv' /\ cpc' = cpc /\ adv' = adv /\ published' = published
    BY <1>12 DEF Stop, RunInv, pubVars
  <2>2. cOpen' \in [Conn -> BOOLEAN]
    BY <1>12 DEF Stop, NetInv
  <2>3. NetInv'
    BY <1>12, <2>1, <2>2 DEF Stop, NetInv, SoundMsg
  <2>4. QED  BY <1>12, <2>1, <2>3, FileIdle, ClientCompose DEF Stop
<1>13. CASE ClientCrash
  <2>1. published' = published /\ LeftInv' /\ cpc' = "off" /\ NetInv' /\ conn' = NoConn
    BY <1>13, DisconnectStep DEF ClientCrash, Off, pubVars, RunInv
  <2>2. RunInv'
    <3>1. adv' = NoManifest /\ attempt' = 0 /\ cur' = 0 /\ stop' = FALSE /\ exit' = "killed"
      BY <1>13 DEF ClientCrash, Off
    <3>2. attempt' \in 0..RetryMax
      BY <3>1, ProtocolAssumption
    <3>3. QED  BY <2>1, <3>1, <3>2 DEF RunInv, Connected, Downloading, ClientPC
  <2>3. part' \in [Version -> Seq(Block)]
    <3>1. CASE cpc \in {"recv", "verify"}
      <4>1. adv.ver \in Version /\ part[adv.ver] \in Seq(Block)
        BY <3>1, ManifestFields DEF RunInv, PubInv, FileInv, Downloading
      <4>2. PICK n \in flushed..Len(part[adv.ver]) :
              part' = [part EXCEPT ![adv.ver] = SubSeq(@, 1, n)]
        BY <1>13, <3>1 DEF ClientCrash
      <4>3. SubSeq(part[adv.ver], 1, n) \in Seq(Block)
        BY <4>1, <4>2 DEF FileInv
      <4>4. QED  BY <4>1, <4>2, <4>3 DEF FileInv
    <3>2. CASE cpc \notin {"recv", "verify"}
      BY <1>13, <3>2 DEF ClientCrash, FileInv
    <3>3. QED  BY <3>1, <3>2
  <2>4. FileInv'
    BY <1>13, <2>1, <2>3 DEF ClientCrash, FileInv, InstalledWasPublished, RecordedIsInstalled
  <2>5. QED  BY <1>13, <2>1, <2>2, <2>4, ClientCompose DEF ClientCrash
<1>14. QED
  BY <1>1, <1>2, <1>3, <1>4, <1>5, <1>6, <1>7, <1>8, <1>9, <1>10, <1>11, <1>12, <1>13
  DEF Environment
-----------------------------------------------------------------------------
(* The initial states.                                                     *)
LEMMA Initially == Init => IInv
<1> SUFFICES ASSUME Init PROVE IInv
  OBVIOUS
<1>1. PubInv
  BY DEF Init, PubInv, Manifest
<1>2. SrvInv
  BY ProtocolAssumption DEF Init, SrvInv, ServerPC, Reserved, OneSessionPerClient
<1>3. NetInv
  BY DEF Init, NetInv
<1>4. RunInv
  <2>1. attempt \in 0..RetryMax
    BY ProtocolAssumption DEF Init
  <2>2. QED  BY <2>1 DEF Init, RunInv, Connected, Downloading, ClientPC
<1>5. FileInv
  BY DEF Init, FileInv, InstalledWasPublished, RecordedIsInstalled
<1>6. LeftInv
  BY ProtocolAssumption DEF Init, LeftInv
<1>7. QED  BY <1>1, <1>2, <1>3, <1>4, <1>5, <1>6 DEF IInv

(* Nothing happens.                                                        *)
LEMMA Stuttering == IInv /\ UNCHANGED vars => IInv'
BY PubIdle, SrvIdle, NetIdle, RunIdle, FileIdle, LeftIdle DEF IInv, vars, runVars, callVars

(* IInv is inductive.                                                      *)
THEOREM Inductive == Spec => []IInv
<1>1. IInv /\ [Next]_vars => IInv'
  BY ServerStep, ClientStep, ServerStartStep, GiveUpStep, EnvironmentStep, Stuttering DEF Next
<1>2. QED  BY Initially, <1>1, PTL DEF Spec

(* What the parts say, read off as the type invariant.                     *)
LEMMA TypeFollows == IInv => TypeOK
<1> SUFFICES ASSUME IInv PROVE TypeOK
  OBVIOUS
<1>1. manifest \in Manifest /\ adv \in Manifest \cup {NoManifest}
  BY DEF IInv, PubInv, RunInv
<1>2. ASSUME NEW s \in Seq(SoundMsg) PROVE s \in Seq(ToClientMsg)
  BY <1>2 DEF SoundMsg
<1>3. toClient \in [Conn -> Seq(ToClientMsg)]
  BY <1>2 DEF IInv, NetInv
<1>4. QED
  BY <1>1, <1>3 DEF IInv, PubInv, SrvInv, NetInv, RunInv, FileInv, LeftInv, TypeOK

(* Every variable has its type: in particular the attempt counter of       *)
(* CheckForUpdate never passes RETRY_MAX, and a file under its final name  *)
(* has a content a package can have.                                       *)
THEOREM TypeCorrect == Spec => []TypeOK
BY Inductive, TypeFollows, PTL

(* run_attempt installs only what a manifest described, for any number of  *)
(* runs, retries, reloads, overwritten packages, pauses and crashes.       *)
THEOREM InstallIsSound == Spec => []InstalledWasPublished
<1>1. IInv => InstalledWasPublished
  BY DEF IInv, FileInv
<1>2. QED  BY <1>1, Inductive, PTL

(* The client's row of the version table is written only behind the rename *)
(* that puts the file in place, and nothing removes that file again.       *)
THEOREM RecordIsSound == Spec => []RecordedIsInstalled
<1>1. IInv => RecordedIsInstalled
  BY DEF IInv, FileInv
<1>2. QED  BY <1>1, Inductive, PTL

(* reserve_active_client_id and release_active_client_id bracket every     *)
(* path through handle_client_session.                                     *)
THEOREM ReservationIsSound == Spec => []OneSessionPerClient
<1>1. IInv => OneSessionPerClient
  BY DEF IInv, SrvInv
<1>2. QED  BY <1>1, Inductive, PTL
-----------------------------------------------------------------------------
(* No downgrade                                                            *)

(* On the client's connection only the version the run reports is asked    *)
(* about, and only newer ones are offered.                                 *)
AskMsg   == {m \in ToServerMsg : m.type = "VERSION_REQ" => m.arg = cur}
OfferMsg == {m \in SoundMsg : m.type = "UPDATE_AVAILABLE" => m.arg.ver > cur}
OfferInv ==
  /\ cpc \in Connected => toServer[conn] \in Seq(AskMsg) /\ toClient[conn] \in Seq(OfferMsg)
  /\ cpc \in Downloading => adv.ver > cur

(* A client that leaves its connection has nothing to show for it.         *)
LEMMA OfferEnds ==
  ASSUME cpc' \notin Connected
  PROVE  OfferInv'
BY DEF OfferInv, Connected, Downloading, ClientPC

(* A step that leaves the client where it is with its connection.          *)
LEMMA OfferStays ==
  ASSUME IInv, OfferInv, UNCHANGED <<cpc, conn, cur, adv>>, published \subseteq published',
         cpc \in Connected => /\ toServer'[conn] \in Seq(AskMsg)
                              /\ toClient'[conn] \in Seq(OfferMsg)
  PROVE  OfferInv'
<1>1. AskMsg' = AskMsg /\ OfferMsg \subseteq OfferMsg'
  BY DEF AskMsg, OfferMsg, SoundMsg
<1>2. Seq(OfferMsg) \subseteq Seq(OfferMsg')
  <2>1. ASSUME NEW q \in Seq(OfferMsg)  PROVE q \in Seq(OfferMsg')
    BY <1>1, <2>1
  <2>2. QED  BY <2>1
<1>3. QED  BY <1>1, <1>2 DEF OfferInv

(* A step of the client inside an attempt.                                 *)
LEMMA OfferMoves ==
  ASSUME IInv, OfferInv, cpc \in Connected, UNCHANGED <<published, conn, cur>>,
         toServer'[conn] \in Seq(AskMsg), toClient'[conn] \in Seq(OfferMsg),
         cpc' \in Downloading => adv'.ver > cur
  PROVE  OfferInv'
<1>1. AskMsg' = AskMsg /\ OfferMsg' = OfferMsg
  BY DEF AskMsg, OfferMsg, SoundMsg
<1>2. QED  BY <1>1 DEF OfferInv

(* A session's steps keep what is asked and offered.                       *)
LEMMA OfferByServer ==
  ASSUME IInv, OfferInv, NEW k \in Conn, Server(k)
  PROVE  OfferInv'
<1> USE DEF OfferInv
<1>1. /\ UNCHANGED <<cpc, conn, cur, adv, published>>
      /\ NetInv /\ PubInv /\ manifest \in Manifest
      /\ cpc \in Connected => conn \in Conn
  BY DEF IInv, PubInv, RunInv, Server, Greet, Authenticate, CheckVersion, StartTransfer, StreamChunk,
         PollControl, ResumeStream, HoldExpires, FinishStream, TakeResult, SessionFails, Release,
         CloseConn, pubVars, runVars, callVars
<1>2. CASE cpc \notin Connected \/ k # conn
  <2>1. \A i \in Conn \ {k} : toServer'[i] = toServer[i] /\ toClient'[i] = toClient[i]
    BY <1>1 DEF NetInv, Server, Greet, Authenticate, CheckVersion, StartTransfer, StreamChunk,
       PollControl, ResumeStream, HoldExpires, FinishStream, TakeResult, SessionFails, Release,
       CloseConn, Reply, Consume, netVars, endVars
  <2>2. QED  BY <1>1, <1>2, <2>1, OfferStays
<1>3. CASE cpc \in Connected /\ k = conn
  <2>0. toServer[k] \in Seq(AskMsg) /\ toClient[k] \in Seq(OfferMsg)
    BY <1>3
  <2>1. Consume(k) /\ HasInput(k) =>
          toServer'[k] \in Seq(AskMsg) /\ Head(toServer[k]) \in AskMsg
    <3>1. toServer[k] # <<>> => Tail(toServer[k]) \in Seq(AskMsg) /\ Head(toServer[k]) \in AskMsg
      BY <2>0
    <3>2. Consume(k) => toServer'[k] = Tail(toServer[k])
      BY <1>1 DEF Consume, NetInv
    <3>3. QED  BY <3>1, <3>2 DEF HasInput
  <2>2. \A m \in OfferMsg : Reply(k, <<m>>) => toClient'[k] \in Seq(OfferMsg)
    <3>1. \A m \in OfferMsg : toClient[k] \o <<m>> \in Seq(OfferMsg)
      BY <2>0
    <3>2. QED  BY <1>1, <3>1 DEF Reply, NetInv
  <2>3. \A m, n \in OfferMsg : Reply(k, <<m, n>>) => toClient'[k] \in Seq(OfferMsg)
    <3>1. \A m, n \in OfferMsg : <<m, n>> \in Seq(OfferMsg)
      OBVIOUS
    <3>2. \A m, n \in OfferMsg : toClient[k] \o <<m, n>> \in Seq(OfferMsg)
      BY <2>0, <3>1
    <3>3. QED  BY <1>1, <3>2 DEF Reply, NetInv
  <2>4. /\ Plain("HELLO") \in OfferMsg /\ Plain("AUTH_OK") \in OfferMsg
        /\ Plain("UPTODATE") \in OfferMsg /\ Plain("BYE") \in OfferMsg
        /\ Msg("ERROR", "DUPLICATE_CLIENT") \in OfferMsg
        /\ Msg("ERROR", "BAD_REQUEST") \in OfferMsg
        /\ \A b \in Block : Msg("DATA", b) \in OfferMsg
        /\ \A b \in Body : Msg("TRANSFER_DONE", b) \in OfferMsg
    BY <1>1, ServerMessages DEF OfferMsg, Msg, Plain
  <2>5. CASE CheckVersion(k)
    <3>1. HasInput(k) /\ Head(toServer[k]).type = "VERSION_REQ"
      BY <2>5 DEF CheckVersion, Arrived
    <3>2. Head(toServer[k]).arg = cur /\ toServer'[k] \in Seq(AskMsg)
      BY <2>1, <2>5, <3>1 DEF AskMsg, CheckVersion
    <3>3. CASE Uptodate(cur, manifest)
      BY <1>1, <1>3, <2>3, <2>4, <2>5, <3>2, <3>3, OfferStays DEF CheckVersion
    <3>4. CASE ~Uptodate(cur, manifest)
      <4>1. manifest.ver > cur
        BY <1>1, <3>4, ProtocolAssumption, ManifestFields DEF Uptodate, IInv, RunInv
      <4>2. Msg("UPDATE_AVAILABLE", manifest) \in OfferMsg
        BY <1>1, <4>1, ServerMessages DEF OfferMsg, Msg
      <4>3. QED  BY <1>1, <1>3, <2>2, <2>5, <3>2, <3>4, <4>2, OfferStays DEF CheckVersion
    <3>5. QED  BY <3>3, <3>4
  <2>6. CASE Greet(k) \/ Authenticate(k)
    <3>1. toServer'[k] \in Seq(AskMsg) /\ toClient'[k] \in Seq(OfferMsg)
      BY <2>0, <2>1, <2>2, <2>4, <2>6 DEF Greet, Authenticate, Arrived
    <3>2. QED  BY <1>1, <1>3, <3>1, OfferStays
  <2>7. CASE StartTransfer(k)
    <3>1. toServer'[k] \in Seq(AskMsg) /\ toClient'[k] \in Seq(OfferMsg)
      BY <2>0, <2>1, <2>2, <2>4, <2>7 DEF StartTransfer, Arrived
    <3>2. QED  BY <1>1, <1>3, <3>1, OfferStays
  <2>8. CASE StreamChunk(k)
    <3>1. snap[k] \in Manifest
      BY <2>8 DEF StreamChunk, IInv, SrvInv
    <3>2. CASE sent[k] < Len(disk[snap[k].ver])
      <4>1. disk[snap[k].ver] \in Body
        BY <1>1, <3>1, ManifestFields DEF PubInv
      <4>2. sent[k] + 1 \in 1..Len(disk[snap[k].ver])
        BY <3>2, <4>1, BodyBlocks DEF IInv, SrvInv
      <4>3. disk[snap[k].ver][sent[k] + 1] \in Block
        BY <4>1, <4>2, BodyBlocks
      <4>4. toServer'[k] \in Seq(AskMsg) /\ toClient'[k] \in Seq(OfferMsg)
        BY <2>0, <2>2, <2>4, <2>8, <3>2, <4>3 DEF StreamChunk
      <4>5. QED  BY <1>1, <1>3, <4>4, OfferStays
    <3>3. CASE ~(sent[k] < Len(disk[snap[k].ver]))
      BY <1>1, <1>3, <2>0, <2>8, <3>3, OfferStays DEF StreamChunk
    <3>4. QED  BY <3>2, <3>3
  <2>9. CASE FinishStream(k)
    <3>1. snap[k].digest \in Body
      BY <2>9, ManifestFields DEF FinishStream, IInv, SrvInv
    <3>2. toServer'[k] \in Seq(AskMsg) /\ toClient'[k] \in Seq(OfferMsg)
      BY <2>0, <2>2, <2>4, <2>9, <3>1 DEF FinishStream
    <3>3. QED  BY <1>1, <1>3, <3>2, OfferStays
  <2>10. CASE PollControl(k) \/ ResumeStream(k) \/ TakeResult(k)
    <3>1. toServer'[k] \in Seq(AskMsg) /\ toClient'[k] \in Seq(OfferMsg)
      BY <2>0, <2>1, <2>2, <2>4, <2>10 DEF PollControl, ResumeStream, TakeResult, Arrived
    <3>2. QED  BY <1>1, <1>3, <3>1, OfferStays
  <2>11. CASE HoldExpires(k) \/ SessionFails(k) \/ Release(k)
    BY <1>1, <1>3, <2>0, <2>11, OfferStays DEF HoldExpires, SessionFails, Release, netVars
  <2>12. CASE CloseConn(k)
    <3>1. <<>> \in Seq(AskMsg) /\ <<>> \in Seq(OfferMsg)
      OBVIOUS
    <3>2. toServer'[k] \in Seq(AskMsg) /\ toClient'[k] \in Seq(OfferMsg)
      BY <1>1, <2>0, <2>12, <3>1 DEF CloseConn, NetInv, netVars, endVars
    <3>3. QED  BY <1>1, <1>3, <3>2, OfferStays
  <2>13. QED
    BY <2>5, <2>6, <2>7, <2>8, <2>9, <2>10, <2>11, <2>12 DEF Server
<1>4. QED  BY <1>2, <1>3

(* So do the client's.                                                     *)
LEMMA OfferByClient ==
  ASSUME IInv, OfferInv, Client
  PROVE  OfferInv'
<1> USE DEF OfferInv
<1>1. /\ NetInv /\ published' = published
      /\ cpc \in Connected => conn \in Conn
  BY DEF IInv, RunInv, Client, ConnectFails, RecvHello, RecvAuthOk, RecvError, RecvUptodate,
         RecvUpdateAvailable, RecvData, RecvTransferDone, RecvFails, GuiPauseEnds, Verify,
         DropMismatch, Rename, RecvBye, Record, Connect, pubVars
<1>2. ASSUME NEW result, EndAttempt(result)  PROVE OfferInv'
  BY <1>2, OfferEnds DEF EndAttempt, Off, Connected
<1>3. ASSUME cpc \in Connected, HasMessage, TakeMessage
      PROVE  Head(toClient[conn]) \in OfferMsg /\ toClient'[conn] \in Seq(OfferMsg)
  <2>1. toClient[conn] \in Seq(OfferMsg) /\ toClient[conn] # <<>>
    BY <1>3 DEF HasMessage
  <2>2. Head(toClient[conn]) \in OfferMsg /\ Tail(toClient[conn]) \in Seq(OfferMsg)
    BY <2>1
  <2>3. QED  BY <1>1, <1>3, <2>2 DEF TakeMessage, NetInv
<1>4. ASSUME cpc \in Connected, NEW m \in AskMsg, Send(m)
      PROVE  toServer'[conn] \in Seq(AskMsg)
  <2>1. Append(toServer[conn], m) \in Seq(AskMsg)
    BY <1>4
  <2>2. QED  BY <1>1, <1>4, <2>1 DEF Send, NetInv
<1>5. /\ Plain("AUTH") \in AskMsg /\ Msg("VERSION_REQ", cur) \in AskMsg
      /\ Msg("RESULT", "ok") \in AskMsg /\ Msg("RESULT", "checksum_fail") \in AskMsg
      /\ \A n \in Nat : Msg("DOWNLOAD_REQ", n) \in AskMsg
  BY ClientMessages DEF AskMsg, Msg, Plain, IInv, RunInv
<1>6. CASE \E k \in Conn : Connect(k)
  <2> PICK k \in Conn : Connect(k)
    BY <1>6
  <2>1. <<>> \in Seq(AskMsg') /\ <<>> \in Seq(OfferMsg')
    OBVIOUS
  <2>2. conn' = k /\ cpc' = "hello" /\ toServer'[k] = <<>> /\ toClient'[k] = <<>>
    BY <1>1 DEF Connect, NetInv
  <2>3. QED  BY <2>1, <2>2 DEF Downloading
<1>7. CASE RecvHello \/ RecvAuthOk
  <2>1. /\ cpc \in Connected /\ HasMessage /\ TakeMessage
        /\ Send(Plain("AUTH")) \/ Send(Msg("VERSION_REQ", cur))
        /\ UNCHANGED <<conn, cur>> /\ cpc' \notin Downloading
    BY <1>7 DEF RecvHello, RecvAuthOk, Received, Connected, ClientPC, Downloading, callVars
  <2>2. toServer'[conn] \in Seq(AskMsg) /\ toClient'[conn] \in Seq(OfferMsg)
    BY <1>3, <1>4, <1>5, <2>1
  <2>3. QED  BY <1>1, <2>1, <2>2, OfferMoves
<1>8. CASE RecvUpdateAvailable
  <2> DEFINE offer == Head(toClient[conn])
  <2>1. /\ cpc \in Connected /\ HasMessage /\ TakeMessage /\ offer.type = "UPDATE_AVAILABLE"
        /\ UNCHANGED <<conn, cur>> /\ adv' = offer.arg
    BY <1>8 DEF RecvUpdateAvailable, Received, Connected, ClientPC
  <2>2. offer \in OfferMsg /\ toClient'[conn] \in Seq(OfferMsg)
    BY <1>3, <2>1
  <2>3. adv'.ver > cur /\ offer.arg \in Manifest
    BY <2>1, <2>2 DEF OfferMsg, SoundMsg, IInv, PubInv
  <2>4. \E n \in Nat : Send(Msg("DOWNLOAD_REQ", n))
    <3>1. part[offer.arg.ver] \in Seq(Block)
      BY <2>3, ManifestFields DEF IInv, FileInv
    <3>2. Len(part[offer.arg.ver]) \in Nat /\ Len(<<>>) \in Nat
      BY <3>1
    <3>3. QED  BY <1>8, <3>2 DEF RecvUpdateAvailable
  <2>5. toServer'[conn] \in Seq(AskMsg)
    BY <1>4, <1>5, <2>1, <2>4
  <2>6. QED  BY <1>1, <2>1, <2>2, <2>3, <2>5, OfferMoves
<1>9. CASE RecvData \/ RecvTransferDone
  <2>1. CASE \E result : EndAttempt(result)
    BY <2>1, <1>2
  <2>2. CASE ~\E result : EndAttempt(result)
    <3>1. /\ cpc \in Connected /\ cpc \in Downloading /\ HasMessage /\ TakeMessage
          /\ UNCHANGED <<toServer, conn, cur, adv>>
      BY <1>9, <2>2 DEF RecvData, RecvTransferDone, Received, Connected, ClientPC, Downloading,
                        runVars, callVars
    <3>2. QED  BY <1>1, <1>3, <3>1, OfferMoves
  <2>3. QED  BY <2>1, <2>2
<1>10. CASE Verify \/ Rename
  <2>1. /\ cpc \in Connected /\ cpc \in Downloading
        /\ UNCHANGED <<toClient, conn, cur, adv>>
        /\ \/ UNCHANGED toServer
           \/ Send(Msg("RESULT", "ok")) \/ Send(Msg("RESULT", "checksum_fail"))
    BY <1>10 DEF Verify, Rename, SendResult, Connected, ClientPC, Downloading, callVars
  <2>2. toServer'[conn] \in Seq(AskMsg)
    BY <1>4, <1>5, <2>1
  <2>3. QED  BY <1>1, <2>1, <2>2, OfferMoves
<1>11. CASE RecvBye
  <2>1. /\ cpc \in Connected /\ cpc \in Downloading
        /\ UNCHANGED <<toServer, conn, cur, adv>>
        /\ (HasMessage /\ TakeMessage) \/ UNCHANGED toClient
    BY <1>11 DEF RecvBye, Connected, ClientPC, Downloading, callVars
  <2>2. QED  BY <1>1, <1>3, <2>1, OfferMoves
<1>12. CASE ConnectFails \/ RecvError \/ RecvUptodate \/ RecvFails \/ GuiPauseEnds \/ DropMismatch
            \/ Record
  BY <1>12, <1>2 DEF ConnectFails, RecvError, RecvUptodate, RecvFails, GuiPauseEnds, DropMismatch,
                     Record, AttemptFails
<1>13. QED
  BY <1>6, <1>7, <1>8, <1>9, <1>10, <1>11, <1>12 DEF Client

(* And all the others.                                                     *)
LEMMA OfferByOthers ==
  ASSUME IInv, OfferInv, Environment \/ ServerStart \/ (\E k \in Conn : GiveUp(k)) \/ UNCHANGED vars
  PROVE  OfferInv'
<1> USE DEF OfferInv
<1>1. /\ NetInv
      /\ cpc \in Connected => conn \in Conn
  BY DEF IInv, RunInv
<1>2. ASSUME NEW result, EndAttempt(result)  PROVE OfferInv'
  BY <1>2, OfferEnds DEF EndAttempt, Off, Connected
<1>3. ASSUME UNCHANGED <<cpc, conn, cur, adv, toServer, toClient>>, published \subseteq published'
      PROVE  OfferInv'
  BY <1>3, OfferStays
<1>4. CASE UNCHANGED vars \/ ServerStart \/ \E k \in Conn : GiveUp(k)
  <2>1. UNCHANGED <<cpc, conn, cur, adv, toServer, toClient>> /\ published \subseteq published'
    BY <1>4 DEF vars, ServerStart, LoadManifest, GiveUp, pubVars, netVars, runVars, callVars
  <2>2. QED  BY <2>1, <1>3
<1>5. CASE (\E v \in Version, b \in Body : OverwritePackage(v, b)) \/ (\E v \in Version : Reload(v))
  <2>1. UNCHANGED <<cpc, conn, cur, adv, toServer, toClient>> /\ published \subseteq published'
    BY <1>5 DEF OverwritePackage, Reload, LoadManifest, netVars, runVars, callVars
  <2>2. QED  BY <2>1, <1>3
<1>6. ASSUME NEW k \in Conn, TurnAway(k) \/ Vanish(k)  PROVE OfferInv'
  <2>1. UNCHANGED <<cpc, conn, cur, adv, toServer, toClient>> /\ published \subseteq published'
    BY <1>6 DEF TurnAway, Vanish, pubVars, runVars, callVars
  <2>2. QED  BY <2>1, <1>3
<1>7. <<>> \in Seq(AskMsg) /\ <<>> \in Seq(OfferMsg)
  OBVIOUS
<1>8. ASSUME NEW k \in Conn, RefuseAuth(k)  PROVE OfferInv'
  <2>1. UNCHANGED <<cpc, conn, cur, adv, published>>
    BY <1>8 DEF RefuseAuth, pubVars, runVars, callVars
  <2>2. \A code \in {"AUTH_FAIL", "SERVER_BUSY"} : Msg("ERROR", code) \in OfferMsg
    BY ServerMessages DEF OfferMsg, Msg, IInv
  <2>3. PICK code \in {"AUTH_FAIL", "SERVER_BUSY"} : Reply(k, <<Msg("ERROR", code)>>)
    BY <1>8 DEF RefuseAuth
  <2>4. HasInput(k) /\ Consume(k)
    BY <1>8 DEF RefuseAuth, Arrived
  <2>5. ASSUME cpc \in Connected
        PROVE  toServer'[conn] \in Seq(AskMsg) /\ toClient'[conn] \in Seq(OfferMsg)
    <3>0. toServer[conn] \in Seq(AskMsg) /\ toClient[conn] \in Seq(OfferMsg) /\ conn \in Conn
      BY <1>1, <2>5
    <3>1. conn # k => toServer'[conn] = toServer[conn] /\ toClient'[conn] = toClient[conn]
      BY <1>1, <2>3, <2>4, <3>0 DEF Reply, Consume, NetInv
    <3>2. conn = k => toServer'[conn] = Tail(toServer[conn]) /\ toServer[conn] # <<>>
                      /\ toClient'[conn] = toClient[conn] \o <<Msg("ERROR", code)>>
      BY <1>1, <2>3, <2>4, <3>0 DEF Reply, Consume, NetInv, HasInput
    <3>3. toServer[conn] # <<>> => Tail(toServer[conn]) \in Seq(AskMsg)
      BY <3>0
    <3>4. toClient[conn] \o <<Msg("ERROR", code)>> \in Seq(OfferMsg)
      BY <2>2, <3>0
    <3>5. QED  BY <3>0, <3>1, <3>2, <3>3, <3>4
  <2>6. QED  BY <2>1, <2>5, OfferStays
<1>9. ASSUME NEW k \in Conn, Reset(k)  PROVE OfferInv'
  <2>1. UNCHANGED <<cpc, conn, cur, adv, published>>
    BY <1>9 DEF Reset, pubVars, runVars, callVars
  <2>2. \A i \in Conn : /\ toServer'[i] \in {toServer[i], <<>>}
                        /\ toClient'[i] \in {toClient[i], <<>>}
    BY <1>1, <1>9 DEF Reset, NetInv
  <2>3. QED  BY <1>1, <1>7, <2>1, <2>2, OfferStays
<1>10. CASE ServerCrash
  <2>1. UNCHANGED <<cpc, conn, cur, adv, published, toClient>>
    BY <1>10 DEF ServerCrash, pubVars, runVars, callVars
  <2>2. \A i \in Conn : toServer'[i] \in {toServer[i], <<>>}
    BY <1>10 DEF ServerCrash
  <2>3. QED  BY <1>1, <1>7, <2>1, <2>2, OfferStays
<1>11. CASE Start \/ ClientCrash
  BY <1>11, OfferEnds DEF Start, ClientCrash, Off, Connected
<1>12. CASE GuiPause \/ GuiResume
  <2>1. CASE \E result : EndAttempt(result)
    BY <2>1, <1>2
  <2>2. CASE ~\E result : EndAttempt(result)
    <3>1. /\ cpc \in Connected /\ cpc \in Downloading
          /\ UNCHANGED <<toClient, conn, cur, adv, published>>
          /\ Send(Plain("PAUSE")) \/ Send(Plain("RESUME"))
      BY <1>12, <2>2 DEF GuiPause, GuiResume, Connected, ClientPC, Downloading, callVars, pubVars
    <3>2. Plain("PAUSE") \in AskMsg /\ Plain("RESUME") \in AskMsg
      BY ClientMessages DEF AskMsg, Plain, Msg
    <3>3. \A m \in AskMsg : Append(toServer[conn], m) \in Seq(AskMsg)
      BY <3>1
    <3>4. toServer'[conn] \in Seq(AskMsg)
      BY <1>1, <3>1, <3>2, <3>3 DEF Send, NetInv
    <3>5. QED  BY <3>1, <3>4, OfferMoves
  <2>3. QED  BY <2>1, <2>2
<1>13. CASE LocalFailure
  BY <1>13, <1>2 DEF LocalFailure
<1>14. CASE Stop
  <2>1. UNCHANGED <<cpc, conn, cur, adv, toServer, toClient>> /\ published \subseteq published'
    BY <1>14 DEF Stop, pubVars
  <2>2. QED  BY <2>1, <1>3
<1>15. QED
  BY <1>4, <1>5, <1>6, <1>8, <1>9, <1>10, <1>11, <1>12, <1>13, <1>14 DEF Environment

(* It holds in every behaviour.                                            *)
LEMMA OfferHolds == Spec => []OfferInv
<1>1. Init => OfferInv
  BY DEF Init, OfferInv, Connected, Downloading, ClientPC
<1>2. IInv /\ OfferInv /\ [Next]_vars => OfferInv'
  BY OfferByServer, OfferByClient, OfferByOthers DEF Next
<1>3. QED  BY <1>1, <1>2, Inductive, PTL DEF Spec

(* A run that read the client's row never takes it back to an older        *)
(* version, whatever is reloaded and however attempts and sessions overlap.*)
THEOREM NeverDowngrades == Spec => NoDowngrade
<1>1. IInv /\ OfferInv /\ [Next]_vars => [cur = table => table' >= table]_table
  <2> SUFFICES ASSUME IInv, OfferInv, Next, table' # table, cur = table
               PROVE  table' >= table
    BY DEF vars, fileVars
  <2>1. CASE Record
    <3>1. cpc \in Downloading /\ table' = adv.ver
      BY <2>1 DEF Record, Downloading
    <3>2. adv.ver > cur /\ adv \in Manifest
      BY <3>1 DEF OfferInv, IInv, RunInv, PubInv
    <3>3. adv.ver \in Nat /\ cur \in Nat
      BY <3>2, ManifestFields, ProtocolAssumption DEF IInv, RunInv
    <3>4. QED  BY <3>1, <3>2, <3>3
  <2>2. CASE \E k \in Conn : Server(k) \/ GiveUp(k)
    BY <2>2 DEF Server, Greet, Authenticate, CheckVersion, StartTransfer, StreamChunk, PollControl,
       ResumeStream, HoldExpires, FinishStream, TakeResult, SessionFails, Release, CloseConn, GiveUp,
       fileVars
  <2>3. CASE Client /\ ~Record
    BY <2>3 DEF Client, ConnectFails, RecvHello, RecvAuthOk, RecvError, RecvUptodate,
       RecvUpdateAvailable, RecvData, RecvTransferDone, RecvFails, GuiPauseEnds, Verify, DropMismatch,
       Rename, RecvBye, Connect, fileVars
  <2>4. CASE Environment \/ ServerStart
    BY <2>4 DEF Environment, ServerStart, OverwritePackage, Reload, TurnAway, RefuseAuth, Reset,
       Vanish, ServerCrash, Start, GuiPause, GuiResume, LocalFailure, Stop, ClientCrash, fileVars
  <2>5. QED  BY <2>1, <2>2, <2>3, <2>4 DEF Next
<1>2. QED  BY <1>1, Inductive, OfferHolds, PTL DEF Spec, NoDowngrade
-----------------------------------------------------------------------------
(* What a RESULT confirms                                                  *)

(* The messages under way in a channel.                                    *)
Under(q) == {q[i] : i \in 1..Len(q)}

(* An empty channel has nothing under way, a message put into it is, and   *)
(* reading the first takes nothing else away.                              *)
LEMMA UnderNone == Under(<<>>) = {}
BY DEF Under

(* A message put behind those under way joins them.                        *)
LEMMA UnderPut ==
  ASSUME NEW S, NEW q \in Seq(S), NEW m \in S
  PROVE  Under(q \o <<m>>) = Under(q) \cup {m}
<1> DEFINE n == Len(q)
           p == Append(q, m)
<1>1. n \in Nat /\ Len(p) = n + 1 /\ p[n + 1] = m /\ \A i \in 1..n : p[i] = q[i]
  BY AppendProperties
<1>2. p = q \o <<m>>
  BY AppendIsConcat
<1> HIDE DEF n, p
<1>3. \A x : x \in {p[i] : i \in 1..(n + 1)} <=> x \in {q[i] : i \in 1..n} \/ x = m
  <2>1. \A i \in 1..n : i \in 1..(n + 1)
    BY <1>1
  <2>2. \A i \in 1..(n + 1) : i \in 1..n \/ i = n + 1
    BY <1>1
  <2>3. n + 1 \in 1..(n + 1)
    BY <1>1
  <2>4. QED  BY <1>1, <2>1, <2>2, <2>3
<1>4. Under(p) = Under(q) \cup {m}
  BY <1>1, <1>3 DEF Under, n
<1>5. QED  BY <1>2, <1>4 DEF p

(* The same, of a message the client appends.                              *)
LEMMA UnderAppend ==
  ASSUME NEW S, NEW q \in Seq(S), NEW m \in S
  PROVE  Under(Append(q, m)) = Under(q) \cup {m}
<1>1. Append(q, m) = q \o <<m>>
  BY AppendIsConcat
<1>2. Under(q \o <<m>>) = Under(q) \cup {m}
  BY UnderPut
<1>3. QED  BY <1>1, <1>2

(* The same, of two messages sent together.                                *)
LEMMA UnderTwo ==
  ASSUME NEW S, NEW q \in Seq(S), NEW m \in S, NEW n \in S
  PROVE  Under(q \o <<m, n>>) = Under(q) \cup {m, n}
<1> DEFINE t == <<m, n>>
           p == q \o t
           k == Len(q)
<1>1. t \in Seq(S) /\ Len(t) = 2 /\ t[1] = m /\ t[2] = n
  OBVIOUS
<1> HIDE DEF t
<1>2. k \in Nat /\ Len(p) = k + 2
      /\ \A i \in 1..(k + 2) : p[i] = IF i <= k THEN q[i] ELSE t[i - k]
  <2>1. Len(p) = k + Len(t)
        /\ \A i \in 1..(k + Len(t)) : p[i] = IF i <= k THEN q[i] ELSE t[i - k]
    BY <1>1, ConcatProperties
  <2>2. QED  BY <1>1, <2>1
<1> HIDE DEF p, k
<1>3. p[k + 1] = m /\ p[k + 2] = n /\ \A i \in 1..k : p[i] = q[i]
  <2>1. k + 1 \in 1..(k + 2) /\ (k + 1) - k = 1 /\ ~(k + 1 <= k)
    BY <1>2
  <2>2. k + 2 \in 1..(k + 2) /\ (k + 2) - k = 2 /\ ~(k + 2 <= k)
    BY <1>2
  <2>3. \A i \in 1..k : i \in 1..(k + 2) /\ i <= k
    BY <1>2
  <2>4. QED  BY <1>1, <1>2, <2>1, <2>2, <2>3
<1>4. \A x : x \in {p[i] : i \in 1..(k + 2)} <=> x \in {q[i] : i \in 1..k} \/ x = m \/ x = n
  <2>1. \A i \in 1..k : i \in 1..(k + 2)
    BY <1>2
  <2>2. \A i \in 1..(k + 2) : i \in 1..k \/ i = k + 1 \/ i = k + 2
    BY <1>2
  <2>3. k + 1 \in 1..(k + 2) /\ k + 2 \in 1..(k + 2)
    BY <1>2
  <2>4. QED  BY <1>3, <2>1, <2>2, <2>3
<1>5. Under(p) = Under(q) \cup {m, n}
  BY <1>2, <1>4 DEF Under, k
<1>6. QED  BY <1>5 DEF p, t

(* Reading the first message leaves only what was there before.            *)
LEMMA UnderTake ==
  ASSUME NEW S, NEW q \in Seq(S), q # <<>>
  PROVE  Under(Tail(q)) \subseteq Under(q) /\ Head(q) \in Under(q)
<1>1. Len(q) \in Nat \ {0} /\ Head(q) = q[1] /\ Len(Tail(q)) = Len(q) - 1
      /\ \A i \in 1..Len(Tail(q)) : Tail(q)[i] = q[i + 1]
  BY EmptySeq, HeadTailProperties
<1>2. \A i \in 1..(Len(q) - 1) : i + 1 \in 1..Len(q)
  BY <1>1
<1>3. QED  BY <1>1, <1>2 DEF Under

(* How far a session is.                                                   *)
Over          == {"release", "close", "none"}
Done(k)       == spc[k] \in Over \cup {"result"}
Offered(k, m) == \/ spc[k] \in {"download", "stream", "held", "result"} /\ snap[k] = m
                 \/ spc[k] \in Over

Confirm == Msg("RESULT", "ok")

(* A message tells how far the session was when it was sent, and it has    *)
(* not gone back since.                                                    *)
ChanInv ==
  \A k \in Conn :
    /\ \A m \in Under(toClient[k]) : /\ m.type = "UPDATE_AVAILABLE" => Offered(k, m.arg)
                                     /\ m.type = "TRANSFER_DONE" => Done(k)
    /\ \A m \in Under(toServer[k]) : m.type = "RESULT" => Done(k)

(* What the client has received says as much.                              *)
StageInv ==
  /\ cpc \in Downloading => Offered(conn, adv)
  /\ cpc \in {"verify", "mismatch", "rename", "bye", "record"} => Done(conn)
  /\ \A k \in Conn : k = conn /\ Confirm \in Under(toServer[k]) => cpc \in {"bye", "record"}

(* While a RESULT status=ok waits to be read, the client's id is reserved  *)
(* by its session: the client is still there, or gets no further than to   *)
(* ask for a new one.                                                      *)
ConfirmInv ==
  \A k \in Conn :
    spc[k] = "result" /\ Confirm \in Under(toServer[k]) =>
      /\ final[snap[k].ver] = snap[k].digest
      /\ conn # k => cpc \in {"off", "connect", "hello", "auth"}
      /\ conn # k /\ cpc \in {"hello", "auth"} =>
           \A m \in Under(toClient[conn]) : m.type # "AUTH_OK"

SessionInv == ChanInv /\ StageInv /\ ConfirmInv
-----------------------------------------------------------------------------
(* A session never goes back.                                              *)
Forward(k) ==
  \/ spc'[k] = spc[k] /\ snap'[k] = snap[k]
  \/ spc'[k] \in Over
  \/ spc[k] \in {"new", "auth", "version"}
  \/ /\ spc[k] \in {"download", "stream", "held"} /\ snap'[k] = snap[k]
     /\ spc'[k] \in {"download", "stream", "held", "result"}

(* What a session has offered or is done with stays so as it goes on.      *)
LEMMA ForwardKeeps ==
  ASSUME NEW k \in Conn, Forward(k)
  PROVE  (\A m : Offered(k, m) => Offered(k, m)') /\ (Done(k) => Done(k)')
BY DEF Forward, Offered, Done, Over

(* What the server and the network do to one session and its channels.     *)
MoveAt(k) ==
  /\ Forward(k)
  /\ spc'[k] = "result" => spc[k] \in {"result", "stream"} /\ snap'[k] = snap[k]
  /\ Under(toServer'[k]) \subseteq Under(toServer[k])
  /\ \A m \in Under(toClient'[k]) \ Under(toClient[k]) :
       /\ m.type = "UPDATE_AVAILABLE" => spc'[k] = "download" /\ snap'[k] = m.arg
       /\ m.type = "TRANSFER_DONE" => spc'[k] = "result"
       /\ m.type = "AUTH_OK" => holder = NoConn

ServerMove == UNCHANGED <<final, cpc, conn, adv>> /\ \A k \in Conn : MoveAt(k)

(* No step on the server's side of a session disturbs the invariant.       *)
LEMMA ServerMoveKeeps ==
  ASSUME IInv, SessionInv, ServerMove
  PROVE  SessionInv'
<1>1. ASSUME NEW k \in Conn
      PROVE  /\ \A m : Offered(k, m) => Offered(k, m)'
             /\ Done(k) => Done(k)'
  BY ForwardKeeps DEF ServerMove, MoveAt
<1>2. ChanInv'
  <2>1. ASSUME NEW k \in Conn, NEW m \in Under(toClient'[k])
        PROVE  /\ m.type = "UPDATE_AVAILABLE" => Offered(k, m.arg)'
               /\ m.type = "TRANSFER_DONE" => Done(k)'
    <3>1. CASE m \in Under(toClient[k])
      BY <1>1, <3>1 DEF SessionInv, ChanInv
    <3>2. CASE m \notin Under(toClient[k])
      BY <3>2 DEF ServerMove, MoveAt, Offered, Done
    <3>3. QED  BY <3>1, <3>2
  <2>2. ASSUME NEW k \in Conn, NEW m \in Under(toServer'[k]), m.type = "RESULT"
        PROVE  Done(k)'
    BY <1>1, <2>2 DEF SessionInv, ChanInv, ServerMove, MoveAt
  <2>3. QED  BY <2>1, <2>2 DEF ChanInv
<1>3. StageInv'
  <2>1. cpc \in Downloading => conn \in Conn
    BY DEF IInv, RunInv, Connected, Downloading, ClientPC
  <2>2. cpc' = cpc /\ conn' = conn /\ adv' = adv
    BY DEF ServerMove
  <2>3. cpc \in Downloading => Offered(conn, adv)'
    <3>1. ASSUME cpc \in Downloading  PROVE Offered(conn, adv)'
      <4>1. PICK k : k \in Conn /\ k = conn
        BY <2>1, <3>1
      <4>2. Offered(k, adv)
        BY <3>1, <4>1 DEF SessionInv, StageInv
      <4>3. QED  BY <1>1, <2>2, <4>1, <4>2 DEF Offered
    <3>2. QED  BY <3>1
  <2>4. cpc \in {"verify", "mismatch", "rename", "bye", "record"} => Done(conn)'
    BY <1>1, <2>1, <2>2 DEF SessionInv, StageInv, Downloading, Done
  <2>5. \A k \in Conn : k = conn /\ Confirm \in Under(toServer'[k]) => cpc \in {"bye", "record"}
    BY DEF SessionInv, StageInv, ServerMove, MoveAt
  <2>6. QED  BY <2>2, <2>3, <2>4, <2>5 DEF StageInv, Confirm
<1>4. ConfirmInv'
  <2>1. SUFFICES ASSUME NEW k \in Conn, spc'[k] = "result", Confirm \in Under(toServer'[k])
                 PROVE  /\ final'[snap'[k].ver] = snap'[k].digest
                        /\ conn' # k => cpc' \in {"off", "connect", "hello", "auth"}
                        /\ conn' # k /\ cpc' \in {"hello", "auth"} =>
                             \A m \in Under(toClient'[conn']) : m.type # "AUTH_OK"
    BY DEF ConfirmInv, Confirm
  <2>2. UNCHANGED <<final, cpc, conn>> /\ snap'[k] = snap[k] /\ Confirm \in Under(toServer[k])
        /\ spc[k] \in {"result", "stream"}
    BY <2>1 DEF ServerMove, MoveAt
  <2>3. spc[k] = "result"
    <3>1. Confirm.type = "RESULT"
      BY DEF Confirm, Msg
    <3>2. Done(k)
      BY <2>2, <3>1 DEF SessionInv, ChanInv
    <3>3. QED  BY <2>2, <3>2 DEF Done, Over
  <2>4. holder # NoConn
    BY <2>3, ProtocolAssumption DEF IInv, SrvInv, OneSessionPerClient, Reserved
  <2>5. ASSUME conn # k, cpc \in {"hello", "auth"}, NEW m \in Under(toClient'[conn])
        PROVE  m.type # "AUTH_OK"
    <3>1. conn \in Conn
      BY <2>5 DEF IInv, RunInv, Connected, ClientPC
    <3>2. m \in Under(toClient[conn]) => m.type # "AUTH_OK"
      BY <2>2, <2>3, <2>5 DEF SessionInv, ConfirmInv
    <3>3. m \notin Under(toClient[conn]) => m.type # "AUTH_OK"
      BY <2>4, <2>5, <3>1 DEF ServerMove, MoveAt
    <3>4. QED  BY <3>2, <3>3
  <2>6. QED  BY <2>2, <2>3, <2>5 DEF SessionInv, ConfirmInv
<1>5. QED  BY <1>2, <1>3, <1>4 DEF SessionInv

(* A session that is not touched.                                          *)
LEMMA StillMove ==
  ASSUME NEW k \in Conn, spc'[k] = spc[k], snap'[k] = snap[k],
         toServer'[k] = toServer[k] \/ toServer'[k] = <<>>,
         toClient'[k] = toClient[k] \/ toClient'[k] = <<>>
  PROVE  MoveAt(k)
BY UnderNone DEF MoveAt, Forward

(* What a reply and the reading of a message leave in the channels.        *)
LEMMA ReplyUnder ==
  ASSUME NetInv, NEW k \in Conn, NEW m \in SoundMsg, Reply(k, <<m>>)
  PROVE  /\ toClient'[k] = toClient[k] \o <<m>>
         /\ Under(toClient'[k]) = Under(toClient[k]) \cup {m}
         /\ \A j \in Conn \ {k} : toClient'[j] = toClient[j]
<1>1. toClient \in [Conn -> Seq(SoundMsg)] /\ toClient[k] \in Seq(SoundMsg)
  BY DEF NetInv
<1>2. toClient'[k] = toClient[k] \o <<m>> /\ \A j \in Conn \ {k} : toClient'[j] = toClient[j]
  BY <1>1 DEF Reply
<1>3. Under(toClient[k] \o <<m>>) = Under(toClient[k]) \cup {m}
  BY <1>1, UnderPut
<1>4. QED  BY <1>2, <1>3

(* The same, of the reply UPTODATE with BYE.                               *)
LEMMA ReplyTwo ==
  ASSUME NetInv, NEW k \in Conn, NEW m \in SoundMsg, NEW n \in SoundMsg, Reply(k, <<m, n>>)
  PROVE  /\ Under(toClient'[k]) = Under(toClient[k]) \cup {m, n}
         /\ \A j \in Conn \ {k} : toClient'[j] = toClient[j]
<1>1. toClient \in [Conn -> Seq(SoundMsg)] /\ toClient[k] \in Seq(SoundMsg)
  BY DEF NetInv
<1>2. toClient'[k] = toClient[k] \o <<m, n>> /\ \A j \in Conn \ {k} : toClient'[j] = toClient[j]
  BY <1>1 DEF Reply
<1>3. Under(toClient[k] \o <<m, n>>) = Under(toClient[k]) \cup {m, n}
  BY <1>1, UnderTwo
<1>4. QED  BY <1>2, <1>3

(* Reading a request leaves only what was there before.                    *)
LEMMA ConsumeUnder ==
  ASSUME NetInv, NEW k \in Conn, HasInput(k), Consume(k)
  PROVE  /\ toServer'[k] = Tail(toServer[k])
         /\ Under(toServer'[k]) \subseteq Under(toServer[k])
         /\ \A j \in Conn \ {k} : toServer'[j] = toServer[j]
<1>1. toServer \in [Conn -> Seq(ToServerMsg)] /\ toServer[k] \in Seq(ToServerMsg)
      /\ toServer[k] # <<>>
  BY DEF NetInv, HasInput
<1>2. toServer'[k] = Tail(toServer[k]) /\ \A j \in Conn \ {k} : toServer'[j] = toServer[j]
  BY <1>1 DEF Consume
<1>3. Under(Tail(toServer[k])) \subseteq Under(toServer[k])
  BY <1>1, UnderTake
<1>4. QED  BY <1>2, <1>3

(* A step that moves one session and leaves the others alone.              *)
LEMMA OneMoves ==
  ASSUME NEW k \in Conn, MoveAt(k), UNCHANGED <<final, cpc, conn, adv>>,
         \A j \in Conn \ {k} : /\ spc'[j] = spc[j] /\ snap'[j] = snap[j]
                               /\ toServer'[j] = toServer[j] /\ toClient'[j] = toClient[j]
  PROVE  ServerMove
<1>1. ASSUME NEW j \in Conn \ {k}  PROVE MoveAt(j)
  BY <1>1, StillMove
<1>2. QED  BY <1>1 DEF ServerMove

(* Where a session goes, and that the others stay.                         *)
LEMMA GotoAt ==
  ASSUME SrvInv, NEW k \in Conn, NEW pc, Goto(k, pc)
  PROVE  spc'[k] = pc /\ \A j \in Conn \ {k} : spc'[j] = spc[j]
BY DEF SrvInv, Goto

(* The types of the messages a session sends.                              *)
LEMMA MessageTypes ==
  /\ Plain("HELLO").type = "HELLO" /\ Plain("AUTH_OK").type = "AUTH_OK"
  /\ Plain("UPTODATE").type = "UPTODATE" /\ Plain("BYE").type = "BYE"
  /\ \A c : Msg("ERROR", c).type = "ERROR"
  /\ \A c : Msg("UPDATE_AVAILABLE", c).type = "UPDATE_AVAILABLE"
     /\ Msg("UPDATE_AVAILABLE", c).arg = c
  /\ \A c : Msg("DATA", c).type = "DATA"
  /\ \A c : Msg("TRANSFER_DONE", c).type = "TRANSFER_DONE"
BY DEF Msg, Plain

(* A session takes a step that may read a message and sends one.           *)
LEMMA ReplyMoves ==
  ASSUME NetInv, UNCHANGED <<final, cpc, conn, adv>>,
         NEW k \in Conn, NEW m \in SoundMsg, Reply(k, <<m>>),
         toServer' = toServer \/ (HasInput(k) /\ Consume(k)),
         Forward(k), spc'[k] = "result" => spc[k] = "stream" /\ snap'[k] = snap[k],
         \A j \in Conn \ {k} : spc'[j] = spc[j] /\ snap'[j] = snap[j],
         m.type = "UPDATE_AVAILABLE" => spc'[k] = "download" /\ snap'[k] = m.arg,
         m.type = "TRANSFER_DONE" => spc'[k] = "result",
         m.type = "AUTH_OK" => holder = NoConn
  PROVE  ServerMove
<1>1. /\ Under(toClient'[k]) = Under(toClient[k]) \cup {m}
      /\ \A j \in Conn \ {k} : toClient'[j] = toClient[j]
  BY ReplyUnder
<1>2. /\ Under(toServer'[k]) \subseteq Under(toServer[k])
      /\ \A j \in Conn \ {k} : toServer'[j] = toServer[j]
  BY ConsumeUnder
<1>3. MoveAt(k)
  BY <1>1, <1>2 DEF MoveAt
<1>4. QED  BY <1>1, <1>2, <1>3, OneMoves

(* Every step of a session.                                                *)
LEMMA SessionMoves ==
  ASSUME IInv, NEW k \in Conn, Server(k) \/ TurnAway(k) \/ RefuseAuth(k)
  PROVE  ServerMove
<1>1. UNCHANGED <<final, cpc, conn, adv>>
  BY DEF Server, Greet, Authenticate, CheckVersion, StartTransfer, StreamChunk, PollControl,
     ResumeStream, HoldExpires, FinishStream, TakeResult, SessionFails, Release, CloseConn,
     TurnAway, RefuseAuth, runVars, callVars, fileVars
<1>2. PubInv /\ SrvInv /\ NetInv
  BY DEF IInv
<1>3. CASE Greet(k)
  <2>1. Reply(k, <<Plain("HELLO")>>) /\ Goto(k, "auth") /\ spc[k] = "new"
        /\ UNCHANGED <<snap, toServer>>
    BY <1>3 DEF Greet
  <2>2. Forward(k) /\ spc'[k] = "auth" /\ \A j \in Conn \ {k} : spc'[j] = spc[j]
    BY <1>2, <2>1, GotoAt DEF Forward
  <2>3. Plain("HELLO") \in SoundMsg /\ Plain("HELLO").type = "HELLO"
    BY <1>2, ServerMessages, MessageTypes
  <2>4. QED  BY <1>1, <1>2, <2>1, <2>2, <2>3, ReplyMoves
<1>4. CASE Authenticate(k)
  <2>1. HasInput(k) /\ Consume(k) /\ spc[k] = "auth" /\ UNCHANGED snap
    BY <1>4 DEF Authenticate, Arrived
  <2>2. CASE CanReserve
    <3>1. Reply(k, <<Plain("AUTH_OK")>>) /\ Goto(k, "version") /\ holder = NoConn
      BY <1>4, <2>2 DEF Authenticate, CanReserve
    <3>2. Forward(k) /\ spc'[k] = "version" /\ \A j \in Conn \ {k} : spc'[j] = spc[j]
      BY <1>2, <2>1, <3>1, GotoAt DEF Forward
    <3>3. Plain("AUTH_OK") \in SoundMsg /\ Plain("AUTH_OK").type = "AUTH_OK"
      BY <1>2, ServerMessages, MessageTypes
    <3>4. QED  BY <1>1, <1>2, <2>1, <3>1, <3>2, <3>3, ReplyMoves
  <2>3. CASE ~CanReserve
    <3>1. Reply(k, <<Msg("ERROR", "DUPLICATE_CLIENT")>>) /\ Goto(k, "close")
      BY <1>4, <2>3 DEF Authenticate
    <3>2. Forward(k) /\ spc'[k] = "close" /\ \A j \in Conn \ {k} : spc'[j] = spc[j]
      BY <1>2, <2>1, <3>1, GotoAt DEF Forward, Over
    <3>3. Msg("ERROR", "DUPLICATE_CLIENT") \in SoundMsg
          /\ Msg("ERROR", "DUPLICATE_CLIENT").type = "ERROR"
      BY <1>2, ServerMessages, MessageTypes
    <3>4. QED  BY <1>1, <1>2, <2>1, <3>1, <3>2, <3>3, ReplyMoves
  <2>4. QED  BY <2>2, <2>3
<1>5. CASE RefuseAuth(k)
  <2>1. HasInput(k) /\ Consume(k) /\ spc[k] = "auth" /\ UNCHANGED snap /\ Goto(k, "close")
    BY <1>5 DEF RefuseAuth, Arrived
  <2>2. PICK code \in {"AUTH_FAIL", "SERVER_BUSY"} : Reply(k, <<Msg("ERROR", code)>>)
    BY <1>5 DEF RefuseAuth
  <2>3. Msg("ERROR", code) \in SoundMsg
    BY <1>2, ServerMessages
  <2>4. Forward(k) /\ spc'[k] = "close" /\ \A j \in Conn \ {k} : spc'[j] = spc[j]
    BY <1>2, <2>1, GotoAt DEF Forward, Over
  <2>5. Msg("ERROR", code).type = "ERROR"
    BY MessageTypes
  <2>6. QED  BY <1>1, <1>2, <2>1, <2>2, <2>3, <2>4, <2>5, ReplyMoves
<1>6. CASE CheckVersion(k)
  <2>1. /\ HasInput(k) /\ Consume(k) /\ spc[k] = "version"
        /\ snap'[k] = manifest /\ \A j \in Conn \ {k} : snap'[j] = snap[j]
    BY <1>2, <1>6 DEF CheckVersion, Arrived, SrvInv
  <2>2. CASE Uptodate(Head(toServer[k]).arg, manifest)
    <3>1. Reply(k, <<Plain("UPTODATE"), Plain("BYE")>>) /\ Goto(k, "release")
      BY <1>6, <2>2 DEF CheckVersion
    <3>2. Forward(k) /\ spc'[k] = "release" /\ \A j \in Conn \ {k} : spc'[j] = spc[j]
      BY <1>2, <2>1, <3>1, GotoAt DEF Forward, Over
    <3>3. /\ Under(toClient'[k]) = Under(toClient[k]) \cup {Plain("UPTODATE"), Plain("BYE")}
          /\ \A j \in Conn \ {k} : toClient'[j] = toClient[j]
      BY <1>2, <3>1, ReplyTwo, ServerMessages
    <3>4. MoveAt(k)
      BY <1>2, <2>1, <3>2, <3>3, ConsumeUnder, MessageTypes DEF MoveAt
    <3>5. QED  BY <1>1, <1>2, <2>1, <3>2, <3>3, <3>4, ConsumeUnder, OneMoves
  <2>3. CASE ~Uptodate(Head(toServer[k]).arg, manifest)
    <3>1. Reply(k, <<Msg("UPDATE_AVAILABLE", manifest)>>) /\ Goto(k, "download")
      BY <1>6, <2>3 DEF CheckVersion
    <3>2. Forward(k) /\ spc'[k] = "download" /\ \A j \in Conn \ {k} : spc'[j] = spc[j]
      BY <1>2, <2>1, <3>1, GotoAt DEF Forward
    <3>3. Msg("UPDATE_AVAILABLE", manifest) \in SoundMsg
          /\ Msg("UPDATE_AVAILABLE", manifest).type = "UPDATE_AVAILABLE"
          /\ Msg("UPDATE_AVAILABLE", manifest).arg = manifest
      BY <1>2, ServerMessages, MessageTypes
    <3>4. QED  BY <1>1, <1>2, <2>1, <3>1, <3>2, <3>3, ReplyMoves
  <2>4. QED  BY <2>2, <2>3
<1>7. CASE StartTransfer(k)
  <2>1. HasInput(k) /\ Consume(k) /\ spc[k] = "download" /\ UNCHANGED snap
    BY <1>7 DEF StartTransfer, Arrived
  <2>2. CASE Offset(k) > Len(snap[k].digest)
    <3>1. Reply(k, <<Msg("ERROR", "BAD_REQUEST")>>) /\ Goto(k, "release")
      BY <1>7, <2>2 DEF StartTransfer
    <3>2. Forward(k) /\ spc'[k] = "release" /\ \A j \in Conn \ {k} : spc'[j] = spc[j]
      BY <1>2, <2>1, <3>1, GotoAt DEF Forward, Over
    <3>3. Msg("ERROR", "BAD_REQUEST") \in SoundMsg /\ Msg("ERROR", "BAD_REQUEST").type = "ERROR"
      BY <1>2, ServerMessages, MessageTypes
    <3>4. QED  BY <1>1, <1>2, <2>1, <3>1, <3>2, <3>3, ReplyMoves
  <2>3. CASE ~(Offset(k) > Len(snap[k].digest))
    <3>1. UNCHANGED toClient /\ (Goto(k, "release") \/ Goto(k, "stream"))
      BY <1>7, <2>3 DEF StartTransfer
    <3>2. spc'[k] \in {"release", "stream"} /\ \A j \in Conn \ {k} : spc'[j] = spc[j]
      BY <1>2, <3>1, GotoAt
    <3>3. QED
      BY <1>1, <1>2, <2>1, <3>1, <3>2, OneMoves, ConsumeUnder DEF MoveAt, Forward, Over
  <2>4. QED  BY <2>2, <2>3
<1>8. CASE StreamChunk(k)
  <2>1. spc[k] = "stream" /\ UNCHANGED <<snap, toServer>>
    BY <1>8 DEF StreamChunk
  <2>2. CASE sent[k] < Len(disk[snap[k].ver])
    <3>1. Reply(k, <<Msg("DATA", disk[snap[k].ver][sent[k] + 1])>>) /\ UNCHANGED spc
      BY <1>8, <2>2 DEF StreamChunk
    <3>2. disk[snap[k].ver][sent[k] + 1] \in Block
      <4>1. snap[k].ver \in Version
        BY <1>2, <2>1 DEF SrvInv, Manifest
      <4>2. disk[snap[k].ver] \in Body /\ sent[k] \in Nat
        BY <1>2, <4>1 DEF PubInv, SrvInv
      <4>3. sent[k] + 1 \in 1..Len(disk[snap[k].ver])
        BY <2>2, <4>2, BodyBlocks
      <4>4. QED  BY <4>2, <4>3, BodyBlocks
    <3>3. Msg("DATA", disk[snap[k].ver][sent[k] + 1]) \in SoundMsg
      BY <1>2, <3>2, ServerMessages
    <3>4. Msg("DATA", disk[snap[k].ver][sent[k] + 1]).type = "DATA" /\ Forward(k)
      BY <2>1, <3>1, MessageTypes DEF Forward
    <3>5. QED  BY <1>1, <1>2, <2>1, <3>1, <3>3, <3>4, ReplyMoves
  <2>3. CASE ~(sent[k] < Len(disk[snap[k].ver]))
    <3>1. Goto(k, "release") /\ UNCHANGED toClient
      BY <1>8, <2>3 DEF StreamChunk
    <3>2. QED
      BY <1>1, <1>2, <2>1, <3>1, OneMoves, GotoAt DEF MoveAt, Forward, Over
  <2>4. QED  BY <2>2, <2>3
<1>9. CASE FinishStream(k)
  <2>1. spc[k] = "stream" /\ Goto(k, "result") /\ UNCHANGED <<snap, toServer>>
        /\ Reply(k, <<Msg("TRANSFER_DONE", snap[k].digest)>>)
    BY <1>9 DEF FinishStream
  <2>2. Msg("TRANSFER_DONE", snap[k].digest) \in SoundMsg
    BY <1>2, <2>1, ServerMessages DEF SrvInv, Manifest
  <2>3. Forward(k) /\ spc'[k] = "result" /\ \A j \in Conn \ {k} : spc'[j] = spc[j]
    BY <1>2, <2>1, GotoAt DEF Forward
  <2>4. Msg("TRANSFER_DONE", snap[k].digest).type = "TRANSFER_DONE"
    BY MessageTypes
  <2>5. QED  BY <1>1, <1>2, <2>1, <2>2, <2>3, <2>4, ReplyMoves
<1>10. CASE PollControl(k) \/ ResumeStream(k)
  <2>1. /\ spc[k] \in {"stream", "held"} /\ UNCHANGED <<snap, toClient>>
        /\ Goto(k, "held") \/ Goto(k, "stream") \/ Goto(k, "release")
        /\ (HasInput(k) /\ Consume(k)) \/ UNCHANGED toServer
    BY <1>10 DEF PollControl, ResumeStream, Arrived
  <2>2. spc'[k] \in {"held", "stream", "release"} /\ \A j \in Conn \ {k} : spc'[j] = spc[j]
    BY <1>2, <2>1, GotoAt
  <2>3. /\ Under(toServer'[k]) \subseteq Under(toServer[k])
        /\ \A j \in Conn \ {k} : toServer'[j] = toServer[j]
    BY <1>2, <2>1, ConsumeUnder
  <2>4. QED  BY <1>1, <2>1, <2>2, <2>3, OneMoves DEF MoveAt, Forward, Over
<1>11. CASE TakeResult(k)
  <2>1. HasInput(k) /\ Consume(k) /\ Goto(k, "release") /\ UNCHANGED snap
        /\ (Reply(k, <<Plain("BYE")>>) \/ UNCHANGED toClient)
    BY <1>11 DEF TakeResult
  <2>2. /\ \A m \in Under(toClient'[k]) \ Under(toClient[k]) : m.type = "BYE"
        /\ \A j \in Conn \ {k} : toClient'[j] = toClient[j]
    <3>1. CASE Reply(k, <<Plain("BYE")>>)
      BY <1>2, <3>1, ReplyUnder, ServerMessages, MessageTypes
    <3>2. CASE UNCHANGED toClient
      BY <3>2
    <3>3. QED  BY <2>1, <3>1, <3>2
  <2>3. QED
    BY <1>1, <1>2, <2>1, <2>2, OneMoves, GotoAt, ConsumeUnder DEF MoveAt, Forward, Over
<1>12. CASE HoldExpires(k) \/ SessionFails(k) \/ Release(k) \/ TurnAway(k)
  <2>1. /\ UNCHANGED <<snap, toClient, toServer>>
        /\ Goto(k, "release") \/ Goto(k, "close") \/ Goto(k, "none")
    BY <1>12 DEF HoldExpires, SessionFails, Cleanup, Release, TurnAway, netVars
  <2>2. spc'[k] \in Over /\ \A j \in Conn \ {k} : spc'[j] = spc[j]
    BY <1>2, <2>1, GotoAt DEF Over
  <2>3. QED  BY <1>1, <2>1, <2>2, OneMoves DEF MoveAt, Forward, Over
<1>13. CASE CloseConn(k)
  <2>1. Goto(k, "none") /\ \A j \in Conn \ {k} : snap'[j] = snap[j]
    BY <1>2, <1>13 DEF CloseConn, SrvInv
  <2>2. /\ \A j \in Conn \ {k} : toServer'[j] = toServer[j] /\ toClient'[j] = toClient[j]
        /\ toServer'[k] = toServer[k] \/ toServer'[k] = <<>>
        /\ toClient'[k] = toClient[k] \/ toClient'[k] = <<>>
    BY <1>2, <1>13 DEF CloseConn, NetInv, netVars
  <2>3. /\ Under(toServer'[k]) \subseteq Under(toServer[k])
        /\ Under(toClient'[k]) \subseteq Under(toClient[k])
    BY <2>2, UnderNone
  <2>4. QED  BY <1>1, <1>2, <2>1, <2>2, <2>3, OneMoves, GotoAt DEF MoveAt, Forward, Over
<1>14. QED
  BY <1>3, <1>4, <1>5, <1>6, <1>7, <1>8, <1>9, <1>10, <1>11, <1>12, <1>13 DEF Server

(* The steps of the network, of the operator and of the server process.    *)
LEMMA OthersMove ==
  ASSUME IInv,
         \/ \E k \in Conn : Reset(k) \/ Vanish(k) \/ GiveUp(k)
         \/ \E v \in Version, b \in Body : OverwritePackage(v, b)
         \/ \E v \in Version : Reload(v)
         \/ ServerStart \/ ServerCrash \/ UNCHANGED vars
  PROVE  ServerMove
<1>1. UNCHANGED <<final, cpc, conn, adv>>
  BY DEF Reset, Vanish, GiveUp, OverwritePackage, Reload, ServerStart, ServerCrash, runVars,
     callVars, fileVars, vars
<1>2. NetInv
  BY DEF IInv
<1>3. SUFFICES ASSUME NEW k \in Conn  PROVE MoveAt(k)
  BY <1>1 DEF ServerMove
<1>4. CASE ServerCrash
  <2>1. spc'[k] = "none" /\ (toServer'[k] = toServer[k] \/ toServer'[k] = <<>>)
        /\ UNCHANGED toClient
    BY <1>4 DEF ServerCrash
  <2>2. Under(toServer'[k]) \subseteq Under(toServer[k])
    BY <2>1, UnderNone
  <2>3. QED  BY <2>1, <2>2 DEF MoveAt, Forward, Over
<1>5. CASE \E j \in Conn : Reset(j)
  <2>1. PICK j \in Conn : Reset(j)
    BY <1>5
  <2>2. /\ UNCHANGED <<spc, snap>>
        /\ toClient' = [toClient EXCEPT ![j] = <<>>] /\ toServer' = [toServer EXCEPT ![j] = <<>>]
    BY <2>1 DEF Reset, srvVars
  <2>3. QED  BY <1>2, <2>2, StillMove DEF NetInv
<1>6. CASE UNCHANGED <<spc, snap, toServer, toClient>>
  BY <1>6, StillMove
<1>7. QED
  BY <1>4, <1>5, <1>6
  DEF Vanish, GiveUp, OverwritePackage, Reload, ServerStart, srvVars, netVars, vars
-----------------------------------------------------------------------------
(* The client's steps                                                      *)

(* Every way out of an attempt.                                            *)
LEMMA LeavingKeeps ==
  ASSUME IInv, SessionInv, UNCHANGED <<spc, snap, final>>, Disconnect, cpc' \in {"off", "connect"}
  PROVE  SessionInv'
<1>1. ASSUME NEW k \in Conn
      PROVE  /\ Under(toClient'[k]) \subseteq Under(toClient[k])
             /\ Under(toServer'[k]) \subseteq Under(toServer[k])
  <2>1. /\ toClient'[k] = toClient[k] \/ toClient'[k] = <<>>
        /\ toServer'[k] = toServer[k] \/ toServer'[k] = <<>>
    <3>1. CASE conn \in dead \cup {NoConn}
      BY <3>1 DEF Disconnect, netVars
    <3>2. CASE conn \notin dead \cup {NoConn}
      BY <3>2 DEF Disconnect, IInv, NetInv
    <3>3. QED  BY <3>1, <3>2
  <2>2. QED  BY <2>1, UnderNone
<1>2. conn' = NoConn /\ \A k \in Conn : conn' # k
  BY ProtocolAssumption DEF Disconnect
<1>3. ASSUME NEW k \in Conn
      PROVE (\A m : Offered(k, m)' <=> Offered(k, m)) /\ (Done(k)' <=> Done(k))
  BY DEF Offered, Done
<1>4. ChanInv'
  BY <1>1, <1>3 DEF SessionInv, ChanInv
<1>5. StageInv'
  BY <1>2 DEF StageInv, Downloading
<1>6. ConfirmInv'
  BY <1>1 DEF SessionInv, ConfirmInv, Confirm
<1>7. QED  BY <1>4, <1>5, <1>6 DEF SessionInv

(* What the client does on its connection: it may take a message from it   *)
(* and send one on it.                                                     *)
Talks(msg) ==
  /\ conn \in Conn /\ UNCHANGED <<spc, snap, conn>>
  /\ \A k \in Conn : /\ Under(toClient'[k]) \subseteq Under(toClient[k])
                     /\ k # conn => Under(toServer'[k]) \subseteq Under(toServer[k])
                     /\ Under(toServer'[k]) \subseteq Under(toServer[k]) \cup {msg}

(* What the client says keeps the invariant when it is entitled to say     *)
(* it.                                                                     *)
LEMMA TalkingKeeps ==
  ASSUME SessionInv, NEW msg, Talks(msg), msg # Confirm, UNCHANGED final,
         msg.type = "RESULT" => Done(conn),
         cpc \in {"bye", "record"} => cpc' \in {"bye", "record"},
         cpc' \in Downloading => Offered(conn, adv'),
         cpc' \in {"verify", "mismatch", "rename", "bye", "record"} => Done(conn),
         \/ cpc \in {"hello", "auth"} /\ cpc' \in {"hello", "auth"}
         \/ cpc \in {"hello", "auth"} /\ \E m \in Under(toClient[conn]) : m.type = "AUTH_OK"
         \/ cpc \notin {"off", "connect", "hello", "auth"}
  PROVE  SessionInv'
<1>1. ASSUME NEW k \in Conn
      PROVE (\A m : Offered(k, m)' <=> Offered(k, m)) /\ (Done(k)' <=> Done(k))
  BY DEF Offered, Done, Talks
<1>2. ChanInv'
  <2>1. ASSUME NEW k \in Conn, NEW m \in Under(toServer'[k]), m.type = "RESULT"
        PROVE  Done(k)
    BY <2>1 DEF SessionInv, ChanInv, Talks
  <2>2. ASSUME NEW k \in Conn, NEW m \in Under(toClient'[k])
        PROVE  /\ m.type = "UPDATE_AVAILABLE" => Offered(k, m.arg)
               /\ m.type = "TRANSFER_DONE" => Done(k)
    BY <2>2 DEF SessionInv, ChanInv, Talks
  <2>3. QED  BY <1>1, <2>1, <2>2 DEF ChanInv
<1>3. StageInv'
  <2>1. conn' = conn
    BY DEF Talks
  <2>2. cpc' \in Downloading => Offered(conn, adv)'
    BY <2>1 DEF Talks, Offered
  <2>3. Done(conn)' <=> Done(conn)
    BY <2>1 DEF Done, Talks
  <2>4. \A k \in Conn : k = conn /\ Confirm \in Under(toServer'[k]) => cpc' \in {"bye", "record"}
    BY DEF Talks, SessionInv, StageInv
  <2>5. QED  BY <2>1, <2>2, <2>3, <2>4 DEF StageInv, Confirm
<1>4. ConfirmInv'
  <2>1. SUFFICES ASSUME NEW k \in Conn, spc[k] = "result", Confirm \in Under(toServer'[k])
                 PROVE  /\ final[snap[k].ver] = snap[k].digest
                        /\ conn # k => cpc' \in {"off", "connect", "hello", "auth"}
                        /\ conn # k /\ cpc' \in {"hello", "auth"} =>
                             \A m \in Under(toClient'[conn]) : m.type # "AUTH_OK"
    BY DEF ConfirmInv, Confirm, Talks
  <2>2. Confirm \in Under(toServer[k])
    BY <2>1 DEF Talks
  <2>3. conn # k => cpc \in {"hello", "auth"} /\ cpc' \in {"hello", "auth"}
    BY <2>1, <2>2 DEF SessionInv, ConfirmInv
  <2>4. QED  BY <2>1, <2>2, <2>3 DEF SessionInv, ConfirmInv, Talks
<1>5. QED  BY <1>2, <1>3, <1>4 DEF SessionInv

(* What the client's reading of a message leaves in its channel.           *)
LEMMA TakeUnder ==
  ASSUME NetInv, conn \in Conn, HasMessage, TakeMessage
  PROVE  /\ toClient'[conn] = Tail(toClient[conn])
         /\ \A k \in Conn : Under(toClient'[k]) \subseteq Under(toClient[k])
         /\ Head(toClient[conn]) \in Under(toClient[conn])
<1>1. toClient \in [Conn -> Seq(SoundMsg)] /\ toClient[conn] \in Seq(SoundMsg)
      /\ toClient[conn] # <<>>
  BY DEF NetInv, HasMessage
<1>2. toClient'[conn] = Tail(toClient[conn]) /\ \A k \in Conn \ {conn} : toClient'[k] = toClient[k]
  BY <1>1 DEF TakeMessage
<1>3. Under(Tail(toClient[conn])) \subseteq Under(toClient[conn])
      /\ Head(toClient[conn]) \in Under(toClient[conn])
  BY <1>1, UnderTake
<1>4. QED  BY <1>2, <1>3

(* What the client's sending puts into its channel: the message, or        *)
(* nothing when the connection is broken.                                  *)
LEMMA SendUnder ==
  ASSUME NetInv, conn \in Conn, NEW msg \in ToServerMsg, Send(msg)
  PROVE  /\ \A k \in Conn \ {conn} : toServer'[k] = toServer[k]
         /\ toServer'[conn] = toServer[conn] \/ toServer'[conn] = Append(toServer[conn], msg)
         /\ \A k \in Conn : Under(toServer'[k]) \subseteq Under(toServer[k]) \cup {msg}
<1>1. toServer \in [Conn -> Seq(ToServerMsg)] /\ toServer[conn] \in Seq(ToServerMsg)
  BY DEF NetInv
<1>2. /\ \A k \in Conn \ {conn} : toServer'[k] = toServer[k]
      /\ toServer'[conn] = toServer[conn] \/ toServer'[conn] = Append(toServer[conn], msg)
  BY <1>1 DEF Send
<1>3. Under(Append(toServer[conn], msg)) = Under(toServer[conn]) \cup {msg}
  <2>1. \A q \in Seq(ToServerMsg) : Under(Append(q, msg)) = Under(q) \cup {msg}
    BY UnderAppend
  <2>2. QED  BY <1>1, <2>1
<1>4. ASSUME NEW k \in Conn  PROVE Under(toServer'[k]) \subseteq Under(toServer[k]) \cup {msg}
  <2>1. CASE k = conn /\ toServer'[conn] = Append(toServer[conn], msg)
    BY <1>3, <2>1
  <2>2. CASE toServer'[k] = toServer[k]
    BY <2>2
  <2>3. QED  BY <1>2, <2>1, <2>2
<1>5. QED  BY <1>2, <1>4

(* The messages a client sends, and none.                                  *)
LEMMA SentTypes ==
  /\ Plain("AUTH").type = "AUTH" /\ Plain("PAUSE").type = "PAUSE" /\ Plain("RESUME").type = "RESUME"
  /\ \A v : Msg("VERSION_REQ", v).type = "VERSION_REQ"
     /\ Msg("DOWNLOAD_REQ", v).type = "DOWNLOAD_REQ"
  /\ Msg("RESULT", "checksum_fail").type = "RESULT" /\ Msg("RESULT", "checksum_fail") # Confirm
  /\ Confirm.type = "RESULT"
BY DEF Plain, Msg, Confirm

(* A step that sends nothing is talking too.                               *)
LEMMA NoTalk ==
  ASSUME conn \in Conn, UNCHANGED <<spc, snap, conn, toServer>>, NEW msg,
         \A k \in Conn : Under(toClient'[k]) \subseteq Under(toClient[k])
  PROVE  Talks(msg)
BY DEF Talks

(* So is one that sends a message, and may have read one.                  *)
LEMMA TakeAndSend ==
  ASSUME NetInv, conn \in Conn, NEW msg \in ToServerMsg, Send(msg), UNCHANGED <<spc, snap, conn>>,
         (TakeMessage /\ HasMessage) \/ UNCHANGED toClient
  PROVE  Talks(msg)
BY TakeUnder, SendUnder DEF Talks

(* A step of the client that leaves it on its connection.                  *)
LEMMA ConnectedKeeps ==
  ASSUME IInv, SessionInv,
         \/ RecvHello \/ RecvAuthOk \/ RecvUpdateAvailable
         \/ (RecvData /\ cpc' = "recv") \/ (RecvTransferDone /\ cpc' = "verify")
         \/ (GuiPause /\ cpc' = "paused") \/ (GuiResume /\ cpc' = "recv")
         \/ Verify \/ RecvBye
  PROVE  SessionInv'
<1>1. NetInv /\ RunInv /\ cpc \notin {"off", "connect"} /\ conn \in Conn
  BY DEF IInv, RunInv, Connected, ClientPC, RecvHello, RecvAuthOk, RecvUpdateAvailable, RecvData,
     RecvTransferDone, GuiPause, GuiResume, Verify, RecvBye
<1>2. StageInv /\ ChanInv
  BY DEF SessionInv
<1>3. CASE RecvHello
  <2>1. Plain("AUTH") \in ToServerMsg /\ Send(Plain("AUTH")) /\ TakeMessage /\ HasMessage
        /\ UNCHANGED <<spc, snap, conn, final>> /\ cpc = "hello" /\ cpc' = "auth"
    BY <1>3, ClientMessages DEF RecvHello, Received, srvVars, callVars, fileVars
  <2>2. Talks(Plain("AUTH"))
    BY <1>1, <2>1, TakeAndSend
  <2>3. QED  BY <2>1, <2>2, TalkingKeeps, SentTypes DEF Downloading
<1>4. CASE RecvAuthOk
  <2>1. Msg("VERSION_REQ", cur) \in ToServerMsg /\ Send(Msg("VERSION_REQ", cur)) /\ TakeMessage
        /\ HasMessage /\ UNCHANGED <<spc, snap, conn, final>> /\ cpc = "auth" /\ cpc' = "version"
        /\ Head(toClient[conn]).type = "AUTH_OK"
    BY <1>1, <1>4, ClientMessages DEF RecvAuthOk, Received, srvVars, callVars, fileVars, RunInv
  <2>2. Talks(Msg("VERSION_REQ", cur))
    BY <1>1, <2>1, TakeAndSend
  <2>3. \E m \in Under(toClient[conn]) : m.type = "AUTH_OK"
    BY <1>1, <2>1, TakeUnder
  <2>4. Msg("VERSION_REQ", cur).type = "VERSION_REQ" /\ Msg("VERSION_REQ", cur) # Confirm
    BY SentTypes
  <2>5. QED  BY <2>1, <2>2, <2>3, <2>4, TalkingKeeps DEF Downloading
<1>5. CASE RecvUpdateAvailable
  <2> DEFINE offer == Head(toClient[conn]).arg
             kept == IF Len(part[offer.ver]) > Len(offer.digest) THEN <<>> ELSE part[offer.ver]
             msg == Msg("DOWNLOAD_REQ", Len(kept))
  <2>1. /\ Send(msg) /\ TakeMessage /\ HasMessage /\ UNCHANGED <<spc, snap, conn, final>>
        /\ cpc = "version" /\ cpc' = "recv" /\ adv' = offer
        /\ Head(toClient[conn]).type = "UPDATE_AVAILABLE"
    BY <1>5 DEF RecvUpdateAvailable, Received, srvVars
  <2>2. Head(toClient[conn]) \in Under(toClient[conn]) /\ Head(toClient[conn]) \in SoundMsg
    BY <1>1, <2>1, TakeUnder, TakeStep
  <2>3. msg \in ToServerMsg
    <3>1. offer.ver \in Version
      BY <2>1, <2>2, ServerArguments, ManifestFields DEF IInv, PubInv
    <3>2. Len(kept) \in Nat
      BY <3>1 DEF IInv, FileInv
    <3>3. QED  BY <3>2, ClientMessages
  <2>4. Offered(conn, offer)
    BY <1>1, <1>2, <2>1, <2>2 DEF ChanInv
  <2>5. msg.type = "DOWNLOAD_REQ" /\ msg # Confirm
    BY SentTypes
  <2> HIDE DEF msg, offer
  <2>6. Talks(msg)
    BY <1>1, <2>1, <2>3, TakeAndSend
  <2>7. QED  BY <2>1, <2>4, <2>5, <2>6, TalkingKeeps DEF Downloading
<1>6. CASE RecvData /\ cpc' = "recv"
  <2>1. UNCHANGED <<cpc, conn, adv, spc, snap, final, toServer>> /\ cpc = "recv"
        /\ ((TakeMessage /\ HasMessage) \/ UNCHANGED toClient)
    BY <1>6 DEF RecvData, Received, EndAttempt, Off, srvVars, runVars, callVars
  <2>2. \A k \in Conn : Under(toClient'[k]) \subseteq Under(toClient[k])
    BY <1>1, <2>1, TakeUnder
  <2>3. Talks(Plain("AUTH"))
    BY <1>1, <2>1, <2>2, NoTalk
  <2>4. QED  BY <1>2, <2>1, <2>3, TalkingKeeps, SentTypes DEF Downloading, StageInv
<1>7. CASE RecvTransferDone /\ cpc' = "verify"
  <2>1. UNCHANGED <<conn, adv, spc, snap, final, toServer>> /\ cpc = "recv" /\ TakeMessage
        /\ HasMessage
        /\ Head(toClient[conn]).type = "TRANSFER_DONE"
    BY <1>7 DEF RecvTransferDone, Received, EndAttempt, Off, srvVars, callVars
  <2>2. Head(toClient[conn]) \in Under(toClient[conn])
        /\ \A k \in Conn : Under(toClient'[k]) \subseteq Under(toClient[k])
    BY <1>1, <2>1, TakeUnder
  <2>3. Done(conn)
    BY <1>1, <1>2, <2>1, <2>2 DEF ChanInv
  <2>4. Talks(Plain("AUTH"))
    BY <1>1, <2>1, <2>2, NoTalk
  <2>5. QED  BY <1>2, <1>7, <2>1, <2>3, <2>4, TalkingKeeps, SentTypes DEF Downloading, StageInv
<1>8. CASE GuiPause /\ cpc' = "paused"
  <2>1. Send(Plain("PAUSE")) /\ UNCHANGED <<conn, adv, spc, snap, final, toClient>> /\ cpc = "recv"
    BY <1>8 DEF GuiPause, EndAttempt, Off, srvVars, callVars
  <2>2. Talks(Plain("PAUSE"))
    BY <1>1, <2>1, TakeAndSend, ClientMessages
  <2>3. QED  BY <1>2, <1>8, <2>1, <2>2, TalkingKeeps, SentTypes DEF Downloading, StageInv
<1>9. CASE GuiResume /\ cpc' = "recv"
  <2>1. Send(Plain("RESUME")) /\ UNCHANGED <<conn, adv, spc, snap, final, toClient>>
        /\ cpc = "paused"
    BY <1>9 DEF GuiResume, EndAttempt, Off, srvVars, callVars, fileVars
  <2>2. Talks(Plain("RESUME"))
    BY <1>1, <2>1, TakeAndSend, ClientMessages
  <2>3. QED  BY <1>2, <1>9, <2>1, <2>2, TalkingKeeps, SentTypes DEF Downloading, StageInv
<1>10. CASE Verify
  <2> DEFINE msg == Msg("RESULT", "checksum_fail")
  <2>1. UNCHANGED <<conn, adv, spc, snap, final, toClient>> /\ cpc = "verify"
        /\ cpc' \in {"rename", "mismatch"} /\ (Send(msg) \/ UNCHANGED toServer)
    BY <1>10 DEF Verify, SendResult, srvVars, callVars
  <2>2. Done(conn) /\ Offered(conn, adv)
    BY <1>2, <2>1 DEF StageInv, Downloading
  <2>3. Talks(msg)
    BY <1>1, <2>1, TakeAndSend, NoTalk, ClientMessages
  <2>4. QED  BY <2>1, <2>2, <2>3, TalkingKeeps, SentTypes
<1>11. CASE RecvBye
  <2>1. UNCHANGED <<conn, adv, spc, snap, final, toServer>> /\ cpc = "bye" /\ cpc' = "record"
        /\ ((TakeMessage /\ HasMessage) \/ UNCHANGED toClient)
    BY <1>11 DEF RecvBye, srvVars, callVars, fileVars
  <2>2. \A k \in Conn : Under(toClient'[k]) \subseteq Under(toClient[k])
    BY <1>1, <2>1, TakeUnder
  <2>3. Talks(Plain("AUTH"))
    BY <1>1, <2>1, <2>2, NoTalk
  <2>4. QED  BY <1>2, <2>1, <2>3, TalkingKeeps, SentTypes DEF Downloading, StageInv
<1>12. QED  BY <1>3, <1>4, <1>5, <1>6, <1>7, <1>8, <1>9, <1>10, <1>11

(* The rename puts in place what the pending RESULT will confirm.          *)
LEMMA RenameKeeps ==
  ASSUME IInv, SessionInv, Rename
  PROVE  SessionInv'
<1>1. /\ cpc = "rename" /\ cpc' = "bye" /\ UNCHANGED <<spc, snap, toClient, conn, adv>>
      /\ final' = [final EXCEPT ![adv.ver] = part[adv.ver]]
      /\ Send(Confirm) \/ UNCHANGED toServer
  BY DEF Rename, SendResult, Confirm, srvVars, callVars
<1>2. conn \in Conn /\ adv \in Manifest /\ adv.ver \in Version /\ part[adv.ver] = adv.digest
      /\ final \in [Version -> Body \cup {NoBody}]
  BY <1>1 DEF IInv, RunInv, Connected, Downloading, ClientPC, FileInv, PubInv, Manifest
<1>3. Offered(conn, adv) /\ Done(conn)
  BY <1>1 DEF SessionInv, StageInv, Downloading
<1>4. /\ \A k \in Conn : Under(toServer'[k]) \subseteq Under(toServer[k]) \cup {Confirm}
      /\ \A k \in Conn \ {conn} : Under(toServer'[k]) = Under(toServer[k])
  BY <1>1, <1>2, SendUnder, ClientMessages DEF IInv, Confirm
<1>5. ASSUME NEW k \in Conn
      PROVE (\A m : Offered(k, m)' <=> Offered(k, m)) /\ (Done(k)' <=> Done(k))
  BY <1>1 DEF Offered, Done
<1>6. ChanInv'
  <2>1. ASSUME NEW k \in Conn, NEW m \in Under(toServer'[k]), m.type = "RESULT"
        PROVE  Done(k)
    BY <1>3, <1>4, <2>1 DEF SessionInv, ChanInv
  <2>2. QED  BY <1>1, <1>5, <2>1 DEF SessionInv, ChanInv
<1>7. StageInv'
  <2>1. Offered(conn, adv)' /\ Done(conn)'
    BY <1>1, <1>3 DEF Offered, Done
  <2>2. QED  BY <1>1, <2>1 DEF StageInv
<1>8. ConfirmInv'
  <2>1. SUFFICES ASSUME NEW k \in Conn, spc[k] = "result", Confirm \in Under(toServer'[k])
                 PROVE  k = conn /\ final'[snap[k].ver] = snap[k].digest
    BY <1>1 DEF ConfirmInv, Confirm
  <2>2. k = conn
    BY <1>1, <1>4, <2>1 DEF SessionInv, ConfirmInv
  <2>3. snap[k] = adv
    BY <1>3, <2>1, <2>2 DEF Offered, Over
  <2>4. QED  BY <1>1, <1>2, <2>2, <2>3
<1>9. QED  BY <1>6, <1>7, <1>8 DEF SessionInv

(* A new connection, whose channels are empty.                             *)
LEMMA ConnectKeeps ==
  ASSUME IInv, SessionInv, NEW c \in Conn, Connect(c)
  PROVE  SessionInv'
<1>1. /\ spc \in [Conn -> ServerPC] /\ toClient \in [Conn -> Seq(SoundMsg)]
      /\ toServer \in [Conn -> Seq(ToServerMsg)]
  BY DEF IInv, SrvInv, NetInv
<1>2. /\ spc'[c] = "new" /\ toClient'[c] = <<>> /\ toServer'[c] = <<>>
      /\ \A k \in Conn \ {c} : /\ spc'[k] = spc[k]
                               /\ toClient'[k] = toClient[k] /\ toServer'[k] = toServer[k]
      /\ UNCHANGED <<snap, final>> /\ conn' = c /\ cpc = "connect" /\ cpc' = "hello"
  BY <1>1 DEF Connect, fileVars
<1>3. Under(toClient'[c]) = {} /\ Under(toServer'[c]) = {}
  BY <1>2, UnderNone
<1>4. ChanInv'
  <2>1. ASSUME NEW k \in Conn \ {c}
        PROVE  (\A m : Offered(k, m)' <=> Offered(k, m)) /\ (Done(k)' <=> Done(k))
    BY <1>2 DEF Offered, Done
  <2>2. ASSUME NEW k \in Conn, NEW m \in Under(toClient'[k])
        PROVE  /\ m.type = "UPDATE_AVAILABLE" => Offered(k, m.arg)'
               /\ m.type = "TRANSFER_DONE" => Done(k)'
    BY <1>2, <1>3, <2>1, <2>2 DEF SessionInv, ChanInv
  <2>3. ASSUME NEW k \in Conn, NEW m \in Under(toServer'[k]), m.type = "RESULT"
        PROVE  Done(k)'
    BY <1>2, <1>3, <2>1, <2>3 DEF SessionInv, ChanInv
  <2>4. QED  BY <2>2, <2>3 DEF ChanInv
<1>5. StageInv'
  BY <1>2, <1>3 DEF StageInv, Downloading, Confirm
<1>6. ConfirmInv'
  <2>1. SUFFICES ASSUME NEW k \in Conn, spc'[k] = "result", Confirm \in Under(toServer'[k])
                 PROVE  final[snap[k].ver] = snap[k].digest
    BY <1>2, <1>3 DEF ConfirmInv, Confirm
  <2>2. k # c /\ spc[k] = "result" /\ Confirm \in Under(toServer[k])
    BY <1>2, <2>1
  <2>3. QED  BY <2>2 DEF SessionInv, ConfirmInv
<1>7. QED  BY <1>4, <1>5, <1>6 DEF SessionInv

(* The user starts the client.                                             *)
LEMMA StartKeeps ==
  ASSUME SessionInv, Start
  PROVE  SessionInv'
<1>1. UNCHANGED <<spc, snap, toClient, toServer, conn, final>> /\ cpc = "off" /\ cpc' = "connect"
  BY DEF Start, srvVars, netVars, fileVars
<1>2. ChanInv'
  <2>1. ASSUME NEW k \in Conn
        PROVE (\A m : Offered(k, m)' <=> Offered(k, m)) /\ (Done(k)' <=> Done(k))
    BY <1>1 DEF Offered, Done
  <2>2. QED  BY <1>1, <2>1 DEF SessionInv, ChanInv
<1>3. StageInv'
  BY <1>1 DEF SessionInv, StageInv, Downloading, Confirm
<1>4. ConfirmInv'
  BY <1>1 DEF SessionInv, ConfirmInv, Confirm
<1>5. QED  BY <1>2, <1>3, <1>4 DEF SessionInv

(* A stop request closes an end, no more.                                  *)
LEMMA StopMoves ==
  ASSUME Stop
  PROVE  ServerMove
<1>1. UNCHANGED <<spc, snap, toClient, toServer, final, cpc, conn, adv>>
  BY DEF Stop, srvVars, fileVars
<1>2. QED  BY <1>1, StillMove DEF ServerMove

(* The end of an attempt leaves the connection.                            *)
LEMMA EndLeaves ==
  ASSUME NEW result, EndAttempt(result)
  PROVE  Disconnect /\ cpc' \in {"off", "connect"}
BY DEF EndAttempt, Off

(* Every step keeps it.                                                    *)
LEMMA SessionStep ==
  ASSUME IInv, SessionInv, [Next]_vars
  PROVE  SessionInv'
<1>1. ASSUME ServerMove  PROVE SessionInv'
  BY <1>1, ServerMoveKeeps
<1>2. ASSUME NEW result, EndAttempt(result), UNCHANGED <<spc, snap, final>>  PROVE SessionInv'
  BY <1>2, EndLeaves, LeavingKeeps
<1>3. CASE Client
  <2>1. CASE ConnectFails \/ RecvError \/ RecvUptodate \/ RecvFails \/ GuiPauseEnds
        \/ DropMismatch \/ Record
    BY <1>2, <2>1 DEF ConnectFails, RecvError, RecvUptodate, RecvFails, GuiPauseEnds, DropMismatch,
       Record, AttemptFails, srvVars, fileVars
  <2>2. CASE RecvHello \/ RecvAuthOk \/ RecvUpdateAvailable \/ Verify \/ RecvBye
    BY <2>2, ConnectedKeeps
  <2>3. CASE RecvData
    <3>1. CASE cpc' = "recv"
      BY <2>3, <3>1, ConnectedKeeps
    <3>2. CASE EndAttempt("FATAL")
      BY <1>2, <2>3, <3>2 DEF RecvData, srvVars
    <3>3. QED  BY <2>3, <3>1, <3>2 DEF RecvData, runVars
  <2>4. CASE RecvTransferDone
    <3>1. CASE cpc' = "verify"
      BY <2>4, <3>1, ConnectedKeeps
    <3>2. CASE EndAttempt("RETRY")
      BY <1>2, <2>4, <3>2 DEF RecvTransferDone, srvVars
    <3>3. QED  BY <2>4, <3>1, <3>2 DEF RecvTransferDone
  <2>5. CASE Rename
    BY <2>5, RenameKeeps
  <2>6. CASE \E k \in Conn : Connect(k)
    BY <2>6, ConnectKeeps
  <2>7. QED  BY <1>3, <2>1, <2>2, <2>3, <2>4, <2>5, <2>6 DEF Client
<1>4. CASE Environment
  <2>1. CASE GuiPause
    <3>1. CASE cpc' = "paused"
      BY <2>1, <3>1, ConnectedKeeps
    <3>2. CASE EndAttempt("RETRY")
      BY <1>2, <2>1, <3>2 DEF GuiPause, srvVars
    <3>3. QED  BY <2>1, <3>1, <3>2 DEF GuiPause
  <2>2. CASE GuiResume
    <3>1. CASE cpc' = "recv"
      BY <2>2, <3>1, ConnectedKeeps
    <3>2. CASE EndAttempt("RESUME_RECONNECT")
      BY <1>2, <2>2, <3>2 DEF GuiResume, srvVars, fileVars
    <3>3. QED  BY <2>2, <3>1, <3>2 DEF GuiResume
  <2>3. CASE LocalFailure
    BY <1>2, <2>3 DEF LocalFailure, srvVars, fileVars
  <2>4. CASE ClientCrash
    BY <2>4, LeavingKeeps DEF ClientCrash, Off, srvVars
  <2>5. CASE Start
    BY <2>5, StartKeeps
  <2>6. CASE Stop
    BY <1>1, <2>6, StopMoves
  <2>7. CASE \E k \in Conn : TurnAway(k) \/ RefuseAuth(k)
    BY <1>1, <2>7, SessionMoves
  <2>8. CASE \/ \E k \in Conn : Reset(k) \/ Vanish(k)
             \/ \E v \in Version, b \in Body : OverwritePackage(v, b)
             \/ (\E v \in Version : Reload(v)) \/ ServerCrash
    BY <1>1, <2>8, OthersMove
  <2>9. QED
    BY <1>4, <2>1, <2>2, <2>3, <2>4, <2>5, <2>6, <2>7, <2>8 DEF Environment
<1>5. CASE ServerStart \/ (\E k \in Conn : GiveUp(k)) \/ UNCHANGED vars
  BY <1>1, <1>5, OthersMove
<1>6. CASE \E k \in Conn : Server(k)
  BY <1>1, <1>6, SessionMoves
<1>7. QED  BY <1>3, <1>4, <1>5, <1>6 DEF Next

(* No session has begun, and nothing is under way.                         *)
LEMMA SessionInit ==
  ASSUME Init
  PROVE  SessionInv
<1>1. \A k \in Conn : spc[k] = "none" /\ Under(toClient[k]) = {} /\ Under(toServer[k]) = {}
  BY UnderNone DEF Init
<1>2. cpc = "off"
  BY DEF Init
<1>3. QED  BY <1>1, <1>2 DEF SessionInv, ChanInv, StageInv, ConfirmInv, Downloading

(* The stages of client and session agree with what is under way.          *)
LEMMA SessionHolds == Spec => []SessionInv
BY Inductive, SessionInit, SessionStep, PTL DEF Spec

(* ResultConfirmsInstall: RESULT status=ok, which handle_client_session    *)
(* counts as an update served, confirms a file that is in place when the   *)
(* server reads it.                                                        *)
THEOREM ConfirmIsSound == Spec => []ResultConfirmsInstall
<1>1. SessionInv /\ IInv => ResultConfirmsInstall
  <2> SUFFICES ASSUME SessionInv, IInv, NEW k \in Conn, spc[k] = "result", Arrived(k, "RESULT"),
                      Head(toServer[k]).arg = "ok"
               PROVE  final[snap[k].ver] = snap[k].digest
    BY DEF ResultConfirmsInstall
  <2>1. toServer[k] \in Seq(ToServerMsg) /\ toServer[k] # <<>>
    BY DEF Arrived, HasInput, IInv, NetInv
  <2>2. Head(toServer[k]) \in Under(toServer[k]) /\ Head(toServer[k]) \in ToServerMsg
    BY <2>1, UnderTake
  <2>3. Head(toServer[k]).type = "RESULT"
    BY DEF Arrived
  <2>4. Head(toServer[k]) = Confirm
    BY <2>2, <2>3 DEF ToServerMsg, Confirm, Msg
  <2>5. QED  BY <2>2, <2>4 DEF SessionInv, ConfirmInv
<1>2. QED  BY <1>1, SessionHolds, Inductive, PTL

-----------------------------------------------------------------------------
(* The stream                                                              *)

(* The client and its connection, as long as nothing has broken it.        *)
Live == cpc \in Connected /\ ~stop /\ conn \notin dead /\ sOpen[conn]

(* The session has not read the client's DOWNLOAD_REQ yet, which names the *)
(* end of the part file.                                                   *)
Asked(s, q, r) ==
  /\ s = "download" /\ q = <<>>
  /\ r # <<>> /\ Head(r) = Msg("DOWNLOAD_REQ", Len(part[adv.ver]))

(* The session streams, and all that is under way is data.                 *)
Streaming(s, q, n) ==
  /\ s \in {"stream", "held"}
  /\ \A i \in 1..Len(q) : q[i].type = "DATA"
  /\ Len(part[adv.ver]) + Len(q) = n

(* Where the session stands (s), what is under way to the client (q) and   *)
(* to the server (r), and how far the stream is (n), by the client's stage.*)
InStep(s, q, r, n) ==
  /\ cpc = "hello" => \/ s = "new" /\ q = <<>> /\ r = <<>>
                      \/ s = "auth" /\ Len(q) = 1 /\ r = <<>>
  /\ cpc = "auth" => \/ s = "auth" /\ q = <<>> /\ Len(r) = 1
                     \/ s = "version" /\ Len(q) = 1 /\ r = <<>>
                     \/ s \in Over
  /\ cpc = "version" => \/ s = "version" /\ q = <<>> /\ Len(r) = 1
                        \/ s = "download" /\ Len(q) = 1 /\ r = <<>>
                        \/ s \in Over
  /\ cpc \in {"recv", "paused"} =>
       Asked(s, q, r) \/ Streaming(s, q, n) \/ s \in Over \cup {"result"}

LiveInv == Live => cOpen[conn] /\ InStep(spc[conn], toClient[conn], toServer[conn], sent[conn])
-----------------------------------------------------------------------------
(* A sequence with one more element at its end.                            *)
LEMMA PutFacts ==
  ASSUME NEW S, NEW q \in Seq(S), NEW m \in S
  PROVE  /\ Len(q \o <<m>>) = Len(q) + 1 /\ (q \o <<m>>)[Len(q) + 1] = m
         /\ \A i \in 1..Len(q) : (q \o <<m>>)[i] = q[i]
<1>1. q \o <<m>> = Append(q, m)
  BY AppendIsConcat
<1>2. QED  BY <1>1, AppendProperties

(* A sequence without its first element.                                   *)
LEMMA TailFacts ==
  ASSUME NEW S, NEW q \in Seq(S), q # <<>>
  PROVE  /\ Len(q) = 1 => Tail(q) = <<>>
         /\ Len(Tail(q)) = Len(q) - 1
         /\ \A i \in 1..(Len(q) - 1) : i + 1 \in 1..Len(q) /\ Tail(q)[i] = q[i + 1]
<1>1. Len(Tail(q)) = Len(q) - 1 /\ Len(q) \in Nat \ {0} /\ Tail(q) \in Seq(S)
      /\ \A i \in 1..Len(Tail(q)) : Tail(q)[i] = q[i + 1]
  BY HeadTailProperties, EmptySeq
<1>2. Len(q) = 1 => Tail(q) = <<>>
  <2>1. PICK t : t \in Seq(S) /\ t = Tail(q)
    BY <1>1
  <2>2. Len(t) = 0 => t = <<>>
    BY <2>1, EmptySeq
  <2>3. QED  BY <1>1, <2>1, <2>2
<1>3. \A i \in 1..(Len(q) - 1) : i + 1 \in 1..Len(q)
  BY <1>1
<1>4. QED  BY <1>1, <1>2, <1>3

(* The head of a sequence with one more element at its end.                *)
LEMMA AppendFacts ==
  ASSUME NEW S, NEW q \in Seq(S), NEW m \in S
  PROVE  /\ q = <<>> => Len(Append(q, m)) = 1 /\ Head(Append(q, m)) = m
         /\ q # <<>> => Head(Append(q, m)) = Head(q)
         /\ Append(q, m) # <<>>
<1>1. Head(Append(q, m)) = IF q = <<>> THEN m ELSE Head(q)
  BY HeadTailAppend
<1>2. Len(Append(q, m)) = Len(q) + 1 /\ Append(q, m) # <<>>
  BY AppendProperties
<1>3. q = <<>> => Len(q) = 0
  BY EmptySeq
<1>4. QED  BY <1>1, <1>2, <1>3

(* What does not touch the client's connection.                            *)
LEMMA LiveFrame ==
  ASSUME LiveInv, UNCHANGED <<cpc, stop, conn, adv, part>>, dead \subseteq dead',
         cpc \in Connected =>
            /\ spc'[conn] = spc[conn] /\ toClient'[conn] = toClient[conn]
            /\ toServer'[conn] = toServer[conn] /\ sent'[conn] = sent[conn]
            /\ sOpen'[conn] = sOpen[conn] /\ cOpen'[conn] = cOpen[conn]
  PROVE  LiveInv'
<1>1. SUFFICES ASSUME Live'
               PROVE  /\ cOpen'[conn']
                      /\ InStep(spc[conn], toClient[conn], toServer[conn], sent[conn])'
  BY DEF LiveInv
<1>2. Live
  BY <1>1 DEF Live
<1>3. cOpen'[conn'] /\ InStep(spc[conn], toClient[conn], toServer[conn], sent[conn])
  BY <1>2 DEF LiveInv, Live
<1>4. cpc \in Connected
  BY <1>2 DEF Live
<1>5. QED  BY <1>3, <1>4 DEF InStep, Asked, Streaming

(* The steps of a session leave the others and the client alone.           *)
LEMMA SessionFrame ==
  ASSUME IInv, NEW k \in Conn, Server(k) \/ TurnAway(k) \/ RefuseAuth(k)
  PROVE  /\ UNCHANGED <<cpc, stop, conn, adv, part, dead>>
         /\ \A j \in Conn \ {k} :
              /\ spc'[j] = spc[j] /\ toClient'[j] = toClient[j] /\ toServer'[j] = toServer[j]
              /\ sent'[j] = sent[j] /\ sOpen'[j] = sOpen[j] /\ cOpen'[j] = cOpen[j]
<1>1. UNCHANGED <<cpc, stop, conn, adv, part, dead>>
  BY DEF Server, Greet, Authenticate, CheckVersion, StartTransfer, StreamChunk, PollControl,
     ResumeStream, HoldExpires, FinishStream, TakeResult, SessionFails, Release, CloseConn,
     TurnAway, RefuseAuth, runVars, callVars, fileVars, endVars, netVars
<1>2. /\ spc \in [Conn -> ServerPC] /\ toClient \in [Conn -> Seq(SoundMsg)]
      /\ toServer \in [Conn -> Seq(ToServerMsg)] /\ sent \in [Conn -> Nat]
      /\ sOpen \in [Conn -> BOOLEAN] /\ cOpen \in [Conn -> BOOLEAN]
  BY DEF IInv, SrvInv, NetInv
<1>3. SUFFICES ASSUME NEW j \in Conn \ {k}
               PROVE  /\ spc'[j] = spc[j] /\ toClient'[j] = toClient[j]
                      /\ toServer'[j] = toServer[j]
                      /\ sent'[j] = sent[j] /\ sOpen'[j] = sOpen[j] /\ cOpen'[j] = cOpen[j]
  BY <1>1
<1>4. CASE Greet(k) \/ Authenticate(k) \/ CheckVersion(k)
  BY <1>2, <1>4 DEF Greet, Authenticate, CheckVersion, Reply, Consume, Goto, endVars
<1>5. CASE StartTransfer(k) \/ StreamChunk(k) \/ PollControl(k) \/ ResumeStream(k)
  BY <1>2, <1>5 DEF StartTransfer, StreamChunk, PollControl, ResumeStream, Reply, Consume,
     Goto, endVars
<1>6. CASE HoldExpires(k) \/ FinishStream(k) \/ TakeResult(k) \/ SessionFails(k)
  BY <1>2, <1>6 DEF HoldExpires, FinishStream, TakeResult, SessionFails, Reply, Consume, Goto,
     endVars, netVars
<1>7. CASE Release(k) \/ CloseConn(k) \/ TurnAway(k) \/ RefuseAuth(k)
  BY <1>2, <1>7 DEF Release, CloseConn, TurnAway, RefuseAuth, Reply, Consume, Goto, endVars, netVars
<1>8. QED  BY <1>4, <1>5, <1>6, <1>7 DEF Server

(* A session and the client's connection are in step after every step of   *)
(* the session.                                                            *)
LEMMA LiveSession ==
  ASSUME IInv, LiveInv, NEW k \in Conn, Server(k) \/ TurnAway(k) \/ RefuseAuth(k)
  PROVE  LiveInv'
<1>1. /\ UNCHANGED <<cpc, stop, conn, adv, part, dead>>
      /\ \A j \in Conn \ {k} :
           /\ spc'[j] = spc[j] /\ toClient'[j] = toClient[j] /\ toServer'[j] = toServer[j]
           /\ sent'[j] = sent[j] /\ sOpen'[j] = sOpen[j] /\ cOpen'[j] = cOpen[j]
  BY SessionFrame
<1>2. cpc \in Connected => conn \in Conn
  BY DEF IInv, RunInv
<1>3. CASE conn # k
  BY <1>1, <1>2, <1>3, LiveFrame
<1>4. CASE conn = k
  <2>1. SUFFICES ASSUME Live'
                 PROVE  /\ cOpen'[k]
                        /\ InStep(spc[conn], toClient[conn], toServer[conn], sent[conn])'
    BY <1>1, <1>4 DEF LiveInv
  <2>2. /\ SrvInv /\ NetInv /\ PubInv /\ toClient[k] \in Seq(SoundMsg)
        /\ toServer[k] \in Seq(ToServerMsg)
        /\ toClient \in [Conn -> Seq(SoundMsg)] /\ sent \in [Conn -> Nat]
        /\ cOpen \in [Conn -> BOOLEAN] /\ sOpen \in [Conn -> BOOLEAN]
    BY DEF IInv, SrvInv, NetInv
  <2>3. ~TurnAway(k) /\ ~CloseConn(k) /\ cOpen' = cOpen /\ Live
    <3>1. k \notin dead /\ sOpen'[k]
      BY <1>1, <1>4, <2>1 DEF Live
    <3>2. ~TurnAway(k) /\ ~CloseConn(k)
      BY <2>2, <3>1 DEF TurnAway, CloseConn
    <3>3. UNCHANGED <<cOpen, sOpen>>
      BY <3>2 DEF Server, Greet, Authenticate, CheckVersion, StartTransfer, StreamChunk,
         PollControl, ResumeStream, HoldExpires, FinishStream, TakeResult, SessionFails,
         Release, RefuseAuth, endVars, netVars
    <3>4. QED  BY <1>1, <2>1, <3>2, <3>3 DEF Live
  <2>4. cOpen[k] /\ InStep(spc[k], toClient[k], toServer[k], sent[k])
    BY <1>4, <2>3 DEF LiveInv
  <2> DEFINE s == spc[k]
             q == toClient[k]
             r == toServer[k]
             n == sent[k]
  <2>5. SUFFICES /\ cpc = "hello" => \/ s' = "new" /\ q' = <<>> /\ r' = <<>>
                                     \/ s' = "auth" /\ Len(q') = 1 /\ r' = <<>>
                 /\ cpc = "auth" => \/ s' = "auth" /\ q' = <<>> /\ Len(r') = 1
                                    \/ s' = "version" /\ Len(q') = 1 /\ r' = <<>>
                                    \/ s' \in Over
                 /\ cpc = "version" => \/ s' = "version" /\ q' = <<>> /\ Len(r') = 1
                                       \/ s' = "download" /\ Len(q') = 1 /\ r' = <<>>
                                       \/ s' \in Over
                 /\ cpc \in {"recv", "paused"} =>
                      Asked(s', q', r') \/ Streaming(s', q', n') \/ s' \in Over \cup {"result"}
    BY <1>1, <1>4, <2>3, <2>4 DEF InStep, Asked, Streaming
  <2>6. \A pc : Goto(k, pc) => s' = pc
    BY <2>2 DEF Goto, SrvInv
  <2>7. HasInput(k) /\ Consume(k) => r # <<>> /\ r' = Tail(r) /\ (Len(r) = 1 => r' = <<>>)
    BY <2>2, ConsumeUnder, TailFacts DEF HasInput
  <2>8. /\ \A m \in SoundMsg : Reply(k, <<m>>) =>
             /\ Len(q') = Len(q) + 1 /\ q'[Len(q) + 1] = m /\ \A i \in 1..Len(q) : q'[i] = q[i]
        /\ q = <<>> => Len(q) = 0
        /\ Len(q) \in Nat
    BY <2>2, ReplyUnder, PutFacts, EmptySeq
  <2> HIDE DEF s, q, r, n
  <2>9. InStep(s, q, r, n)
    BY <2>4 DEF s, q, r, n
  <2>10. CASE Greet(k)
    <3>1. s = "new" /\ s' = "auth" /\ Reply(k, <<Plain("HELLO")>>) /\ r' = r
      BY <2>6, <2>10 DEF Greet, s, r
    <3>2. Plain("HELLO") \in SoundMsg
      BY <2>2, ServerMessages
    <3>3. q = <<>> => Len(q') = 1
      BY <2>8, <3>1, <3>2
    <3>4. QED  BY <2>9, <3>1, <3>3 DEF InStep, Asked, Streaming, Over
  <2>11. CASE Authenticate(k)
    <3>1. s = "auth" /\ HasInput(k) /\ Consume(k)
      BY <2>11 DEF Authenticate, Arrived, s
    <3>2. \/ s' = "close"
          \/ s' = "version" /\ (q = <<>> => Len(q') = 1)
      <4>1. CASE CanReserve
        <5>1. Reply(k, <<Plain("AUTH_OK")>>) /\ s' = "version"
          BY <2>6, <2>11, <4>1 DEF Authenticate, CanReserve
        <5>2. Plain("AUTH_OK") \in SoundMsg
          BY <2>2, ServerMessages
        <5>3. PICK m \in SoundMsg : Reply(k, <<m>>)
          BY <5>1, <5>2
        <5>4. Len(q') = Len(q) + 1
          BY <2>8, <5>3
        <5>5. QED  BY <2>8, <5>1, <5>4
      <4>2. CASE ~CanReserve
        BY <2>6, <2>11, <4>2 DEF Authenticate
      <4>3. QED  BY <4>1, <4>2
    <3>3. QED  BY <2>7, <2>9, <3>1, <3>2 DEF InStep, Asked, Streaming, Over
  <2>12. CASE RefuseAuth(k)
    <3>1. s = "auth" /\ s' = "close" /\ HasInput(k) /\ Consume(k)
      BY <2>6, <2>12 DEF RefuseAuth, Arrived, s
    <3>2. QED  BY <2>7, <2>9, <3>1 DEF InStep, Asked, Streaming, Over
  <2>13. CASE CheckVersion(k)
    <3>1. s = "version" /\ HasInput(k) /\ Consume(k)
      BY <2>13 DEF CheckVersion, Arrived, s
    <3>2. \/ s' = "release"
          \/ s' = "download" /\ (q = <<>> => Len(q') = 1)
      <4>1. CASE Uptodate(Head(toServer[k]).arg, manifest)
        BY <2>6, <2>13, <4>1 DEF CheckVersion
      <4>2. CASE ~Uptodate(Head(toServer[k]).arg, manifest)
        <5>1. Reply(k, <<Msg("UPDATE_AVAILABLE", manifest)>>) /\ s' = "download"
          BY <2>6, <2>13, <4>2 DEF CheckVersion
        <5>2. Msg("UPDATE_AVAILABLE", manifest) \in SoundMsg
          BY <2>2, ServerMessages
        <5>3. PICK m \in SoundMsg : Reply(k, <<m>>)
          BY <5>1, <5>2
        <5>4. Len(q') = Len(q) + 1
          BY <2>8, <5>3
        <5>5. QED  BY <2>8, <5>1, <5>4
      <4>3. QED  BY <4>1, <4>2
    <3>3. QED  BY <2>7, <2>9, <3>1, <3>2 DEF InStep, Asked, Streaming, Over
  <2>14. CASE StartTransfer(k)
    <3>1. s = "download" /\ HasInput(k) /\ Consume(k) /\ n' = Head(r).arg
      BY <2>2, <2>14 DEF StartTransfer, Arrived, Offset, s, r, n
    <3>2. s' = "release" \/ (s' = "stream" /\ q' = q)
      <4>1. CASE Offset(k) > Len(snap[k].digest)
        BY <2>6, <2>14, <4>1 DEF StartTransfer
      <4>2. CASE ~(Offset(k) > Len(snap[k].digest))
        <5>1. UNCHANGED toClient /\ (Goto(k, "release") \/ Goto(k, "stream"))
          BY <2>14, <4>2 DEF StartTransfer
        <5>2. QED  BY <2>6, <5>1 DEF q
      <4>3. QED  BY <4>1, <4>2
    <3>3. CASE cpc \in {"recv", "paused"} /\ s' = "stream"
      <4>1. Asked(s, q, r)
        BY <2>9, <3>1, <3>3 DEF InStep, Streaming, Over
      <4>2. q' = <<>> /\ Len(q') = 0 /\ n' = Len(part[adv.ver])
        BY <2>8, <3>1, <3>2, <3>3, <4>1 DEF Asked, Msg
      <4>3. Len(part[adv.ver]) \in Nat
        <5>1. adv \in published
          BY <3>3 DEF IInv, RunInv, Downloading
        <5>2. adv.ver \in Version
          BY <5>1, ManifestFields DEF IInv, PubInv
        <5>3. QED  BY <5>2 DEF IInv, FileInv
      <4>4. Streaming(s', q', n')
        BY <3>3, <4>2, <4>3 DEF Streaming
      <4>5. QED  BY <3>3, <4>4
    <3>4. QED  BY <2>7, <2>9, <3>1, <3>2, <3>3 DEF InStep, Asked, Streaming, Over
  <2>15. CASE StreamChunk(k)
    <3>1. s = "stream" /\ r' = r
      BY <2>15 DEF StreamChunk, s, r
    <3>2. s' = "release" \/ (s' = "stream" /\ n' = n + 1 /\ n \in Nat
                             /\ \E b \in Block : Reply(k, <<Msg("DATA", b)>>))
      <4>1. CASE sent[k] < Len(disk[snap[k].ver])
        <5>1. disk[snap[k].ver][sent[k] + 1] \in Block
          <6>1. snap[k].ver \in Version
            BY <2>2, <3>1 DEF SrvInv, Manifest, s
          <6>2. disk[snap[k].ver] \in Body /\ sent[k] \in Nat
            BY <2>2, <6>1 DEF PubInv
          <6>3. sent[k] + 1 \in 1..Len(disk[snap[k].ver])
            BY <4>1, <6>2, BodyBlocks
          <6>4. QED  BY <6>2, <6>3, BodyBlocks
        <5>2. Reply(k, <<Msg("DATA", disk[snap[k].ver][sent[k] + 1])>>) /\ UNCHANGED spc
              /\ sent' = [sent EXCEPT ![k] = @ + 1]
          BY <2>15, <4>1 DEF StreamChunk
        <5>3. s' = "stream" /\ n' = n + 1 /\ n \in Nat
          BY <2>2, <3>1, <5>2 DEF s, n
        <5>4. QED  BY <5>1, <5>2, <5>3
      <4>2. CASE ~(sent[k] < Len(disk[snap[k].ver]))
        BY <2>6, <2>15, <4>2 DEF StreamChunk
      <4>3. QED  BY <4>1, <4>2
    <3>3. CASE cpc \in {"recv", "paused"} /\ s' = "stream"
      <4>1. Streaming(s, q, n)
        BY <2>9, <3>1, <3>3 DEF InStep, Asked, Over
      <4>2. PICK d \in Block : Reply(k, <<Msg("DATA", d)>>)
        BY <3>2, <3>3
      <4>3. Msg("DATA", d) \in SoundMsg /\ Msg("DATA", d).type = "DATA"
        BY <2>2, ServerMessages, MessageTypes
      <4>4. /\ Len(q') = Len(q) + 1 /\ q'[Len(q) + 1].type = "DATA"
            /\ \A i \in 1..Len(q) : q'[i] = q[i]
        BY <2>8, <4>2, <4>3
      <4>5. \A i \in 1..Len(q') : i \in 1..Len(q) \/ i = Len(q) + 1
        BY <2>8, <4>4
      <4>6. \A i \in 1..Len(q') : q'[i].type = "DATA"
        BY <4>1, <4>4, <4>5 DEF Streaming
      <4>7. Len(part[adv.ver]) + Len(q') = n'
        <5>1. adv \in published
          BY <3>3 DEF IInv, RunInv, Downloading
        <5>2. adv.ver \in Version
          BY <5>1, ManifestFields DEF IInv, PubInv
        <5>3. Len(part[adv.ver]) \in Nat
          BY <5>2 DEF IInv, FileInv
        <5>4. Len(part[adv.ver]) + Len(q) = n /\ Len(q) \in Nat
          BY <2>8, <4>1 DEF Streaming
        <5>5. n' = n + 1 /\ Len(q') = Len(q) + 1
          BY <3>2, <3>3, <4>4
        <5>6. \A a, b \in Nat : a + (b + 1) = (a + b) + 1
          OBVIOUS
        <5>7. n' = (Len(part[adv.ver]) + Len(q)) + 1
          BY <5>4, <5>5
        <5>8. Len(part[adv.ver]) + (Len(q) + 1) = n'
          BY <5>3, <5>4, <5>6, <5>7
        <5>9. QED  BY <5>5, <5>8
      <4>8. QED  BY <3>3, <4>6, <4>7 DEF Streaming
    <3>4. QED  BY <2>9, <3>1, <3>2, <3>3 DEF InStep, Asked, Streaming, Over
  <2>16. CASE PollControl(k) \/ ResumeStream(k)
    <3>1. /\ s \in {"stream", "held"} /\ q' = q /\ n' = n
          /\ Goto(k, "held") \/ Goto(k, "release") \/ Goto(k, "stream")
      BY <2>16 DEF PollControl, ResumeStream, s, q, n
    <3>2. s' \in {"held", "release", "stream"}
      BY <2>6, <3>1
    <3>3. QED  BY <2>9, <3>1, <3>2 DEF InStep, Asked, Streaming, Over
  <2>17. CASE FinishStream(k)
    <3>1. s = "stream" /\ s' = "result"
      BY <2>6, <2>17 DEF FinishStream, s
    <3>2. QED  BY <2>9, <3>1 DEF InStep, Asked, Streaming, Over
  <2>18. CASE HoldExpires(k) \/ TakeResult(k) \/ Release(k)
    <3>1. s \in {"held", "result", "release"} /\ s' \in Over
      BY <2>6, <2>18 DEF HoldExpires, TakeResult, Release, s, Over
    <3>2. QED  BY <2>9, <3>1 DEF InStep, Asked, Streaming, Over
  <2>19. ~SessionFails(k)
    BY <2>4 DEF SessionFails
  <2>20. QED
    BY <2>3, <2>10, <2>11, <2>12, <2>13, <2>14, <2>15, <2>16, <2>17, <2>18, <2>19 DEF Server
<1>5. QED  BY <1>3, <1>4

(* The steps of the network, the operator and the server process.          *)
LEMMA LiveOthers ==
  ASSUME IInv, LiveInv,
         \/ \E k \in Conn : Reset(k) \/ Vanish(k) \/ GiveUp(k)
         \/ \E v \in Version, b \in Body : OverwritePackage(v, b)
         \/ \E v \in Version : Reload(v)
         \/ ServerCrash \/ ServerStart \/ UNCHANGED vars
  PROVE  LiveInv'
<1>1. /\ cpc \in Connected => conn \in Conn
      /\ toClient \in [Conn -> Seq(SoundMsg)] /\ toServer \in [Conn -> Seq(ToServerMsg)]
      /\ sOpen \in [Conn -> BOOLEAN] /\ cOpen \in [Conn -> BOOLEAN]
  BY DEF IInv, RunInv, NetInv
<1>2. CASE \/ \E v \in Version, b \in Body : OverwritePackage(v, b)
           \/ \E v \in Version : Reload(v)
           \/ ServerStart \/ UNCHANGED vars
  <2>1. UNCHANGED <<cpc, stop, conn, adv, part, dead, spc, toClient, toServer, sent, sOpen, cOpen>>
    BY <1>2 DEF OverwritePackage, Reload, ServerStart, vars, pubVars, srvVars, netVars, endVars,
       runVars, callVars, fileVars
  <2>2. QED  BY <2>1, LiveFrame
<1>3. CASE ServerCrash
  <2>1. UNCHANGED <<cpc, conn, dead>> /\ sOpen' = [k \in Conn |-> k \in dead /\ sOpen[k]]
    BY <1>3 DEF ServerCrash, runVars, callVars
  <2>2. ~Live'
    BY <1>1, <2>1 DEF Live
  <2>3. QED  BY <2>2 DEF LiveInv
<1>4. ASSUME NEW k \in Conn, Reset(k) \/ Vanish(k) \/ GiveUp(k)
      PROVE  LiveInv'
  <2>1. UNCHANGED <<cpc, stop, conn, adv, part, spc, sent>> /\ dead \subseteq dead'
    BY <1>4 DEF Reset, Vanish, GiveUp, srvVars, runVars, callVars, fileVars
  <2>2. CASE conn = k
    <3>1. k \in dead' \/ ~sOpen'[k]
      BY <1>1, <1>4 DEF Reset, Vanish, GiveUp
    <3>2. ~Live'
      BY <2>1, <2>2, <3>1 DEF Live
    <3>3. QED  BY <3>2 DEF LiveInv
  <2>3. CASE conn # k
    <3>1. \A j \in Conn \ {k} : /\ toClient'[j] = toClient[j] /\ toServer'[j] = toServer[j]
                                /\ sOpen'[j] = sOpen[j] /\ cOpen'[j] = cOpen[j]
      BY <1>1, <1>4 DEF Reset, Vanish, GiveUp
    <3>2. QED  BY <1>1, <2>1, <2>3, <3>1, LiveFrame
  <2>4. QED  BY <2>2, <2>3
<1>5. QED  BY <1>2, <1>3, <1>4

(* The client leaves its connection, or is told to.                        *)
LEMMA LiveEnds ==
  ASSUME cpc' \in {"off", "connect"} \/ stop'
  PROVE  LiveInv'
BY DEF LiveInv, Live, Connected

(* A new connection.                                                       *)
LEMMA LiveConnects ==
  ASSUME IInv, NEW k \in Conn, Connect(k)
  PROVE  LiveInv'
<1>1. /\ spc \in [Conn -> ServerPC]
      /\ toClient \in [Conn -> Seq(SoundMsg)] /\ toServer \in [Conn -> Seq(ToServerMsg)]
      /\ sOpen \in [Conn -> BOOLEAN] /\ cOpen \in [Conn -> BOOLEAN]
  BY DEF IInv, SrvInv, NetInv
<1>2. /\ cpc' = "hello" /\ conn' = k /\ spc'[k] = "new" /\ cOpen'[k]
      /\ toClient'[k] = <<>> /\ toServer'[k] = <<>>
  BY <1>1 DEF Connect
<1>3. QED  BY <1>2 DEF LiveInv, InStep

(* What the client sends on a connection that holds arrives.               *)
LEMMA SendArrives ==
  ASSUME IInv, conn \in Conn, NEW msg \in ToServerMsg, Send(msg), sOpen[conn], cOpen[conn]
  PROVE  /\ toServer'[conn] # <<>>
         /\ toServer[conn] = <<>> => Len(toServer'[conn]) = 1 /\ Head(toServer'[conn]) = msg
         /\ toServer[conn] # <<>> => Head(toServer'[conn]) = Head(toServer[conn])
<1>1. toServer \in [Conn -> Seq(ToServerMsg)] /\ toServer[conn] \in Seq(ToServerMsg)
  BY DEF IInv, NetInv
<1>2. toServer'[conn] = Append(toServer[conn], msg)
  BY <1>1 DEF Send
<1>3. /\ toServer[conn] = <<>> => /\ Len(Append(toServer[conn], msg)) = 1
                                  /\ Head(Append(toServer[conn], msg)) = msg
      /\ toServer[conn] # <<>> => Head(Append(toServer[conn], msg)) = Head(toServer[conn])
      /\ Append(toServer[conn], msg) # <<>>
  <2>1. \A q \in Seq(ToServerMsg) :
          /\ q = <<>> => Len(Append(q, msg)) = 1 /\ Head(Append(q, msg)) = msg
          /\ q # <<>> => Head(Append(q, msg)) = Head(q)
          /\ Append(q, msg) # <<>>
    BY AppendFacts
  <2>2. QED  BY <1>1, <2>1
<1>4. QED  BY <1>2, <1>3

(* What the client takes is the first of what is under way.                *)
LEMMA TakeShortens ==
  ASSUME IInv, conn \in Conn, HasMessage, TakeMessage
  PROVE  /\ toClient[conn] # <<>> /\ toClient[conn] \in Seq(SoundMsg)
         /\ toClient'[conn] = Tail(toClient[conn])
         /\ Len(toClient[conn]) = 1 => toClient'[conn] = <<>>
<1>1. toClient \in [Conn -> Seq(SoundMsg)] /\ toClient[conn] \in Seq(SoundMsg)
      /\ toClient[conn] # <<>>
  BY DEF IInv, NetInv, HasMessage
<1>2. toClient'[conn] = Tail(toClient[conn])
  BY <1>1 DEF TakeMessage
<1>3. QED  BY <1>1, <1>2, TailFacts

(* A step that leaves the client on its connection: the connection held    *)
(* before it, if it does after it.                                         *)
LEMMA StillLive ==
  ASSUME IInv, LiveInv, cpc \in Connected, UNCHANGED <<stop, conn, endVars>>, Live'
  PROVE  /\ conn \in Conn /\ Live /\ sOpen[conn] /\ cOpen[conn] /\ cOpen'[conn']
         /\ InStep(spc[conn], toClient[conn], toServer[conn], sent[conn])
<1>1. Live
  BY DEF Live, endVars
<1>2. QED  BY <1>1 DEF LiveInv, Live, endVars, IInv, RunInv

(* The handshake.                                                          *)
LEMMA LiveHandshake ==
  ASSUME IInv, LiveInv, RecvHello \/ RecvAuthOk
  PROVE  LiveInv'
<1>1. SUFFICES ASSUME Live'
               PROVE  /\ cOpen'[conn']
                      /\ InStep(spc[conn], toClient[conn], toServer[conn], sent[conn])'
  BY DEF LiveInv
<1>2. UNCHANGED <<stop, conn, endVars, spc, sent>> /\ cpc \in Connected /\ HasMessage /\ TakeMessage
  BY DEF RecvHello, RecvAuthOk, Received, callVars, srvVars, Connected, ClientPC
<1>3. /\ conn \in Conn /\ sOpen[conn] /\ cOpen[conn] /\ cOpen'[conn']
      /\ InStep(spc[conn], toClient[conn], toServer[conn], sent[conn])
  BY <1>1, <1>2, StillLive
<1>4. /\ toClient[conn] # <<>> /\ (Len(toClient[conn]) = 1 => toClient'[conn] = <<>>)
  BY <1>2, <1>3, TakeShortens
<1>5. \/ cpc = "hello" /\ cpc' = "auth" /\ Send(Plain("AUTH"))
      \/ cpc = "auth" /\ cpc' = "version" /\ Send(Msg("VERSION_REQ", cur))
  BY DEF RecvHello, RecvAuthOk
<1>6. Plain("AUTH") \in ToServerMsg /\ Msg("VERSION_REQ", cur) \in ToServerMsg
  BY ClientMessages DEF IInv, RunInv
<1>7. toServer[conn] = <<>> => Len(toServer'[conn]) = 1
  BY <1>3, <1>5, <1>6, SendArrives
<1>8. QED  BY <1>2, <1>3, <1>4, <1>5, <1>7 DEF InStep

(* The offer is answered with what the part file already holds.            *)
LEMMA LiveOffer ==
  ASSUME IInv, LiveInv, RecvUpdateAvailable
  PROVE  LiveInv'
<1>1. SUFFICES ASSUME Live'
               PROVE  /\ cOpen'[conn']
                      /\ InStep(spc[conn], toClient[conn], toServer[conn], sent[conn])'
  BY DEF LiveInv
<1> DEFINE offer == Head(toClient[conn]).arg
           kept == IF Len(part[offer.ver]) > Len(offer.digest) THEN <<>> ELSE part[offer.ver]
           msg == Msg("DOWNLOAD_REQ", Len(kept))
<1>2. /\ UNCHANGED <<stop, conn, endVars, spc, sent>> /\ cpc \in Connected
      /\ cpc = "version" /\ cpc' = "recv" /\ HasMessage /\ TakeMessage /\ Send(msg)
      /\ adv' = offer /\ part' = [part EXCEPT ![offer.ver] = kept]
      /\ Head(toClient[conn]).type = "UPDATE_AVAILABLE"
  BY DEF RecvUpdateAvailable, Received, srvVars, Connected, ClientPC
<1>3. /\ conn \in Conn /\ sOpen[conn] /\ cOpen[conn] /\ cOpen'[conn']
      /\ InStep(spc[conn], toClient[conn], toServer[conn], sent[conn])
  BY <1>1, <1>2, StillLive
<1>4. /\ toClient[conn] # <<>> /\ (Len(toClient[conn]) = 1 => toClient'[conn] = <<>>)
  BY <1>2, <1>3, TakeShortens
<1>5. offer.ver \in Version
  <2>1. Head(toClient[conn]) \in SoundMsg
    BY <1>2, <1>3, TakeStep DEF IInv
  <2>2. QED  BY <1>2, <2>1, ServerArguments, ManifestFields DEF IInv, PubInv
<1>6. part \in [Version -> Seq(Block)] /\ Len(kept) \in Nat
  BY <1>5 DEF IInv, FileInv
<1>7. part'[adv'.ver] = kept
  BY <1>2, <1>5, <1>6
<1>8. msg \in ToServerMsg
  BY <1>6, ClientMessages
<1> HIDE DEF msg
<1>9. /\ toServer'[conn] # <<>>
      /\ toServer[conn] = <<>> => Head(toServer'[conn]) = msg
  BY <1>2, <1>3, <1>8, SendArrives
<1>10. msg = Msg("DOWNLOAD_REQ", Len(part'[adv'.ver]))
  BY <1>7 DEF msg
<1> HIDE DEF offer
<1>11. \/ spc[conn] \in Over
       \/ spc[conn] = "download" /\ toServer[conn] = <<>> /\ toClient'[conn] = <<>>
  BY <1>2, <1>3, <1>4 DEF InStep
<1>12. CASE spc[conn] \in Over
  BY <1>2, <1>3, <1>12 DEF InStep, Over
<1>13. CASE spc[conn] = "download" /\ toServer[conn] = <<>> /\ toClient'[conn] = <<>>
  <2>1. Asked(spc[conn], toClient[conn], toServer[conn])'
    BY <1>2, <1>9, <1>10, <1>13 DEF Asked, Msg
  <2>2. QED  BY <1>2, <1>3, <2>1 DEF InStep
<1>14. QED  BY <1>11, <1>12, <1>13

(* A block taken from the connection is appended to the part file.         *)
LEMMA LiveData ==
  ASSUME IInv, LiveInv, RecvData, cpc' = "recv"
  PROVE  LiveInv'
<1>1. SUFFICES ASSUME Live'
               PROVE  /\ cOpen'[conn']
                      /\ InStep(spc[conn], toClient[conn], toServer[conn], sent[conn])'
  BY DEF LiveInv
<1> DEFINE b == Head(toClient[conn]).arg
<1>2. /\ UNCHANGED <<stop, conn, adv, endVars, spc, sent, toServer>> /\ cpc = "recv"
      /\ HasMessage /\ TakeMessage /\ AppendBlock(b) /\ Head(toClient[conn]).type = "DATA"
  BY DEF RecvData, Received, srvVars, runVars, callVars, EndAttempt, Off
<1>3. /\ conn \in Conn /\ cOpen'[conn'] /\ HasMessage
      /\ InStep(spc[conn], toClient[conn], toServer[conn], sent[conn])
  BY <1>1, <1>2, StillLive DEF Connected, ClientPC
<1>4. /\ toClient[conn] # <<>> /\ toClient[conn] \in Seq(SoundMsg)
      /\ toClient'[conn] = Tail(toClient[conn])
  BY <1>2, <1>3, TakeShortens
<1>5. Len(part[adv.ver]) \in Nat /\ Len(part'[adv.ver]) = Len(part[adv.ver]) + 1
  <2>1. adv.ver \in Version
    <3>1. adv \in published
      BY <1>2 DEF IInv, RunInv, Downloading
    <3>2. QED  BY <3>1, ManifestFields DEF IInv, PubInv
  <2>2. part \in [Version -> Seq(Block)] /\ part[adv.ver] \in Seq(Block)
    BY <2>1 DEF IInv, FileInv
  <2>3. b \in Block
    BY <1>2, <1>3, TakeStep, ServerArguments DEF IInv
  <2>4. part'[adv.ver] = Append(part[adv.ver], b)
    BY <1>2, <2>1, <2>2 DEF AppendBlock
  <2> HIDE DEF b
  <2>5. \A q \in Seq(Block) : Len(q) \in Nat /\ Len(Append(q, b)) = Len(q) + 1
    BY <2>3, AppendProperties
  <2>6. QED  BY <2>2, <2>4, <2>5
<1>6. CASE spc[conn] \in Over \cup {"result"}
  BY <1>2, <1>3, <1>6 DEF InStep
<1>7. CASE Streaming(spc[conn], toClient[conn], sent[conn])
  <2>1. PICK q \in Seq(SoundMsg) : q = toClient[conn]
    BY <1>4
  <2>2. q # <<>> /\ toClient'[conn] = Tail(q)
    BY <1>4, <2>1
  <2>3. /\ Len(Tail(q)) = Len(q) - 1 /\ Len(q) \in Nat
        /\ \A i \in 1..(Len(q) - 1) : i + 1 \in 1..Len(q) /\ Tail(q)[i] = q[i + 1]
    BY <2>2, TailFacts
  <2>4. /\ spc[conn] \in {"stream", "held"} /\ Len(part[adv.ver]) + Len(q) = sent[conn]
        /\ \A i \in 1..Len(q) : q[i].type = "DATA"
    BY <1>7, <2>1 DEF Streaming
  <2>5. \A i \in 1..Len(Tail(q)) : Tail(q)[i].type = "DATA"
    BY <2>3, <2>4
  <2>6. Len(part'[adv.ver]) + Len(Tail(q)) = sent[conn]
    <3>1. \A n, l \in Nat : (n + 1) + (l - 1) = n + l
      OBVIOUS
    <3>2. (Len(part[adv.ver]) + 1) + (Len(q) - 1) = sent[conn]
      BY <1>5, <2>3, <2>4, <3>1
    <3>3. QED  BY <1>5, <2>3, <3>2
  <2>7. Streaming(spc[conn], toClient[conn], sent[conn])'
    BY <1>2, <2>2, <2>4, <2>5, <2>6 DEF Streaming
  <2>8. QED  BY <1>2, <1>3, <2>7 DEF InStep
<1>8. QED  BY <1>2, <1>3, <1>4, <1>6, <1>7 DEF InStep, Asked

(* Pausing and resuming say nothing about the stream.                      *)
LEMMA LivePauses ==
  ASSUME IInv, LiveInv, (GuiPause /\ cpc' = "paused") \/ (GuiResume /\ cpc' = "recv")
  PROVE  LiveInv'
<1>1. SUFFICES ASSUME Live'
               PROVE  /\ cOpen'[conn']
                      /\ InStep(spc[conn], toClient[conn], toServer[conn], sent[conn])'
  BY DEF LiveInv
<1>2. /\ UNCHANGED <<stop, conn, adv, endVars, spc, sent, toClient, part>>
      /\ cpc \in {"recv", "paused"} /\ cpc' \in {"recv", "paused"}
      /\ Send(Plain("PAUSE")) \/ Send(Plain("RESUME"))
  BY DEF GuiPause, GuiResume, srvVars, callVars, fileVars, EndAttempt, Off
<1>3. /\ conn \in Conn /\ sOpen[conn] /\ cOpen[conn] /\ cOpen'[conn']
      /\ InStep(spc[conn], toClient[conn], toServer[conn], sent[conn])
  BY <1>1, <1>2, StillLive DEF Connected, ClientPC
<1>4. toServer'[conn] # <<>>
      /\ (toServer[conn] # <<>> => Head(toServer'[conn]) = Head(toServer[conn]))
  <2>1. Plain("PAUSE") \in ToServerMsg /\ Plain("RESUME") \in ToServerMsg
    BY ClientMessages
  <2>2. QED  BY <1>2, <1>3, <2>1, SendArrives
<1>5. CASE Asked(spc[conn], toClient[conn], toServer[conn])
  <2>1. Asked(spc[conn], toClient[conn], toServer[conn])'
    BY <1>2, <1>4, <1>5 DEF Asked, Msg
  <2>2. QED  BY <1>2, <1>3, <2>1 DEF InStep
<1>6. CASE Streaming(spc[conn], toClient[conn], sent[conn])
  <2>1. Streaming(spc[conn], toClient[conn], sent[conn])'
    BY <1>2, <1>6 DEF Streaming
  <2>2. QED  BY <1>2, <1>3, <2>1 DEF InStep
<1>7. CASE spc[conn] \in Over \cup {"result"}
  BY <1>2, <1>3, <1>7 DEF InStep
<1>8. QED  BY <1>2, <1>3, <1>5, <1>6, <1>7 DEF InStep

(* After the transfer nothing is claimed of the stream any more.           *)
LEMMA LiveVerifies ==
  ASSUME IInv, LiveInv,
         (RecvTransferDone /\ cpc' = "verify") \/ Verify \/ Rename \/ RecvBye
  PROVE  LiveInv'
<1>1. SUFFICES ASSUME Live'
               PROVE  /\ cOpen'[conn']
                      /\ InStep(spc[conn], toClient[conn], toServer[conn], sent[conn])'
  BY DEF LiveInv
<1>2. /\ UNCHANGED <<stop, conn, endVars>> /\ cpc \in Connected
      /\ cpc' \in {"verify", "mismatch", "rename", "bye", "record"}
  BY DEF RecvTransferDone, Verify, Rename, RecvBye, callVars, EndAttempt, Off, Connected, ClientPC
<1>3. cOpen'[conn']
  BY <1>1, <1>2, StillLive
<1>4. QED  BY <1>2, <1>3 DEF InStep

(* Every step keeps the client and its session in step.                    *)
LEMMA LiveStep ==
  ASSUME IInv, LiveInv, [Next]_vars
  PROVE  LiveInv'
<1>1. ASSUME NEW result, EndAttempt(result)  PROVE LiveInv'
  BY <1>1, EndLeaves, LiveEnds
<1>2. CASE Client
  <2>1. CASE ConnectFails \/ RecvError \/ RecvUptodate \/ RecvFails \/ GuiPauseEnds
        \/ DropMismatch \/ Record
    BY <1>1, <2>1 DEF ConnectFails, RecvError, RecvUptodate, RecvFails, GuiPauseEnds, DropMismatch,
       Record, AttemptFails
  <2>2. CASE RecvHello \/ RecvAuthOk
    BY <2>2, LiveHandshake
  <2>3. CASE RecvUpdateAvailable
    BY <2>3, LiveOffer
  <2>4. CASE RecvData
    <3>1. CASE cpc' = "recv"
      BY <2>4, <3>1, LiveData
    <3>2. CASE EndAttempt("FATAL")
      BY <1>1, <3>2
    <3>3. QED  BY <2>4, <3>1, <3>2 DEF RecvData, runVars
  <2>5. CASE RecvTransferDone
    <3>1. CASE cpc' = "verify"
      BY <2>5, <3>1, LiveVerifies
    <3>2. CASE EndAttempt("RETRY")
      BY <1>1, <3>2
    <3>3. QED  BY <2>5, <3>1, <3>2 DEF RecvTransferDone
  <2>6. CASE Verify \/ Rename \/ RecvBye
    BY <2>6, LiveVerifies
  <2>7. CASE \E k \in Conn : Connect(k)
    BY <2>7, LiveConnects
  <2>8. QED  BY <1>2, <2>1, <2>2, <2>3, <2>4, <2>5, <2>6, <2>7 DEF Client
<1>3. CASE Environment
  <2>1. CASE GuiPause
    <3>1. CASE cpc' = "paused"
      BY <2>1, <3>1, LivePauses
    <3>2. CASE EndAttempt("RETRY")
      BY <1>1, <3>2
    <3>3. QED  BY <2>1, <3>1, <3>2 DEF GuiPause
  <2>2. CASE GuiResume
    <3>1. CASE cpc' = "recv"
      BY <2>2, <3>1, LivePauses
    <3>2. CASE EndAttempt("RESUME_RECONNECT")
      BY <1>1, <3>2
    <3>3. QED  BY <2>2, <3>1, <3>2 DEF GuiResume
  <2>3. CASE LocalFailure
    BY <1>1, <2>3 DEF LocalFailure
  <2>4. CASE ClientCrash \/ Start \/ Stop
    BY <2>4, LiveEnds DEF ClientCrash, Off, Start, Stop
  <2>5. CASE \E k \in Conn : TurnAway(k) \/ RefuseAuth(k)
    BY <2>5, LiveSession
  <2>6. CASE \/ \E k \in Conn : Reset(k) \/ Vanish(k)
             \/ \E v \in Version, b \in Body : OverwritePackage(v, b)
             \/ (\E v \in Version : Reload(v)) \/ ServerCrash
    BY <2>6, LiveOthers
  <2>7. QED
    BY <1>3, <2>1, <2>2, <2>3, <2>4, <2>5, <2>6 DEF Environment
<1>4. CASE ServerStart \/ (\E k \in Conn : GiveUp(k)) \/ UNCHANGED vars
  BY <1>4, LiveOthers
<1>5. CASE \E k \in Conn : Server(k)
  BY <1>5, LiveSession
<1>6. QED  BY <1>2, <1>3, <1>4, <1>5 DEF Next

(* The channel holds as much data as it has messages when all are data.    *)
LEMMA AllData ==
  ASSUME NEW k \in Conn, toClient[k] \in Seq(SoundMsg),
         \A i \in 1..Len(toClient[k]) : toClient[k][i].type = "DATA"
  PROVE  DataUnderWay(k) = Len(toClient[k])
<1>1. {i \in DOMAIN toClient[k] : toClient[k][i].type = "DATA"} = 1..Len(toClient[k])
  OBVIOUS
<1>2. Len(toClient[k]) \in Nat
  OBVIOUS
<1>3. \A n \in Nat : Cardinality(1..n) = n
  <2>1. ASSUME NEW n \in Nat  PROVE Cardinality(1..n) = n
    <3>1. Cardinality(1..n) = IF 1 > n THEN 0 ELSE n - 1 + 1
      BY FS_Interval
    <3>2. QED  BY <3>1
  <2>2. QED  BY <2>1
<1>4. QED  BY <1>1, <1>2, <1>3 DEF DataUnderWay

(* UpdateProtocol.StreamAligned: the stream continues exactly where the    *)
(* part file ends (receive_update's fwrite against pkg_stream_file's       *)
(* offset), through every pause and resume and whatever the sockets hold.  *)
THEOREM StreamIsAligned == Spec => []StreamAligned
<1>1. Init => LiveInv
  BY DEF Init, LiveInv, Live, Connected
<1>2. LiveInv /\ IInv => StreamAligned
  <2> SUFFICES ASSUME LiveInv, IInv, cpc \in {"recv", "paused"}, spc[conn] \in {"stream", "held"},
                      sOpen[conn], conn \notin dead, ~stop
               PROVE  Len(part[adv.ver]) + DataUnderWay(conn) = sent[conn]
    BY DEF StreamAligned
  <2>1. cpc \in Connected
    BY DEF Connected, ClientPC
  <2>2. conn \in Conn /\ toClient[conn] \in Seq(SoundMsg)
    BY <2>1 DEF IInv, RunInv, NetInv
  <2>3. InStep(spc[conn], toClient[conn], toServer[conn], sent[conn])
    BY <2>1 DEF LiveInv, Live
  <2>4. Streaming(spc[conn], toClient[conn], sent[conn])
    BY <2>3 DEF InStep, Asked, Over
  <2>5. DataUnderWay(conn) = Len(toClient[conn])
    BY <2>2, <2>4, AllData DEF Streaming
  <2>6. QED  BY <2>4, <2>5 DEF Streaming
<1>3. Spec => []LiveInv
  BY <1>1, Inductive, LiveStep, PTL DEF Spec
<1>4. QED  BY <1>2, <1>3, Inductive, PTL
=============================================================================
