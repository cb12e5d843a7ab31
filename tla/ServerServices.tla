--------------------------- MODULE ServerServices ---------------------------
(***************************************************************************)
(* What serves every session of the server besides its own worker: the     *)
(* manifest with its reload thread (Manifest) and the logger (Logger), and *)
(* how main (src/server/server_main.c) creates the threads beside the      *)
(* workers and how cleanup_server takes everything down.  The acceptor     *)
(* logs its start, its connections and its end, the reload thread the      *)
(* outcome of each reload, a worker the decision it took with its copy of  *)
(* the manifest, main the end of the server.                               *)
(***************************************************************************)
EXTENDS Manifest, Logger

CONSTANTS
  Acceptor, Reloader, Main,  \* log_msg's callers beside the workers
  MaxAccepts                 \* bound on the connections in a behaviour

ASSUME ServicesAssumption ==
  /\ Thread = Reader \cup {Acceptor, Reloader, Main}
  /\ {Acceptor, Reloader, Main} \cap Reader = {}
  /\ Acceptor # Reloader /\ Acceptor # Main /\ Reloader # Main
  /\ MaxAccepts \in Nat

VARIABLES
  main,      \* where main stands: creating threads, serving, or in cleanup_server
  born,      \* those of acceptor_thread and reload_thread that were created
  marked,    \* g_acceptor_started and g_reloader_started
  acceptor,  \* where acceptor_thread stands
  accepts,   \* connections that may still come
  due        \* what was logged when logger_stop was called

startVars  == <<born, marked>>
acceptVars == <<acceptor, accepts>>
vars == <<manifestVars, loggerVars, main, startVars, acceptVars, due>>

MainPC == {"acceptor", "acceptor created", "reloader", "reloader created", "serving",
           "destroyed", "stopping", "ended"}

(* The workers run, the acceptor is the next thread main creates.          *)
Init ==
  /\ ManifestInit /\ LoggerInit
  /\ main = "acceptor" /\ born = {} /\ marked = {}
  /\ acceptor = "start" /\ accepts = MaxAccepts
  /\ due = [lines |-> 0, drops |-> 0]

(* log_msg as t's next step; then is what t does after it returned, own    *)
(* what t leaves alone until it does.                                      *)
Logging(t, then, own) ==
  \/ LogEnter(t) /\ IF started THEN UNCHANGED own ELSE then
  \/ LogPut(t) /\ then
-----------------------------------------------------------------------------
(* main creates the acceptor, then the reload thread.  g_running is read   *)
(* before pthread_create and once more before the flag is set by which     *)
(* cleanup_server knows the thread.  A pthread_create that fails clears    *)
(* g_running, as a signal just before it would.                            *)
Create(t, here, created, skipped) ==
  /\ main = here
  /\ IF running THEN main' = created /\ born' = born \cup {t}
                ELSE main' = skipped /\ UNCHANGED born
  /\ UNCHANGED <<manifestVars, loggerVars, marked, acceptVars, due>>

MarkStarted(t, created, after) ==
  /\ main = created /\ main' = after
  /\ marked' = IF running THEN marked \cup {t} ELSE marked
  /\ UNCHANGED <<manifestVars, loggerVars, born, acceptVars, due>>

StartThreads ==
  \/ Create(Acceptor, "acceptor", "acceptor created", "reloader")
  \/ MarkStarted(Acceptor, "acceptor created", "reloader")
  \/ Create(Reloader, "reloader", "reloader created", "serving")
  \/ MarkStarted(Reloader, "reloader created", "serving")
-----------------------------------------------------------------------------
(* acceptor_thread: a connection is accepted, and queued or turned away;   *)
(* either makes a line.                                                    *)
Accept ==
  /\ Acceptor \in born /\ acceptor = "loop" /\ running /\ accepts > 0
  /\ acceptor' = "line" /\ accepts' = accepts - 1
  /\ UNCHANGED <<manifestVars, loggerVars, main, startVars, due>>

AcceptorThread ==
  /\ Acceptor \in born
  /\ \/ acceptor = "start" /\ Logging(Acceptor, acceptor' = "loop", acceptor)
     \/ acceptor = "line"  /\ Logging(Acceptor, acceptor' = "loop", acceptor)
     \/ acceptor = "loop" /\ ~running /\ acceptor' = "stop" /\ UNCHANGED loggerVars
     \/ acceptor = "stop" /\ Logging(Acceptor, acceptor' = "gone", acceptor)
  /\ UNCHANGED <<manifestVars, main, startVars, accepts, due>>

ReloadThread ==
  /\ Reloader \in born
  /\ \/ ReloadWork /\ UNCHANGED loggerVars
     \/ reloader = "log" /\ Logging(Reloader, ReloadLogged, manifestVars)
  /\ UNCHANGED <<main, startVars, acceptVars, due>>

Worker(r) ==
  /\ \/ ReadWork(r) /\ UNCHANGED loggerVars
     \/ reader[r] = "use" /\ Logging(r, ReadLogged(r), manifestVars)
  /\ UNCHANGED <<main, startVars, acceptVars, due>>
-----------------------------------------------------------------------------
(* cleanup_server: the threads that are known to run and the workers are   *)
(* joined, then vm_destroy.                                                *)
ThreadsJoined == (Acceptor \in marked => acceptor = "gone") /\ (Reloader \in marked => reloader = "gone")
WorkersJoined == \A r \in Reader : reader[r] = "gone"
AllJoined     == ThreadsJoined /\ WorkersJoined

Destroy ==
  /\ main = "serving" /\ ~running /\ AllJoined
  /\ main' = "destroyed"
  /\ UNCHANGED <<manifestVars, loggerVars, startVars, acceptVars, due>>

(* SERVER_SHUTDOWN is logged, then logger_stop is called.                  *)
SayGoodbye ==
  /\ main = "destroyed" /\ Logging(Main, main' = "stopping", main)
  /\ UNCHANGED <<manifestVars, startVars, acceptVars, due>>

StopLogger ==
  /\ main = "stopping"
  /\ \/ StopAsk /\ due' = [lines |-> Len(accepted), drops |-> lost] /\ UNCHANGED main
     \/ StopJoin /\ main' = "ended" /\ UNCHANGED due
  /\ UNCHANGED <<manifestVars, startVars, acceptVars>>

MainThread == StartThreads \/ Destroy \/ SayGoodbye \/ StopLogger
Quiet      == UNCHANGED <<main, startVars, acceptVars, due>>
Log        == LoggerThread /\ UNCHANGED manifestVars /\ Quiet

Next ==
  \/ AcceptorThread \/ Accept \/ ReloadThread \/ (\E r \in Reader : Worker(r))
  \/ MainThread \/ Log
  \/ WriterWakesUp /\ UNCHANGED manifestVars /\ Quiet
  \/ (Operator \/ SigTerm) /\ UNCHANGED loggerVars /\ Quiet

Spec == Init /\ [][Next]_vars

(* Every thread that can run does.  Nobody has to connect, to send a       *)
(* signal or to edit a file.                                               *)
Fairness ==
  /\ WF_vars(AcceptorThread) /\ WF_vars(ReloadThread) /\ WF_vars(MainThread) /\ WF_vars(Log)
  /\ \A r \in Reader : WF_vars(Worker(r))

FairSpec == Spec /\ Fairness
-----------------------------------------------------------------------------
TypeOK ==
  /\ ManifestTypeOK /\ LoggerTypeOK
  /\ main \in MainPC /\ born \subseteq {Acceptor, Reloader} /\ marked \subseteq born
  /\ acceptor \in {"start", "loop", "line", "stop", "gone"} /\ accepts \in 0..MaxAccepts
  /\ due \in [lines : Nat, drops : Nat]

(* On shutdown the queue is drained before the logger is gone: whatever    *)
(* the threads logged up to their last step is in the file when the server *)
(* ends, and every line the full queue refused is counted in it.           *)
NoLostLogs ==
  main = "ended" => Written = Accepted /\ Reported = lost /\ calls = Len(accepted) + lost

(* That is so when cleanup_server knew, and so joined, every thread that   *)
(* was created.                                                            *)
JoinedLogsKept == born \subseteq marked => NoLostLogs

(* Also when it did not, logger_stop keeps what was logged before it was   *)
(* called: a thread that goes on logging loses lines of its own at most.   *)
LogsBeforeStopKept ==
  main = "ended" =>
    /\ Len(Written) >= due.lines /\ Written = SubSeq(Accepted, 1, Len(Written))
    /\ Reported >= due.drops

(* A server that was told to stop ends, also with a full log queue, a      *)
(* reload under way, a snapshot being taken and a thread nobody joins.     *)
ShutdownEnds == ~running ~> main = "ended"
=============================================================================
