---------------------------- MODULE MCThreadPool ----------------------------
(***************************************************************************)
(* ThreadPool with three workers over a ring of two slots and four         *)
(* connections: the indices wrap, two wakeups can be pending at once, a    *)
(* third worker can overtake a woken one, and the queue can be full with   *)
(* every worker but one busy.                                              *)
(***************************************************************************)
EXTENDS ThreadPool
=============================================================================
