----------------------------- MODULE ClipServer -----------------------------
(***************************************************************************)
(* What ClipExtractor (src/capture/clip_extractor.cpp) promises the thread  *)
(* that calls request_clip_sync(): there is one, the control thread.  The   *)
(* clips themselves, the queue and the clock are left out; what is left is  *)
(* how many requests the worker has yet to serve.                           *)
(***************************************************************************)
EXTENDS Integers

VARIABLES
    running,  \* running_
    worker,   \* worker thread: none, up, exited; threw when an exception has
              \* left the thread, and ended the process
    pending,  \* requests made and not yet served
    call      \* the caller: idle, waiting

vars == <<running, worker, pending, call>>

Init == running = FALSE /\ worker = "none" /\ pending = 0 /\ call = "idle"

Start ==
    /\ worker = "none"
    /\ running' = TRUE /\ worker' = "up"
    /\ UNCHANGED <<pending, call>>

Stop ==
    /\ running
    /\ running' = FALSE
    /\ UNCHANGED <<worker, pending, call>>

(* A request is queued whether or not there is anybody to serve it.         *)
Ask ==
    /\ call = "idle"
    /\ call' = "waiting" /\ pending' = pending + 1
    /\ UNCHANGED <<running, worker>>

(* The requests are served in order, so that the caller's is the last.      *)
Return ==
    /\ call = "waiting"
    /\ pending = 0 \/ ~running
    /\ call' = "idle"
    /\ UNCHANGED <<running, worker, pending>>

(* Mutant: a result for a request nobody made.                              *)
ServeNothing ==
    /\ worker = "up"
    /\ pending' = pending - 1
    /\ UNCHANGED <<running, worker, call>>

Serve ==
    /\ worker = "up" /\ pending > 0
    /\ pending' = pending - 1
    /\ UNCHANGED <<running, worker, call>>

(* A worker that is stopped serves what is queued before it leaves.         *)
Leave ==
    /\ worker = "up" /\ ~running /\ pending = 0
    /\ worker' = "exited"
    /\ UNCHANGED <<running, pending, call>>

(* A clip for whose samples there is no memory.                             *)
Throw ==
    /\ worker = "up" /\ pending > 0
    /\ worker' = "threw"
    /\ UNCHANGED <<running, pending, call>>

Next == Start \/ Stop \/ Ask \/ Return \/ Serve \/ Leave \/ Throw

Spec == Init /\ [][Next]_vars

(* The specification, and the progress its users count on: the worker does  *)
(* not rest while there is a request to serve or it is to leave, which is   *)
(* weak fairness of its steps written out, and a call comes back unless the *)
(* process ends.  That the queue is ever empty is not promised: requests    *)
(* may come as fast as they are served, also to a worker that is to leave.  *)
Promise ==
    /\ Spec
    /\ \/ []<>~(worker = "up" /\ (pending > 0 \/ ~running))
       \/ []<><<Serve \/ Leave \/ Throw>>_vars
    /\ call = "waiting" ~> call = "idle" \/ worker = "threw"
=============================================================================
