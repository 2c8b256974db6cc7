--------------------------- MODULE ControlServer ---------------------------
(***************************************************************************)
(* The control thread as the rest of the daemon sees it: the accept loop of *)
(* ControlSocket (src/utils/control_socket.cpp), which serves one client at *)
(* a time, reads from it once, and may have to wait for the clip worker.    *)
(* Daemon starts and stops it; ControlSocket adds the clients, their        *)
(* commands and what is done with them.                                     *)
(***************************************************************************)
EXTENDS Naturals

VARIABLES
    control,    \* none, accept, recv, clip, reply, exited; threw when an
                \* exception has left the thread, as in worker
    listening,  \* running_, and the listening socket
    running,    \* ClipExtractor: see ClipServer
    worker,
    pending

clipVars == <<running, worker, pending>>

Clips == INSTANCE ClipServer
         WITH call <- IF control = "clip" THEN "waiting" ELSE "idle"

(* An exception that leaves a thread ends the process.                      *)
Alive == control # "threw" /\ worker # "threw"

Step(from, to) == control = from /\ control' = to /\ UNCHANGED listening

-----------------------------------------------------------------------------
(* start() and stop(), called by the main thread; stop() then joins.        *)
StartSocket ==
    /\ control = "none" /\ control' = "accept"
    /\ listening' = TRUE
    /\ UNCHANGED clipVars

StopSocket ==
    /\ listening /\ listening' = FALSE
    /\ UNCHANGED <<control, clipVars>>

-----------------------------------------------------------------------------
Accept     == Step("accept", "recv") /\ listening /\ UNCHANGED clipVars
AcceptEnds == Step("accept", "exited") /\ ~listening /\ UNCHANGED clipVars

(* recv() returns nothing: the client has left, or the five seconds of      *)
(* SO_RCVTIMEO are over.                                                    *)
RecvNothing == Step("recv", "accept") /\ UNCHANGED clipVars

(* A command that is answered at once, and one whose handler throws.        *)
Handle == Step("recv", "reply") /\ UNCHANGED clipVars
Throw  == Step("recv", "threw") /\ UNCHANGED clipVars

(* request_clip_sync()                                                      *)
ClipCommand == Step("recv", "clip") /\ Clips!Ask

(* Mutant: request_clip_sync() waits for its result alone.                  *)
AwaitResult  == Step("clip", "reply") /\ Clips!Return /\ pending = 0
ClipAnswered == Step("clip", "reply") /\ Clips!Return

Reply == Step("reply", "accept") /\ UNCHANGED clipVars

(* The steps that need no client: accept() may wait for ever, a command     *)
(* need not come.                                                           *)
ControlStep ==
    AcceptEnds \/ RecvNothing \/ Handle \/ Throw \/ ClipCommand \/ ClipAnswered
    \/ Reply

ClipStep == Clips!Serve \/ Clips!Leave \/ Clips!Throw

ControlInit ==
    /\ control = "none" /\ listening = FALSE
    /\ running = FALSE /\ worker = "none" /\ pending = 0

ControlTypes ==
    /\ control \in {"none", "accept", "recv", "clip", "reply", "exited", "threw"}
    /\ listening \in BOOLEAN
    /\ running \in BOOLEAN
    /\ worker \in {"none", "up", "exited", "threw"}
    /\ pending \in Nat
=============================================================================
