--------------------------- MODULE RecorderWakeup ---------------------------
(***************************************************************************)
(* How the capture thread, the writer thread and stop() of BlockRecorder    *)
(* (src/capture/block_recorder.cpp) wake one another: the ring is the       *)
(* number of bytes in it, and what the writer does with them is left out.   *)
(* Nothing is counted for ever, so this module is the one to ask what       *)
(* happens in the long run; BlockRecorder implements it.                    *)
(*                                                                         *)
(* Neither push() nor stop() holds writer_mutex_ when it notifies, so a     *)
(* notification that falls between the writer's look at its predicate and   *)
(* its sleep reaches nobody.                                                *)
(***************************************************************************)
EXTENDS Integers

CONSTANTS Ring,       \* ring_capacity_, in bytes
          Threshold,  \* flush_threshold_, in bytes
          Periods,    \* the sizes of the periods, in bytes
          DiskFails   \* whether open_next_file() may fail

ASSUME WakeupAssumption ==
    /\ Ring \in Nat \ {0} /\ Threshold \in Nat \ {0}
    /\ Periods \subseteq Nat \ {0} /\ DiskFails \in BOOLEAN

VARIABLES
    used,     \* bytes in the ring, ring_write_ - ring_read_
    pushing,  \* bytes push() has copied and not yet made visible
    cpc,      \* the capture thread: idle, store, notify, joined
    wpc,      \* the writer thread
    running,  \* writer_running_
    spc       \* stop(): running, notify, join, stopped

vars == <<used, pushing, cpc, wpc, running, spc>>

-----------------------------------------------------------------------------
(* The capture thread: push().  A period that does not fit is dropped and   *)
(* nobody is told, which here is a step that changes nothing.               *)
(* Mutant: the room in the ring is not looked at.                           *)
PushOverwriting(b) ==
    /\ cpc = "idle"
    /\ pushing' = b
    /\ cpc' = "store"
    /\ UNCHANGED <<used, wpc>>

PushCopy(b) ==
    /\ cpc = "idle"
    /\ b <= Ring - used
    /\ pushing' = b
    /\ cpc' = "store"
    /\ UNCHANGED <<used, wpc>>

PushStore ==
    /\ cpc = "store"
    /\ used' = used + pushing
    /\ pushing' = 0
    /\ cpc' = "notify"
    /\ UNCHANGED wpc

(* notify_one(): it finds the writer asleep, or it is lost.                 *)
NotifyOne == wpc' = IF wpc = "asleep" THEN "check" ELSE wpc

(* Mutant: push() stores and leaves the writer to wake by itself.           *)
PushSilently ==
    /\ cpc = "notify"
    /\ cpc' = "idle"
    /\ UNCHANGED <<used, pushing, wpc>>

PushNotify ==
    /\ cpc = "notify"
    /\ cpc' = "idle"
    /\ NotifyOne
    /\ UNCHANGED <<used, pushing>>

Capture ==
    /\ (\E b \in Periods : PushCopy(b)) \/ PushStore \/ PushNotify
    /\ UNCHANGED <<running, spc>>

-----------------------------------------------------------------------------
(* The writer thread.                                                       *)
WaitCheck ==
    /\ wpc = "check"
    /\ wpc' = IF used >= Threshold \/ ~running THEN "drain" ELSE "toSleep"
    /\ UNCHANGED used

FallAsleep == wpc = "toSleep" /\ wpc' = "asleep" /\ UNCHANGED used

SpuriousWake == wpc = "asleep" /\ wpc' = "check" /\ UNCHANGED used

Take(k) == wpc = "drain" /\ wpc' = "took" /\ used' = used - k

(* The frames taken have been written; or no file could be opened for them, *)
(* and the drain is broken off with the rest of the ring where it is.       *)
Continue == wpc = "took" /\ wpc' = "drain" /\ UNCHANGED used
Abandon == wpc = "took" /\ DiskFails /\ wpc' = "drained" /\ UNCHANGED used

RingEmpty == wpc = "drain" /\ used = 0 /\ wpc' = "drained" /\ UNCHANGED used

(* Mutant: the writer leaves as soon as it is told to, drained or not.      *)
LeaveUndrained ==
    /\ wpc = "drained"
    /\ wpc' = IF ~running THEN "exited" ELSE "check"
    /\ UNCHANGED used

LeaveOrWait ==
    /\ wpc = "drained"
    /\ wpc' = IF ~running /\ used = 0 THEN "exited" ELSE "check"
    /\ UNCHANGED used

Writer ==
    /\ \/ WaitCheck \/ FallAsleep
       \/ \E k \in 1..used : Take(k)
       \/ Continue \/ Abandon \/ RingEmpty \/ LeaveOrWait
    /\ UNCHANGED <<pushing, cpc, running, spc>>

Spurious == SpuriousWake /\ UNCHANGED <<pushing, cpc, running, spc>>

-----------------------------------------------------------------------------
(* The main thread: stop(), once the capture thread has been joined.        *)
StopFlag ==
    /\ spc = "running" /\ cpc = "idle"
    /\ cpc' = "joined" /\ running' = FALSE /\ spc' = "notify"
    /\ UNCHANGED wpc

StopNotify ==
    /\ spc = "notify"
    /\ NotifyOne
    /\ spc' = "join"
    /\ UNCHANGED <<cpc, running>>

StopJoin ==
    /\ spc = "join" /\ wpc = "exited"
    /\ spc' = "stopped"
    /\ UNCHANGED <<cpc, running, wpc>>

StopEnds == (StopNotify \/ StopJoin) /\ UNCHANGED <<used, pushing>>
Stop     == StopEnds \/ (StopFlag /\ UNCHANGED <<used, pushing>>)

-----------------------------------------------------------------------------
Init ==
    /\ used = 0 /\ pushing = 0
    /\ cpc = "idle" /\ wpc = "check"
    /\ running = TRUE /\ spc = "running"

Next == Capture \/ Writer \/ Spurious \/ Stop

Spec == Init /\ [][Next]_vars

(* The sound card delivers periods for as long as capture runs, the writer  *)
(* is scheduled when it can run, and stop() finishes what it began.         *)
FairSpec ==
    /\ Spec
    /\ WF_vars(Capture) /\ WF_vars(Writer) /\ WF_vars(StopEnds)

-----------------------------------------------------------------------------
(* Every variable holds a value of its kind, and the ring is never asked    *)
(* for more than it holds.                                                  *)
TypeOK ==
    /\ used \in 0..Ring
    /\ pushing \in Periods \cup {0}
    /\ cpc \in {"idle", "store", "notify", "joined"}
    /\ wpc \in {"check", "toSleep", "asleep", "drain", "took", "drained",
                "exited"}
    /\ running \in BOOLEAN
    /\ spc \in {"running", "notify", "join", "stopped"}

(* block_recorder.hpp:46, the writer is to "drain remaining data and exit": *)
(* it leaves an empty ring behind, and nobody is still pushing.             *)
LeavesEmptyRing == wpc = "exited" => used = 0 /\ pushing = 0 /\ ~running

(* A lost notification of push() is made up for by the next push, for as    *)
(* long as there is one: the sleeping writer of a full enough ring drains   *)
(* it once a period more has found room.                                    *)
WokenByNextPush ==
    (wpc = "asleep" /\ used >= Threshold /\ \A b \in Periods : b <= Ring - used)
        ~> (wpc = "drain" \/ spc # "running")

(* block_recorder.cpp:31-32, the ring is there "so the writer thread can    *)
(* survive an fsync stall": a ring full enough to be drained is drained,    *)
(* however full it has become in the meantime.                              *)
RecoversFromStall ==
    used >= Threshold ~> (wpc = "drain" \/ spc # "running")
=============================================================================
