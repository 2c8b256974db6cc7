------------------------ MODULE RecorderWakeup_proofs ------------------------
(***************************************************************************)
(* The safety of the wake-up protocol of BlockRecorder, for rings,          *)
(* thresholds and periods of every size.                                    *)
(***************************************************************************)
EXTENDS RecorderWakeup, TLAPS

(* What push() is copying fits into what the writer has left free, although *)
(* push() looked at the ring before the writer's last steps.                *)
CopyFits ==
    /\ used + pushing <= Ring
    /\ cpc # "store" => pushing = 0

(* stop() has taken the capture thread's place before it tells the writer.  *)
StopOwnsPush == ~running => cpc = "joined"

IInv == TypeOK /\ CopyFits /\ StopOwnsPush /\ LeavesEmptyRing

-----------------------------------------------------------------------------
(* Nothing is pushed before the threads run.                                *)
LEMMA InitIInv == Init => IInv
BY WakeupAssumption
   DEF Init, IInv, TypeOK, CopyFits, StopOwnsPush, LeavesEmptyRing

(* push() keeps inside the room it has seen.                                *)
LEMMA CaptureIInv == IInv /\ Capture => IInv'
<1> SUFFICES ASSUME IInv, Capture PROVE IInv'
  OBVIOUS
<1> USE WakeupAssumption
    DEF IInv, TypeOK, CopyFits, StopOwnsPush, LeavesEmptyRing
<1>1. ASSUME NEW b \in Periods, PushCopy(b), UNCHANGED <<running, spc>>
      PROVE IInv'
  BY <1>1 DEF PushCopy
<1>2. ASSUME PushStore, UNCHANGED <<running, spc>> PROVE IInv'
  BY <1>2 DEF PushStore
<1>3. ASSUME PushNotify, UNCHANGED <<running, spc>> PROVE IInv'
  BY <1>3 DEF PushNotify, NotifyOne
<1> QED
  BY <1>1, <1>2, <1>3 DEF Capture

(* The writer only ever makes room, and leaves when there is nothing to     *)
(* take and nobody to push.                                                 *)
LEMMA WriterIInv == IInv /\ (Writer \/ Spurious) => IInv'
<1> SUFFICES ASSUME IInv, Writer \/ Spurious PROVE IInv'
  OBVIOUS
<1> USE WakeupAssumption
    DEF IInv, TypeOK, CopyFits, StopOwnsPush, LeavesEmptyRing
<1>0. UNCHANGED <<pushing, cpc, running, spc>>
  BY DEF Writer, Spurious
<1>1. CASE WaitCheck
  BY <1>0, <1>1 DEF WaitCheck
<1>2. CASE FallAsleep
  BY <1>0, <1>2 DEF FallAsleep
<1>3. CASE SpuriousWake
  BY <1>0, <1>3 DEF SpuriousWake
<1>4. ASSUME NEW k \in 1..used, Take(k) PROVE IInv'
  BY <1>0, <1>4 DEF Take
<1>5. CASE Continue
  BY <1>0, <1>5 DEF Continue
<1>6. CASE Abandon
  BY <1>0, <1>6 DEF Abandon
<1>7. CASE RingEmpty
  BY <1>0, <1>7 DEF RingEmpty
<1>8. CASE LeaveOrWait
  BY <1>0, <1>8 DEF LeaveOrWait
<1> QED
  BY <1>1, <1>2, <1>3, <1>4, <1>5, <1>6, <1>7, <1>8 DEF Writer, Spurious

(* stop() begins when no push is under way, so what it finds in the ring is *)
(* all there will be.                                                       *)
LEMMA StopIInv == IInv /\ Stop => IInv'
<1> SUFFICES ASSUME IInv, Stop PROVE IInv'
  OBVIOUS
<1> USE WakeupAssumption
    DEF IInv, TypeOK, CopyFits, StopOwnsPush, LeavesEmptyRing
<1>0. UNCHANGED <<used, pushing>>
  BY DEF Stop, StopEnds
<1>1. CASE StopFlag
  BY <1>0, <1>1 DEF StopFlag
<1>2. CASE StopNotify
  BY <1>0, <1>2 DEF StopNotify, NotifyOne
<1>3. CASE StopJoin
  BY <1>0, <1>3 DEF StopJoin
<1> QED
  BY <1>1, <1>2, <1>3 DEF Stop, StopEnds

(* IInv is inductive.                                                       *)
LEMMA Invariance == Spec => []IInv
<1>1. IInv /\ UNCHANGED vars => IInv'
  BY DEF IInv, TypeOK, CopyFits, StopOwnsPush, LeavesEmptyRing, vars
<1>2. IInv /\ [Next]_vars => IInv'
  BY <1>1, CaptureIInv, WriterIInv, StopIInv DEF Next
<1> QED
  BY InitIInv, <1>2, PTL DEF Spec

-----------------------------------------------------------------------------
(* The cursors of push() and of the writer never leave the ring, whatever   *)
(* the sizes.                                                               *)
THEOREM TypeCorrect == Spec => []TypeOK
<1>1. IInv => TypeOK
  BY DEF IInv
<1> QED
  BY Invariance, <1>1, PTL

(* block_recorder.hpp:46: a writer that has left has drained the ring, and  *)
(* nothing can be pushed behind its back.                                   *)
THEOREM WriterDrains == Spec => []LeavesEmptyRing
<1>1. IInv => LeavesEmptyRing
  BY DEF IInv
<1> QED
  BY Invariance, <1>1, PTL
=============================================================================
