------------------------------ MODULE BlockLog ------------------------------
(***************************************************************************)
(* What BlockRecorder (src/capture/block_recorder.cpp) records: one stream  *)
(* of bytes, taken in order from its beginning, a whole number of frames at *)
(* a time, into blocks of BlockFrames each.  The ring, the write buffer and *)
(* the threads between push() and the files are left out.                   *)
(*                                                                         *)
(* Bytes are numbered from 0 in the order push() accepts them, and a frame  *)
(* is named by the number of its first byte.                                *)
(***************************************************************************)
EXTENDS Integers, Sequences

CONSTANTS BytesPerFrame,  \* bytes_per_frame_
          BlockFrames,    \* block_frames_
          Periods,        \* the lengths of the periods ALSA delivers
          DiskFails       \* whether sf_open and sf_writef may fail

VARIABLES
    accepted,      \* bytes that push() has accepted
    passed,        \* those of them that have been written or thrown away
    blocks,        \* per file opened, the frames in it
    fileOpen,      \* sndfile_ is not null
    framesInBlock  \* frames_in_block_

vars == <<accepted, passed, blocks, fileOpen, framesInBlock>>

FrameWaiting == accepted - passed >= BytesPerFrame

(* push() accepts a period whole.                                           *)
Accept(n) ==
    /\ accepted' = accepted + n * BytesPerFrame
    /\ UNCHANGED <<passed, blocks, fileOpen, framesInBlock>>

(* A file is opened for a frame that is there to be written.                *)
Open ==
    /\ ~fileOpen /\ FrameWaiting
    /\ fileOpen' = TRUE
    /\ blocks' = Append(blocks, << >>)
    /\ framesInBlock' = 0
    /\ UNCHANGED <<accepted, passed>>

(* The next frames go into the open file, as many as still fit the block;   *)
(* of those a failing disk takes the first ones.  A full block is closed.   *)
Write(batch, written) ==
    /\ fileOpen
    /\ batch \in 1..(BlockFrames - framesInBlock)
    /\ passed + batch * BytesPerFrame <= accepted
    /\ written = batch \/ (DiskFails /\ written \in 0..batch)
    /\ passed' = passed + batch * BytesPerFrame
    /\ blocks' = [blocks EXCEPT ![Len(blocks)] =
                    @ \o [k \in 1..written |->
                            passed + (k - 1) * BytesPerFrame]]
    /\ framesInBlock' = framesInBlock + batch
    /\ fileOpen' = (framesInBlock' < BlockFrames)
    /\ UNCHANGED accepted

(* Without a file some of what waits is thrown away, at least a frame.      *)
Lose(bytes) ==
    /\ DiskFails /\ ~fileOpen
    /\ bytes \in BytesPerFrame..(accepted - passed)
    /\ passed' = passed + bytes
    /\ UNCHANGED <<accepted, blocks, fileOpen, framesInBlock>>

(* The last block is closed early, when no whole frame waits.               *)
Close ==
    /\ fileOpen /\ ~FrameWaiting
    /\ fileOpen' = FALSE
    /\ UNCHANGED <<accepted, passed, blocks, framesInBlock>>

Init ==
    /\ accepted = 0 /\ passed = 0
    /\ blocks = << >> /\ fileOpen = FALSE /\ framesInBlock = 0

Next ==
    \/ \E n \in Periods : Accept(n)
    \/ Open
    \/ \E batch \in 1..BlockFrames : \E written \in 0..batch :
           Write(batch, written)
    \/ \E bytes \in 1..(accepted - passed) : Lose(bytes)
    \/ Close

Spec == Init /\ [][Next]_vars
=============================================================================
