---------------------------- MODULE BlockRecorder ----------------------------
(***************************************************************************)
(* BlockRecorder (src/capture/block_recorder.cpp): the capture thread       *)
(* pushes periods into a single-producer single-consumer ring of bytes; the *)
(* writer thread sleeps on a condition variable, drains the ring into a     *)
(* write buffer and cuts the frames into files of BlockFrames each.         *)
(*                                                                         *)
(* Bytes are numbered in the order push() accepts them, and a frame is      *)
(* named by the number of its first byte.  The sound card is the clock:     *)
(* second s is the one in which frames s * Rate .. s * Rate + Rate - 1 are  *)
(* captured.  CapturePipeline::stop() joins the capture thread before it    *)
(* stops the recorder, so recording_ is true whenever push() is called.     *)
(***************************************************************************)
EXTENDS Integers, Sequences

CONSTANTS Rate,           \* sample_rate_, frames per second
          BytesPerFrame,  \* bytes_per_frame_
          BlockSeconds,   \* config_.block_duration_seconds
          FlushFloor,     \* the 65536 of the constructor
          WordMod,        \* 2^w for the w bits of size_t
          Periods,        \* the lengths of the periods ALSA delivers
          DiskFails,      \* whether sf_open and sf_writef may fail
          MaxFrames       \* bound: frames captured in a behaviour

ASSUME RecorderAssumption ==
    /\ Rate \in Nat \ {0} /\ BytesPerFrame \in Nat \ {0}
    /\ BlockSeconds \in Nat \ {0} /\ FlushFloor \in Nat \ {0}
    /\ WordMod \in Nat \ {0} /\ Periods \subseteq Nat \ {0}
    /\ DiskFails \in BOOLEAN /\ MaxFrames \in Nat

VARIABLES
    ring,           \* ring_
    ringWrite,      \* ring_write_
    ringRead,       \* ring_read_
    captured,       \* history: frames captured
    accepted,       \* history: bytes push() has made visible
    dropped,        \* history: frames push() has dropped
    cpc,            \* the capture thread: idle, store, notify, joined
    period,         \* push(): frame_count
    wpc,            \* the writer thread
    writerRunning,  \* writer_running_
    chunk,          \* the writer's chunk
    writeBuffer,    \* write_buffer_, the buffer_used_ bytes still to write
    fileOpen,       \* sndfile_ is not null
    files,          \* history: every file opened, its name and its frames
    framesInBlock,  \* frames_in_block_
    blocksWritten,  \* blocks_written_
    framesWritten,  \* total_frames_written_
    lost,           \* history: bytes thrown away after a disk error
    spc             \* stop(): running, notify, join, stopped

captureVars == <<ring, ringWrite, captured, accepted, dropped, period>>
fileVars    == <<fileOpen, files, framesInBlock, blocksWritten, framesWritten,
                 lost>>
vars == <<captureVars, cpc, ringRead, wpc, writerRunning, chunk, writeBuffer,
          fileVars, spc>>

-----------------------------------------------------------------------------
(* The sizes the constructor computes.                                      *)
OneSecond      == Rate * BytesPerFrame
BlockFrames    == BlockSeconds * Rate
FlushThreshold == IF OneSecond >= FlushFloor THEN OneSecond ELSE FlushFloor
NextPow2(v)    == CHOOSE p \in {2^k : k \in 0..v} : v <= p /\ p < 2 * v

(* Mutant: a ring for one second instead of four.                           *)
RingForOneSecond == NextPow2(OneSecond)
RingCapacity     == NextPow2(4 * OneSecond)
BufferSize       == 2 * FlushThreshold

(* The capacity is a power of two, and so is the word of the cursors, which *)
(* has more bits.                                                           *)
ASSUME RingAssumption ==
    /\ RingCapacity \in Nat \ {0}
    /\ RingCapacity < WordMod /\ WordMod % RingCapacity = 0

Lesser(a, b) == IF a <= b THEN a ELSE b

(* Bytes between the cursors; "works due to unsigned wraparound".           *)
(* Mutant: the difference of the cursors without the wrap of the word.      *)
UsedIgnoringWrap == IF ringWrite >= ringRead THEN ringWrite - ringRead ELSE 0
Used == (ringWrite - ringRead) % WordMod

Now == captured \div Rate

-----------------------------------------------------------------------------
(* The capture thread: push().                                              *)
NotifyNobody == UNCHANGED wpc
NotifyOne == wpc' = IF wpc = "asleep" THEN "check" ELSE wpc

PushDrop(n) ==
    /\ cpc = "idle"
    /\ captured + n <= MaxFrames
    /\ n * BytesPerFrame > RingCapacity - Used
    /\ captured' = captured + n
    /\ dropped' = dropped + n
    /\ UNCHANGED <<ring, ringWrite, ringRead, accepted, cpc, period, wpc>>

(* Mutant: the room in the ring is not looked at.                           *)
PushOverwriting(n) ==
    /\ cpc = "idle"
    /\ captured + n <= MaxFrames
    /\ ring' = [j \in 0..(RingCapacity - 1) |->
                  LET i == (j - ringWrite) % RingCapacity
                  IN IF i < n * BytesPerFrame THEN accepted + i ELSE ring[j]]
    /\ captured' = captured + n
    /\ period' = n
    /\ cpc' = "store"
    /\ UNCHANGED <<ringWrite, ringRead, accepted, dropped, wpc>>

PushCopy(n) ==
    /\ cpc = "idle"
    /\ captured + n <= MaxFrames
    /\ n * BytesPerFrame <= RingCapacity - Used
    /\ ring' = [j \in 0..(RingCapacity - 1) |->
                  LET i == (j - ringWrite) % RingCapacity
                  IN IF i < n * BytesPerFrame THEN accepted + i ELSE ring[j]]
    /\ captured' = captured + n
    /\ period' = n
    /\ cpc' = "store"
    /\ UNCHANGED <<ringWrite, ringRead, accepted, dropped, wpc>>

PushStore ==
    /\ cpc = "store"
    /\ ringWrite' = (ringWrite + period * BytesPerFrame) % WordMod
    /\ accepted' = accepted + period * BytesPerFrame
    /\ cpc' = "notify"
    /\ UNCHANGED <<ring, ringRead, captured, dropped, period, wpc>>

(* Mutant: push() leaves the writer to its timeout, which it has not.       *)
PushSilently ==
    /\ cpc = "notify"
    /\ cpc' = "idle"
    /\ NotifyNobody
    /\ UNCHANGED <<captureVars, ringRead>>

PushNotify ==
    /\ cpc = "notify"
    /\ cpc' = "idle"
    /\ NotifyOne
    /\ UNCHANGED <<captureVars, ringRead>>

Capture ==
    /\ \/ \E n \in Periods : PushDrop(n) \/ PushCopy(n)
       \/ PushStore \/ PushNotify
    /\ UNCHANGED <<writerRunning, chunk, writeBuffer, fileVars, spc>>

-----------------------------------------------------------------------------
(* The writer thread.  The predicate is evaluated with writer_mutex_ held,  *)
(* which neither push() nor stop() takes: a notification between the check  *)
(* and the sleep reaches nobody.                                            *)
WaitCheck ==
    /\ wpc = "check"
    /\ wpc' = IF Used >= FlushThreshold \/ ~writerRunning
              THEN "drain" ELSE "toSleep"
    /\ UNCHANGED <<ringRead, chunk, writeBuffer, fileVars>>

FallAsleep ==
    /\ wpc = "toSleep"
    /\ wpc' = "asleep"
    /\ UNCHANGED <<ringRead, chunk, writeBuffer, fileVars>>

SpuriousWake ==
    /\ wpc = "asleep"
    /\ wpc' = "check"
    /\ UNCHANGED <<ringRead, chunk, writeBuffer, fileVars>>

DrainCopy ==
    /\ wpc = "drain"
    /\ Used > 0
    /\ chunk' = Lesser(Used, BufferSize - Len(writeBuffer))
    /\ writeBuffer' = writeBuffer \o
           [i \in 1..chunk' |-> ring[(ringRead + i - 1) % RingCapacity]]
    /\ wpc' = "release"
    /\ UNCHANGED <<ringRead, fileVars>>

(* Mutant: everything pushed so far is given back, not what was copied.     *)
DrainReleaseAll ==
    /\ wpc = "release"
    /\ ringRead' = ringWrite
    /\ chunk' = 0
    /\ wpc' = "frames"
    /\ UNCHANGED <<writeBuffer, fileVars>>

DrainRelease ==
    /\ wpc = "release"
    /\ ringRead' = (ringRead + chunk) % WordMod
    /\ chunk' = 0
    /\ wpc' = "frames"
    /\ UNCHANGED <<writeBuffer, fileVars>>

(* No whole frame is left in the write buffer: back to the ring.            *)
(* Mutant: the leftover of a frame is not kept.                             *)
FramesDoneClearing ==
    /\ wpc = "frames"
    /\ Len(writeBuffer) < BytesPerFrame
    /\ writeBuffer' = << >>
    /\ wpc' = "drain"
    /\ UNCHANGED <<ringRead, chunk, fileVars>>

FramesDone ==
    /\ wpc = "frames"
    /\ Len(writeBuffer) < BytesPerFrame
    /\ wpc' = "drain"
    /\ UNCHANGED <<ringRead, chunk, writeBuffer, fileVars>>

(* open_next_file() fails: the write buffer is thrown away, with the bytes  *)
(* of a frame whose rest is still in the ring, if there are any.            *)
OpenFails ==
    /\ wpc = "frames"
    /\ Len(writeBuffer) >= BytesPerFrame
    /\ DiskFails /\ ~fileOpen
    /\ lost' = lost + Len(writeBuffer)
    /\ writeBuffer' = << >>
    /\ wpc' = "drained"
    /\ UNCHANGED <<ringRead, chunk, fileOpen, files, framesInBlock,
                   blocksWritten, framesWritten>>

OpenFile ==
    /\ wpc = "frames"
    /\ Len(writeBuffer) >= BytesPerFrame
    /\ ~fileOpen
    /\ fileOpen' = TRUE
    /\ files' = Append(files, [name |-> Now, frames |-> << >>])
    /\ framesInBlock' = 0
    /\ UNCHANGED <<ringRead, chunk, writeBuffer, wpc, blocksWritten,
                   framesWritten, lost>>

(* The frames that go into the open file in one call of sf_writef.          *)
(* Mutant: the block's remaining space is not looked at.                    *)
BatchUncut == Len(writeBuffer) \div BytesPerFrame
WriteBatch == Lesser(Len(writeBuffer) \div BytesPerFrame,
                     BlockFrames - framesInBlock)

(* sf_writef takes some prefix of the batch, all of it unless the disk      *)
(* fails; frames_in_block_ advances by the batch either way.                *)
WriteFrames(written) ==
    /\ wpc = "frames"
    /\ Len(writeBuffer) >= BytesPerFrame
    /\ fileOpen
    /\ written = WriteBatch \/ DiskFails
    /\ files' = [files EXCEPT ![Len(files)].frames =
                   @ \o [k \in 1..written |->
                           writeBuffer[(k - 1) * BytesPerFrame + 1]]]
    /\ framesWritten' = framesWritten + written
    /\ lost' = lost + (WriteBatch - written) * BytesPerFrame
    /\ framesInBlock' = framesInBlock + WriteBatch
    /\ writeBuffer' = SubSeq(writeBuffer, WriteBatch * BytesPerFrame + 1,
                             Len(writeBuffer))
    /\ fileOpen' = (framesInBlock' < BlockFrames)
    /\ blocksWritten' = IF fileOpen' THEN blocksWritten ELSE blocksWritten + 1
    /\ UNCHANGED <<ringRead, chunk, wpc>>

RingEmpty ==
    /\ wpc = "drain"
    /\ Used = 0
    /\ wpc' = "drained"
    /\ UNCHANGED <<ringRead, chunk, writeBuffer, fileVars>>

(* Mutant: the writer leaves as soon as it is told to.                      *)
LeaveUndrained ==
    /\ wpc = "drained"
    /\ wpc' = IF ~writerRunning THEN "exited" ELSE "check"
    /\ fileOpen' = (fileOpen /\ writerRunning)
    /\ UNCHANGED <<ringRead, chunk, writeBuffer, files, framesInBlock,
                   blocksWritten, framesWritten, lost>>

(* Mutant: the writer wants to leave at the end of a block only.            *)
LeaveAtBlockEnd ==
    /\ wpc = "drained"
    /\ wpc' = IF ~writerRunning /\ Used = 0 /\ ~fileOpen
              THEN "exited" ELSE "check"
    /\ UNCHANGED <<ringRead, chunk, writeBuffer, fileVars>>

LeaveOrWait ==
    /\ wpc = "drained"
    /\ wpc' = IF ~writerRunning /\ Used = 0 THEN "exited" ELSE "check"
    /\ fileOpen' = (fileOpen /\ wpc' = "check")
    /\ UNCHANGED <<ringRead, chunk, writeBuffer, files, framesInBlock,
                   blocksWritten, framesWritten, lost>>

WriterStep ==
    /\ \/ WaitCheck \/ FallAsleep
       \/ DrainCopy \/ DrainRelease \/ RingEmpty
       \/ FramesDone \/ OpenFails \/ OpenFile
       \/ \E written \in 0..WriteBatch : WriteFrames(written)
       \/ LeaveOrWait
    /\ UNCHANGED <<captureVars, cpc, writerRunning, spc>>

Spurious ==
    /\ SpuriousWake
    /\ UNCHANGED <<captureVars, cpc, writerRunning, spc>>

-----------------------------------------------------------------------------
(* The main thread: stop(), once the capture thread has been joined.        *)
StopFlag ==
    /\ spc = "running" /\ cpc = "idle"
    /\ cpc' = "joined"
    /\ writerRunning' = FALSE
    /\ spc' = "notify"
    /\ UNCHANGED wpc

StopNotify ==
    /\ spc = "notify"
    /\ NotifyOne
    /\ spc' = "join"
    /\ UNCHANGED <<cpc, writerRunning>>

StopJoin ==
    /\ spc = "join" /\ wpc = "exited"
    /\ spc' = "stopped"
    /\ UNCHANGED <<cpc, writerRunning, wpc>>

StopRest == UNCHANGED <<captureVars, ringRead, chunk, writeBuffer, fileVars>>
Stop     == (StopFlag \/ StopNotify \/ StopJoin) /\ StopRest

-----------------------------------------------------------------------------
Init ==
    /\ ring = [j \in 0..(RingCapacity - 1) |-> -1]
    /\ ringWrite = 0 /\ ringRead = 0
    /\ captured = 0 /\ accepted = 0 /\ dropped = 0
    /\ cpc = "idle" /\ period = 0
    /\ wpc = "check" /\ writerRunning = TRUE
    /\ chunk = 0 /\ writeBuffer = << >>
    /\ fileOpen = FALSE /\ files = << >> /\ framesInBlock = 0
    /\ blocksWritten = 0 /\ framesWritten = 0 /\ lost = 0
    /\ spc = "running"

Next == Capture \/ WriterStep \/ Spurious \/ Stop

Spec == Init /\ [][Next]_vars

(* The sound card delivers periods for as long as capture runs, the writer  *)
(* is scheduled when it can run, and stop() finishes what it began; nothing *)
(* makes a spurious wakeup happen, or the daemon stop.                      *)
FairSpec ==
    /\ Spec
    /\ WF_vars(Capture) /\ WF_vars(WriterStep)
    /\ WF_vars((StopNotify \/ StopJoin) /\ StopRest)

-----------------------------------------------------------------------------
(* Every variable holds a value of its kind.                                *)
TypeOK ==
    /\ ring \in [0..(RingCapacity - 1) -> Int]
    /\ ringWrite \in 0..(WordMod - 1) /\ ringRead \in 0..(WordMod - 1)
    /\ captured \in 0..MaxFrames /\ dropped \in 0..captured
    /\ accepted \in Nat /\ lost \in Nat
    /\ cpc \in {"idle", "store", "notify", "joined"}
    /\ period \in Periods \cup {0}
    /\ wpc \in {"check", "toSleep", "asleep", "drain", "release", "frames",
                "drained", "exited"}
    /\ writerRunning \in BOOLEAN /\ fileOpen \in BOOLEAN
    /\ chunk \in 0..BufferSize
    /\ writeBuffer \in Seq(Int) /\ Len(writeBuffer) <= BufferSize
    /\ files \in Seq([name : Nat, frames : Seq(Int)])
    /\ framesInBlock \in 0..BlockFrames
    /\ blocksWritten \in Nat /\ framesWritten \in Nat
    /\ spc \in {"running", "notify", "join", "stopped"}

(* README.md:228, "no samples are lost or duplicated at the boundary": the  *)
(* i-th file holds the frames of the i-th block from its first one on, and  *)
(* with BlocksAreFull nothing else is missing but what is not yet written:  *)
(* no frame is cut across a wrap of the ring or a refill of the buffer.     *)
FilesAreGapless ==
    lost = 0 =>
        /\ \A i \in DOMAIN files : \A k \in DOMAIN files[i].frames :
               files[i].frames[k] =
                   ((i - 1) * BlockFrames + k - 1) * BytesPerFrame
        /\ framesWritten =
               IF files = << >> THEN 0
               ELSE (Len(files) - 1) * BlockFrames
                    + Len(files[Len(files)].frames)

(* Every file but the last holds exactly one block, and blocks_written_ is  *)
(* the number of files cut at the block's end.                              *)
BlocksAreFull ==
    /\ lost = 0 => \A i \in 1..(Len(files) - 1) :
                       Len(files[i].frames) = BlockFrames
    /\ ~fileOpen /\ wpc # "exited" => blocksWritten = Len(files)

(* Each byte push() accepted is in the ring, in the write buffer, on disk   *)
(* or counted as lost to a disk error, at every step of both threads.       *)
EveryByteAccounted ==
    accepted = Used + Len(writeBuffer) - chunk
               + framesWritten * BytesPerFrame + lost

(* Whatever the disk does, no frame is recorded twice or out of order.      *)
FramesInOrder ==
    \A i, j \in DOMAIN files :
        \A k \in DOMAIN files[i].frames, l \in DOMAIN files[j].frames :
            i < j \/ (i = j /\ k < l) =>
                files[i].frames[k] < files[j].frames[l]

(* When frames are only thrown away whole, each frame on disk is one that   *)
(* was captured and not the end of one and the beginning of the next.       *)
FramesStayWhole ==
    \A i \in DOMAIN files : \A k \in DOMAIN files[i].frames :
        files[i].frames[k] % BytesPerFrame = 0

(* block_recorder.hpp:46, stop() makes the writer "drain remaining data and *)
(* exit": what push() accepted and no disk error took is on disk.           *)
DrainedWhenStopped ==
    spc = "stopped" =>
        /\ Used = 0 /\ ~fileOpen
        /\ lost = 0 => framesWritten = captured - dropped

(* block_recorder.cpp:87, "Ring full -- writer thread can't keep up, drop   *)
(* this period": a period is dropped only while enough is buffered for the  *)
(* writer to be awake.                                                      *)
DropMeansBehind == [][dropped' # dropped => Used >= FlushThreshold]_vars

(* What the two threads and stop() do to one another is what RecorderWakeup *)
(* allows: the copies, the files and the errors only take time.             *)
WakeupState ==
    CASE wpc = "release" -> "drain"
      [] wpc = "frames"  -> "took"
      [] OTHER           -> wpc

Wakeup == INSTANCE RecorderWakeup WITH
              Ring      <- RingCapacity,
              Threshold <- FlushThreshold,
              Periods   <- {n * BytesPerFrame : n \in Periods},
              used      <- Used,
              pushing   <- IF cpc = "store" THEN period * BytesPerFrame ELSE 0,
              wpc       <- WakeupState,
              running   <- writerRunning

WakeupProtocol == Wakeup!Spec

(* What reaches the files through the ring, its two threads and the write   *)
(* buffer is what BlockLog takes straight from the stream push() accepted.  *)
Passed == framesWritten * BytesPerFrame + lost
Blocks == [i \in DOMAIN files |-> files[i].frames]

Log == INSTANCE BlockLog WITH passed <- Passed, blocks <- Blocks

FilesAreALog == Log!Spec

(* stop() returns, or else the writer has fallen asleep after the           *)
(* notification that was meant for it: there is no other way to hang.       *)
StopReturnsOrWriterSleeps ==
    spc = "notify" ~> (spc = "stopped" \/ (spc = "join" /\ wpc = "asleep"))

(* block_recorder.hpp:46, "Signal the writer thread to drain remaining data *)
(* and exit": stop() returns.                                               *)
StopReturns == spc = "notify" ~> spc = "stopped"

(* README.md:262, "every captured sample appears in exactly one output      *)
(* file": a file is not opened under the name of an earlier one, which      *)
(* SFM_WRITE would truncate.                                                *)
FileNamesDiffer ==
    \A i, j \in DOMAIN files : i # j => files[i].name # files[j].name
=============================================================================
