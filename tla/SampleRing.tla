----------------------------- MODULE SampleRing -----------------------------
(***************************************************************************)
(* RingBuffer (src/capture/ring_buffer.cpp): the rolling history of         *)
(* captured frames.  One writer, the capture thread, appends a period at a  *)
(* time and never waits; readers exclude one another with read_mutex_ and   *)
(* nothing excludes them from the writer.                                   *)
(*                                                                         *)
(* Frames are numbered 0, 1, 2, ... in the order they are captured, and a   *)
(* slot of the buffer holds the number of its frame.  A memcpy is a begin   *)
(* and an end step: between the two its slots are in flux, and a copy out   *)
(* of such a slot is a data race that may yield the old frame, the new one  *)
(* or a mixture of their bytes (Torn).  Cursors are size_t: WordMod is two  *)
(* to the width of the target.                                              *)
(***************************************************************************)
EXTENDS Integers

CONSTANTS Capacity,   \* capacity_frames_, a power of two
          WordMod,    \* 2^w for the w bits of size_t
          MaxChunk,   \* bound: the longest write and the longest read
          MaxFrames,  \* bound: frames captured in a behaviour
          Readers,    \* threads that call read()
          NoReader    \* read_mutex_ is free

(* Both the capacity and the word are powers of two, so one divides the     *)
(* other whenever the buffer fits in memory.                                *)
ASSUME CapacityAssumption == Capacity \in Nat \ {0}
ASSUME WordAssumption ==
    WordMod \in Nat \ {0} /\ WordMod % Capacity = 0
ASSUME BoundAssumption == MaxChunk \in Nat /\ MaxFrames \in Nat
ASSUME ReaderAssumption == NoReader \notin Readers

VARIABLES
    slot,          \* buffer_: the frame number each slot holds
    writePos,      \* write_pos_
    totalWritten,  \* total_written_
    claimed,       \* history: frames handed to write() so far
    wpc,           \* the writer: idle, batch, copying, storePos, storeTotal
    frameCount,    \* write(): frame_count
    pos,           \* write(): pos
    remaining,     \* write(): remaining
    holder,        \* who holds read_mutex_
    rpc,           \* the reader inside: idle, loadPos, copy
    offset,        \* read(): offset_frames
    readable,      \* read(): readable
    start,         \* read(): start
    first,         \* history: the frame number the window begins with
    copied,        \* read(): copied
    out            \* read(): the frames copied so far

writerVars == <<slot, writePos, totalWritten, claimed, wpc, frameCount, pos,
                remaining>>
readerVars == <<holder, rpc, offset, readable, start, first, copied, out>>
vars == <<writerVars, readerVars>>

Slots   == 0..(Capacity - 1)
Silence == -1    \* the zero bytes the buffer is created with
Torn    == -2    \* bytes of two frames
Unread  == -3    \* not copied yet

Smaller(a, b) == IF a <= b THEN a ELSE b

(* Indexing with capacity_mask_.                                            *)
Idx(p) == p % Capacity

-----------------------------------------------------------------------------
(* The batch of the copy loop that is next, and while it is under way the   *)
(* slots it is overwriting.  (BatchOneMore, and every definition below that *)
(* a comment calls a mutant, is not part of the model: it is a plausible    *)
(* slip in the definition that follows it.)                                 *)
BatchOneMore == Smaller(remaining + 1, Capacity - Idx(pos))
Batch == Smaller(remaining, Capacity - Idx(pos))
Flux  == IF wpc = "copying" THEN Idx(pos)..(Idx(pos) + Batch - 1) ELSE {}

(* The frame the batch under way puts into slot j.                          *)
NewFrame(j) == claimed - remaining + (j - Idx(pos))

(* How many frames write_pos_ stands for, without the wrap of the word.     *)
Published == IF wpc \in {"batch", "copying", "storePos"}
             THEN claimed - frameCount ELSE claimed

(* The same of total_written_, which write() adds to last.                  *)
Counted == IF wpc = "idle" THEN claimed ELSE claimed - frameCount

(* Mutant: the ring counts as full from the start.                          *)
AvailableCapacity == Capacity
AvailableFrames == Smaller(totalWritten, Capacity)

WriteBegin(n) ==
    /\ wpc = "idle"
    /\ claimed + n <= MaxFrames
    /\ frameCount' = n
    /\ remaining' = n
    /\ pos' = writePos
    /\ claimed' = claimed + n
    /\ wpc' = IF n > 0 THEN "batch" ELSE "storePos"
    /\ UNCHANGED <<slot, writePos, totalWritten>>

BatchBegin ==
    /\ wpc = "batch"
    /\ wpc' = "copying"
    /\ UNCHANGED <<slot, writePos, totalWritten, claimed, frameCount, pos,
                   remaining>>

BatchEnd ==
    /\ wpc = "copying"
    /\ slot' = [j \in Slots |-> IF j \in Flux THEN NewFrame(j) ELSE slot[j]]
    /\ pos' = (pos + Batch) % WordMod
    /\ remaining' = remaining - Batch
    /\ wpc' = IF remaining = Batch THEN "storePos" ELSE "batch"
    /\ UNCHANGED <<writePos, totalWritten, claimed, frameCount>>

StorePos ==
    /\ wpc = "storePos"
    /\ writePos' = pos
    /\ wpc' = "storeTotal"
    /\ UNCHANGED <<slot, totalWritten, claimed, frameCount, pos, remaining>>

StoreTotal ==
    /\ wpc = "storeTotal"
    /\ totalWritten' = (totalWritten + frameCount) % WordMod
    /\ wpc' = "idle"
    /\ UNCHANGED <<slot, writePos, claimed, frameCount, pos, remaining>>

Writer ==
    /\ \/ \E n \in 0..MaxChunk : WriteBegin(n)
       \/ BatchBegin \/ BatchEnd \/ StorePos \/ StoreTotal
    /\ UNCHANGED readerVars

-----------------------------------------------------------------------------
(* read() takes the mutex and loads total_written_; an offset beyond what   *)
(* is stored returns 0 at once.                                             *)
FreshLocals == start' = 0 /\ first' = 0 /\ copied' = 0 /\ out' = << >>

ReadBegin(r, off, count) ==
    /\ holder = NoReader
    /\ off < AvailableFrames
    /\ holder' = r
    /\ rpc' = "loadPos"
    /\ offset' = off
    /\ readable' = Smaller(count, AvailableFrames - off)
    /\ FreshLocals

ReadNothing(off) ==
    /\ holder = NoReader
    /\ off >= AvailableFrames
    /\ offset' = off
    /\ readable' = 0
    /\ FreshLocals
    /\ UNCHANGED <<holder, rpc>>

(* Where the window starts, from write_pos_ = wp; the second branch is      *)
(* reached only when write_pos_ has wrapped around the word.                *)
(* Mutant: write_pos_ taken for the newest frame instead of the next one.   *)
WindowStartOffByOne(wp, span) ==
    IF wp > span THEN wp - span - 1 ELSE Capacity - ((span - wp) % Capacity)

WindowStart(wp, span) ==
    IF wp >= span THEN wp - span ELSE Capacity - ((span - wp) % Capacity)

LoadPos ==
    /\ rpc = "loadPos"
    /\ start' = WindowStart(writePos, offset + readable)
    /\ first' = Published - offset - readable
    /\ copied' = 0
    /\ out' = [k \in 0..(readable - 1) |-> Unread]
    /\ rpc' = "copy"
    /\ UNCHANGED <<holder, offset, readable>>

(* The frames of the memcpy under way, taken in any order.                  *)
ReadSpan  == Smaller(readable - copied, Capacity - Idx(start + copied))
ReadBatch == copied..(copied + ReadSpan - 1)

(* What a copy out of slot j may yield.                                     *)
Fetch(j) == IF j \in Flux THEN {slot[j], NewFrame(j), Torn} ELSE {slot[j]}

CopyFrame(k) ==
    /\ rpc = "copy"
    /\ k \in ReadBatch
    /\ out[k] = Unread
    /\ \E v \in Fetch(Idx(start + k)) : out' = [out EXCEPT ![k] = v]
    /\ copied' = IF \A j \in ReadBatch \ {k} : out[j] # Unread
                 THEN copied + ReadSpan ELSE copied
    /\ UNCHANGED <<holder, rpc, offset, readable, start, first>>

(* Mutant: the last frame of the window is not waited for.                  *)
ReadEndEarly ==
    /\ rpc = "copy"
    /\ copied + 1 >= readable
    /\ rpc' = "idle"
    /\ holder' = NoReader
    /\ UNCHANGED <<offset, readable, start, first, copied, out>>

ReadEnd ==
    /\ rpc = "copy"
    /\ copied = readable
    /\ rpc' = "idle"
    /\ holder' = NoReader
    /\ UNCHANGED <<offset, readable, start, first, copied, out>>

Reader ==
    /\ \/ \E r \in Readers, off \in 0..Capacity, count \in 0..MaxChunk :
             ReadBegin(r, off, count)
       \/ \E off \in 0..Capacity : ReadNothing(off)
       \/ LoadPos
       \/ \E k \in 0..(readable - 1) : CopyFrame(k)
       \/ ReadEnd
    /\ UNCHANGED writerVars

-----------------------------------------------------------------------------
Init ==
    /\ slot = [j \in Slots |-> Silence]
    /\ writePos = 0 /\ totalWritten = 0 /\ claimed = 0
    /\ wpc = "idle" /\ frameCount = 0 /\ pos = 0 /\ remaining = 0
    /\ holder = NoReader /\ rpc = "idle"
    /\ offset = 0 /\ readable = 0 /\ start = 0 /\ first = 0
    /\ copied = 0 /\ out = << >>

Next == Writer \/ Reader

Spec == Init /\ [][Next]_vars

-----------------------------------------------------------------------------
Frames  == 0..(MaxFrames - 1)
Content == Frames \cup {Silence, Torn}

(* Every variable holds a value of its kind.                                *)
TypeOK ==
    /\ slot \in [Slots -> Frames \cup {Silence}]
    /\ writePos \in 0..(WordMod - 1) /\ totalWritten \in 0..(WordMod - 1)
    /\ claimed \in 0..MaxFrames
    /\ wpc \in {"idle", "batch", "copying", "storePos", "storeTotal"}
    /\ frameCount \in 0..MaxChunk /\ pos \in 0..(WordMod - 1)
    /\ remaining \in 0..frameCount
    /\ holder \in Readers \cup {NoReader}
    /\ rpc \in {"idle", "loadPos", "copy"}
    /\ offset \in 0..Capacity /\ readable \in 0..MaxChunk
    /\ start \in 0..(WordMod + Capacity) /\ first \in Int
    /\ copied \in 0..readable
    /\ \/ out = << >>
       \/ out \in [0..(readable - 1) -> Content \cup {Unread}]

(* A frame copied out of the ring is the frame asked for, as long as the    *)
(* writer has not been handed the frame that takes its slot: the margin a   *)
(* reader has is the whole capacity less the window's age, and a period     *)
(* that write() has only begun counts as handed over.                       *)
CleanFramesAreTheWindow ==
    \A k \in DOMAIN out :
        out[k] # Unread /\ claimed <= first + k + Capacity
            => out[k] = first + k

(* A reader that the writer laps never gets silence, a frame older than the *)
(* one it asked for or one from the future: it gets torn bytes, or a frame  *)
(* some whole number of laps later than the one asked for.                  *)
LappedFramesAreLater ==
    \A k \in DOMAIN out :
        out[k] \notin {Unread, Torn} =>
            /\ out[k] \in (first + k)..(claimed - 1)
            /\ out[k] % Capacity = (first + k) % Capacity

(* What readers see through the slots, the batches and the wraps of ring    *)
(* and word is the history of frames, with a whole window when read()       *)
(* returns.                                                                 *)
History == INSTANCE SlidingHistory WITH
               published <- Published, counted <- Counted

ReadsAreHistory == History!Spec

(* ring_buffer.hpp:15, "readers can extract arbitrary time ranges from the  *)
(* buffered history": a finished read holds consecutive frames.             *)
FinishedReadIsConsecutive ==
    rpc = "idle" => \A k \in DOMAIN out : out[k] = first + k

(* ring_buffer.hpp:40, "Number of frames currently stored (up to            *)
(* capacity)", once write() has returned.                                   *)
AvailableIsStored ==
    wpc = "idle" => AvailableFrames = Smaller(claimed, Capacity)
=============================================================================
