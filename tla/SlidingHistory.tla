--------------------------- MODULE SlidingHistory ---------------------------
(***************************************************************************)
(* What RingBuffer (src/capture/ring_buffer.cpp) promises the clip worker:  *)
(* the history of captured frames, of which the last Capacity can be read,  *)
(* one reader at a time.  Slots, positions and the wraps of both are left   *)
(* out; what is left is how far the writer is and what a reader may get.    *)
(***************************************************************************)
EXTENDS Integers

CONSTANTS Capacity,  \* capacity_frames_
          MaxChunk,  \* bound: the longest write and the longest read
          Readers,   \* threads that call read()
          NoReader   \* nobody is in read()

VARIABLES
    claimed,    \* frames handed to write()
    published,  \* frames that write_pos_ says are there
    counted,    \* frames that total_written_ says are there
    holder,     \* who is in read()
    rpc,        \* the reader inside: idle, loadPos, copy
    offset,     \* read(): offset_frames
    readable,   \* read(): readable
    first,      \* the frame the window begins with
    out         \* what has been read of the window

writerVars == <<claimed, published, counted>>
readerVars == <<holder, rpc, offset, readable, first, out>>
vars == <<writerVars, readerVars>>

Torn   == -2
Unread == -3

-----------------------------------------------------------------------------
(* write() is handed frames, then moves the end of the history, then says   *)
(* how long the history is.                                                 *)
Hand(n) ==
    /\ published = claimed /\ counted = claimed
    /\ claimed' = claimed + n
    /\ UNCHANGED <<published, counted>>

Publish ==
    /\ counted = published
    /\ published' = claimed
    /\ UNCHANGED <<claimed, counted>>

Count ==
    /\ published = claimed
    /\ counted' = claimed
    /\ UNCHANGED <<claimed, published>>

Writer ==
    /\ (\E n \in 0..MaxChunk : Hand(n)) \/ Publish \/ Count
    /\ UNCHANGED readerVars

-----------------------------------------------------------------------------
(* A reader asks for a window that ends off frames before the newest one.   *)
Ask(r, off, count) ==
    /\ rpc = "idle"
    /\ off + count <= counted /\ off + count <= Capacity
    /\ holder' = r /\ rpc' = "loadPos"
    /\ offset' = off /\ readable' = count
    /\ first' = 0 /\ out' = << >>

(* There is nothing that far back, or nothing yet.                          *)
AskForNothing(off) ==
    /\ rpc = "idle"
    /\ offset' = off /\ readable' = 0
    /\ first' = 0 /\ out' = << >>
    /\ UNCHANGED <<holder, rpc>>

(* The end of the history is looked up, which fixes the window.             *)
Look ==
    /\ rpc = "loadPos"
    /\ rpc' = "copy"
    /\ first' = published - offset - readable
    /\ out' = [k \in 0..(readable - 1) |-> Unread]
    /\ UNCHANGED <<holder, offset, readable>>

(* What may be read for frame f: the frame, or one that has taken its place *)
(* whole laps later; bytes of two once one has been handed over.            *)
Lapped(f)  == claimed > f + Capacity
MayHold(f) ==
    {g \in f..(claimed - 1) : g % Capacity = f % Capacity}
        \cup {v \in {Torn} : Lapped(f)}

Copy(k) ==
    /\ rpc = "copy"
    /\ out[k] = Unread
    /\ \E v \in MayHold(first + k) : out' = [out EXCEPT ![k] = v]
    /\ UNCHANGED <<holder, rpc, offset, readable, first>>

(* read() returns when the whole window has been read.                      *)
Return ==
    /\ rpc = "copy"
    /\ \A k \in 0..(readable - 1) : out[k] # Unread
    /\ rpc' = "idle" /\ holder' = NoReader
    /\ UNCHANGED <<offset, readable, first, out>>

Reader ==
    /\ \/ \E r \in Readers, off \in 0..Capacity, count \in 0..MaxChunk :
             Ask(r, off, count)
       \/ \E off \in 0..Capacity : AskForNothing(off)
       \/ Look
       \/ \E k \in 0..(readable - 1) : Copy(k)
       \/ Return
    /\ UNCHANGED writerVars

-----------------------------------------------------------------------------
Init ==
    /\ claimed = 0 /\ published = 0 /\ counted = 0
    /\ holder = NoReader /\ rpc = "idle"
    /\ offset = 0 /\ readable = 0 /\ first = 0 /\ out = << >>

Next == Writer \/ Reader

Spec == Init /\ [][Next]_vars
=============================================================================
