-------------------------- MODULE SampleRing_proofs --------------------------
(************************************************************************** *)
(* Proofs about SampleRing, for every capacity, word, bound and set of      *)
(* readers.  The argument: a slot never holds a frame older than the one a  *)
(* reader may ask it for, and always one that belongs in that slot; two     *)
(* frames of one slot are a whole lap apart; so a reader is handed another  *)
(* frame than the one it asked for only when a frame a lap younger has      *)
(* already been given to write().                                           *)
(************************************************************************** *)
EXTENDS SampleRing, TLAPS

(* How many frames the buffer holds or has held in full.                    *)
Done == IF wpc \in {"batch", "copying", "storePos"}
        THEN claimed - remaining ELSE claimed

(* The cursors of the writer, reduced by the word.                          *)
Cursors ==
    /\ frameCount <= claimed
    /\ wpc \in {"batch", "copying", "storePos"} => pos = Done % WordMod
    /\ wpc = "storePos" => remaining = 0
    /\ writePos = Published % WordMod
    /\ totalWritten <= Counted

(* The slot of a frame that has been written holds that frame or a younger  *)
(* one that belongs in the same slot.                                       *)
SlotsAreCurrent ==
    \A f \in 0..(Done - 1) :
        /\ slot[f % Capacity] \in f..(Done - 1)
        /\ slot[f % Capacity] % Capacity = f % Capacity

(* A reader inside holds the mutex, and asks only for frames that have been *)
(* published.                                                               *)
WindowIsPublished ==
    /\ holder = NoReader <=> rpc = "idle"
    /\ rpc = "loadPos" => offset + readable <= Counted
    /\ rpc = "copy" =>
         /\ out \in [0..(readable - 1) -> Content \cup {Unread}]
         /\ first >= 0
         /\ first + readable <= Published
         /\ start % Capacity = first % Capacity

(* What a frame copied out of the ring may be.                              *)
Acceptable(v, f) ==
    \/ v = Unread
    \/ v = Torn /\ claimed > f + Capacity
    \/ v \in f..(claimed - 1) /\ v % Capacity = f % Capacity

CopiesAreAcceptable == \A k \in DOMAIN out : Acceptable(out[k], first + k)

WriterInv == TypeOK /\ Cursors /\ SlotsAreCurrent

IInv == WriterInv /\ WindowIsPublished /\ CopiesAreAcceptable

-----------------------------------------------------------------------------
(* Facts about remainders, proved from the definition of division.          *)

(* A number is its quotient's multiple and its remainder.                   *)
LEMMA DivMod ==
    ASSUME NEW C \in Nat \ {0}, NEW a \in Int
    PROVE  /\ a % C \in 0..(C - 1)
           /\ a \div C \in Int
           /\ a = C * (a \div C) + (a % C)
  OBVIOUS

(* A positive multiple is at least, a negative one at most one step away.   *)
LEMMA MultipleGap ==
    ASSUME NEW C \in Nat \ {0}, NEW m \in Int
    PROVE  /\ m >= 1 => C * m >= C
           /\ m <= -1 => C * m <= -C
           /\ C * m \in Int
  OBVIOUS

(* The remainder is the only number of the range at a multiple's distance.  *)
LEMMA ModUnique ==
    ASSUME NEW C \in Nat \ {0}, NEW a \in Int, NEW q \in Int,
           NEW r \in 0..(C - 1), a = C * q + r
    PROVE  a % C = r
<1> DEFINE d == q - (a \div C)
<1>1. a \div C \in Int /\ a % C \in 0..(C - 1) /\ a = C * (a \div C) + (a % C)
  BY DivMod
<1>2. d \in Int
  BY <1>1
<1>3. C * d = (a % C) - r
  <2>1. C * d = C * q - C * (a \div C)
    BY <1>1
  <2> QED BY <2>1, <1>1
<1> HIDE DEF d
<1>4. CASE d >= 1
  BY <1>1, <1>2, <1>3, <1>4, MultipleGap
<1>5. CASE d <= -1
  BY <1>1, <1>2, <1>3, <1>5, MultipleGap
<1>6. CASE d = 0
  BY <1>1, <1>3, <1>6
<1> QED BY <1>2, <1>4, <1>5, <1>6

(* Adding a multiple leaves the remainder alone.                            *)
LEMMA ModPlusMultiple ==
    ASSUME NEW C \in Nat \ {0}, NEW a \in Int, NEW m \in Int
    PROVE  (a + C * m) % C = a % C
<1> DEFINE b == a + C * m
           q == (a \div C) + m
<1>1. a \div C \in Int /\ a % C \in 0..(C - 1) /\ a = C * (a \div C) + (a % C)
  BY DivMod
<1>2. b \in Int /\ q \in Int
  BY <1>1, MultipleGap
<1>3. b = C * q + (a % C)
  BY <1>1
<1> HIDE DEF b, q
<1>4. b % C = a % C
  BY <1>1, <1>2, <1>3, ModUnique
<1> QED BY <1>4 DEF b

(* Numbers of the same remainder are a multiple apart.                      *)
LEMMA SameModMultiple ==
    ASSUME NEW C \in Nat \ {0}, NEW a \in Int, NEW b \in Int, a % C = b % C
    PROVE  \E m \in Int : b = a + C * m
<1> DEFINE m == (b \div C) - (a \div C)
<1>1. /\ a \div C \in Int /\ b \div C \in Int
      /\ a % C \in Int /\ b % C \in Int
      /\ a = C * (a \div C) + (a % C) /\ b = C * (b \div C) + (b % C)
  BY DivMod
<1>2. m \in Int
  BY <1>1
<1>3. C * m = C * (b \div C) - C * (a \div C)
  BY <1>1
<1>4. b = a + C * m
  BY <1>1, <1>3
<1> QED BY <1>2, <1>4

(* Two different numbers of the same remainder are at least C apart.        *)
LEMMA SameModGap ==
    ASSUME NEW C \in Nat \ {0}, NEW a \in Int, NEW b \in Int,
           a % C = b % C, a < b
    PROVE  a + C <= b
<1>1. PICK m \in Int : b = a + C * m
  BY SameModMultiple
<1>2. CASE m >= 1
  BY <1>1, <1>2, MultipleGap
<1>3. CASE m <= -1
  BY <1>1, <1>3, MultipleGap
<1>4. CASE m = 0
  BY <1>1, <1>4
<1> QED BY <1>2, <1>3, <1>4

(* A common summand keeps remainders equal.                                 *)
LEMMA SameModPlus ==
    ASSUME NEW C \in Nat \ {0}, NEW a \in Int, NEW b \in Int, NEW k \in Int,
           a % C = b % C
    PROVE  (a + k) % C = (b + k) % C
<1>1. PICK m \in Int : b = a + C * m
  BY SameModMultiple
<1>2. b + k = (a + k) + C * m
  BY <1>1, MultipleGap
<1>3. ((a + k) + C * m) % C = (a + k) % C
  <2>1. a + k \in Int
    OBVIOUS
  <2> QED BY <2>1, ModPlusMultiple
<1> QED BY <1>2, <1>3

(* A summand that stays below C is added to the remainder.                  *)
LEMMA ModPlusSmall ==
    ASSUME NEW C \in Nat \ {0}, NEW a \in Int, NEW i \in Nat,
           (a % C) + i < C
    PROVE  (a + i) % C = (a % C) + i
<1> DEFINE b == a + i
           r == (a % C) + i
<1>1. a \div C \in Int /\ a % C \in 0..(C - 1) /\ a = C * (a \div C) + (a % C)
  BY DivMod
<1>2. b \in Int /\ r \in 0..(C - 1) /\ b = C * (a \div C) + r
  BY <1>1
<1> HIDE DEF b, r
<1>3. b % C = r
  BY <1>1, <1>2, ModUnique
<1> QED BY <1>3 DEF b, r

(* Reducing by the word first changes nothing when C divides it.            *)
LEMMA ModMod ==
    ASSUME NEW C \in Nat \ {0}, NEW W \in Nat \ {0}, W % C = 0, NEW a \in Int
    PROVE  (a % W) % C = a % C
<1>1. a \div W \in Int /\ a % W \in Int /\ a = W * (a \div W) + (a % W)
  BY DivMod
<1>2. W \div C \in Int /\ W = C * (W \div C)
  BY DivMod
<1> DEFINE m == (W \div C) * (a \div W)
<1>3. m \in Int
  BY <1>1, <1>2
<1>4. a = (a % W) + C * m
  <2>1. C * m = (C * (W \div C)) * (a \div W)
    BY <1>1, <1>2
  <2>2. C * m = W * (a \div W)
    BY <2>1, <1>2
  <2> QED BY <2>2, <1>1
<1> HIDE DEF m
<1>5. ((a % W) + C * m) % C = (a % W) % C
  BY <1>1, <1>3, ModPlusMultiple
<1> QED BY <1>4, <1>5

(* Reducing before an addition changes nothing after it.                    *)
LEMMA ModPlusMod ==
    ASSUME NEW W \in Nat \ {0}, NEW a \in Int, NEW k \in Int
    PROVE  ((a % W) + k) % W = (a + k) % W
<1> DEFINE r == a % W
<1>1. r \in 0..(W - 1) /\ r \in Int /\ r = W * 0 + r
  BY DivMod
<1> HIDE DEF r
<1>2. r % W = r
  BY <1>1, ModUnique
<1>3. (a % W) % W = a % W /\ a % W \in Int
  BY <1>1, <1>2 DEF r
<1> QED BY <1>3, SameModPlus

-----------------------------------------------------------------------------
(* What the constants are, in the form the steps use.                       *)
LEMMA Constants ==
    /\ Capacity \in Nat \ {0} /\ WordMod \in Nat \ {0}
    /\ WordMod % Capacity = 0
    /\ MaxChunk \in Nat /\ MaxFrames \in Nat
  BY CapacityAssumption, WordAssumption, BoundAssumption

(* Masking yields a slot, whatever the cursor.                              *)
LEMMA IdxIsSlot ==
    ASSUME NEW p \in Int PROVE Idx(p) \in Slots
  BY Constants, DivMod DEF Idx, Slots

(* The batch under way stays inside the buffer and inside the write.        *)
LEMMA BatchFits ==
    ASSUME TypeOK
    PROVE  /\ Batch \in 0..remaining
           /\ Idx(pos) + Batch <= Capacity
           /\ remaining > 0 => Batch > 0
<1>1. Idx(pos) \in Slots
  BY Constants, IdxIsSlot DEF TypeOK
<1>2. remaining \in Nat
  BY Constants DEF TypeOK
<1> QED BY <1>1, <1>2, Constants DEF Batch, Smaller, Slots

(* The batch under way puts frames of the write into its slots, each into   *)
(* the slot it belongs in.                                                  *)
LEMMA NewFrameFits ==
    ASSUME TypeOK, Cursors, NEW j \in Flux
    PROVE  /\ j \in Slots
           /\ NewFrame(j) \in Done..(Done + Batch - 1)
           /\ NewFrame(j) = Done + (j - Idx(pos))
           /\ NewFrame(j) % Capacity = j
<1>1. wpc = "copying" /\ j \in Idx(pos)..(Idx(pos) + Batch - 1)
  BY DEF Flux
<1>2. Done = claimed - remaining /\ pos = Done % WordMod
  BY <1>1 DEF Done, Cursors
<1>3. Done \in Nat
  BY <1>2, Constants DEF TypeOK, Cursors
<1>4. Idx(pos) = Done % Capacity
  BY <1>2, <1>3, Constants, ModMod DEF Idx
<1>5. Idx(pos) \in Slots /\ Batch \in Nat /\ Idx(pos) + Batch <= Capacity
  BY <1>3, <1>4, IdxIsSlot, BatchFits DEF TypeOK, Idx
<1> DEFINE i == j - Idx(pos)
<1>6. i \in Nat /\ i < Batch /\ Idx(pos) + i = j
  BY <1>1, <1>5, Constants DEF Slots
<1>7. NewFrame(j) = Done + i
  BY <1>2 DEF NewFrame
<1>8. j \in Slots /\ (Done % Capacity) + i = j /\ (Done % Capacity) + i < Capacity
  BY <1>4, <1>5, <1>6, Constants DEF Slots
<1> HIDE DEF i
<1>9. (Done + i) % Capacity = (Done % Capacity) + i
  <2>1. Done \in Int /\ Capacity \in Nat \ {0} /\ i \in Nat
    BY <1>3, <1>6, Constants
  <2> QED BY <2>1, <1>8, ModPlusSmall
<1> QED BY <1>3, <1>5, <1>6, <1>7, <1>8, <1>9 DEF i

-----------------------------------------------------------------------------
(* The invariant holds of a new ring.                                       *)
LEMMA InitInv == Init => IInv
<1> SUFFICES ASSUME Init PROVE IInv
  OBVIOUS
<1>1. 0 % WordMod = 0
  <2>1. 0 \in 0..(WordMod - 1) /\ 0 = WordMod * 0 + 0
    BY Constants
  <2> QED BY <2>1, Constants, ModUnique
<1>2. slot \in [Slots -> Frames \cup {Silence}]
  BY DEF Init
<1>3. TypeOK
  BY <1>2, Constants DEF Init, TypeOK
<1>4. Done = 0 /\ Counted = 0 /\ Published = 0
  BY Constants DEF Init, Done, Counted, Published
<1>5. Cursors
  BY <1>1, <1>4 DEF Init, Cursors
<1>6. SlotsAreCurrent
  BY <1>4 DEF SlotsAreCurrent
<1>7. WindowIsPublished
  BY DEF Init, WindowIsPublished
<1>8. CopiesAreAcceptable
  BY DEF Init, CopiesAreAcceptable
<1> QED BY <1>3, <1>5, <1>6, <1>7, <1>8 DEF IInv, WriterInv

-----------------------------------------------------------------------------
(* How a step of the writer moves what its cursors stand for.               *)
LEMMA WriterProgress ==
    ASSUME TypeOK, Cursors, Writer, NEW n \in 0..MaxChunk
    PROVE  /\ WriteBegin(n) => /\ Done' = Done
                               /\ Published' = Published
                               /\ Counted' = Counted
           /\ BatchBegin => /\ Done' = Done
                            /\ Published' = Published
                            /\ Counted' = Counted
           /\ BatchEnd => /\ Done' = Done + Batch
                          /\ Published' = Published
                          /\ Counted' = Counted
           /\ StorePos => /\ Done' = Done
                          /\ Published' = Done
                          /\ Counted' = Counted
           /\ StoreTotal => /\ Done' = Done
                            /\ Published' = Published
                            /\ Counted' = Counted + frameCount
<1>1. claimed \in Nat /\ frameCount \in Nat /\ remaining \in 0..frameCount
      /\ frameCount <= claimed /\ n \in Nat
  BY Constants DEF TypeOK, Cursors
<1>2. Batch \in 0..remaining
  BY BatchFits
<1>3. WriteBegin(n) => Done' = Done /\ Published' = Published
                       /\ Counted' = Counted
  BY <1>1 DEF WriteBegin, Done, Published, Counted
<1>4. BatchBegin => Done' = Done /\ Published' = Published
                    /\ Counted' = Counted
  BY <1>1 DEF BatchBegin, Done, Published, Counted
<1>5. BatchEnd => Done' = Done + Batch /\ Published' = Published
                  /\ Counted' = Counted
  BY <1>1, <1>2 DEF BatchEnd, Done, Published, Counted
<1>6. StorePos => Done' = Done /\ Published' = Done /\ Counted' = Counted
  BY <1>1 DEF StorePos, Done, Published, Counted, Cursors
<1>7. StoreTotal => Done' = Done /\ Published' = Published
                    /\ Counted' = Counted + frameCount
  BY <1>1 DEF StoreTotal, Done, Published, Counted
<1> QED BY <1>3, <1>4, <1>5, <1>6, <1>7

(* Where the cursors stand, as numbers.                                     *)
LEMMA CursorOrder ==
    ASSUME TypeOK, Cursors
    PROVE  /\ Done \in Nat /\ Counted \in Nat /\ Published \in Nat
           /\ Counted <= Published /\ Published <= Done /\ Done <= claimed
<1>1. claimed \in Nat /\ frameCount \in Nat /\ remaining \in 0..frameCount
      /\ frameCount <= claimed
  BY Constants DEF TypeOK, Cursors
<1>2. wpc \in {"idle", "batch", "copying", "storePos", "storeTotal"}
  BY DEF TypeOK
<1> QED BY <1>1, <1>2 DEF Done, Counted, Published

(* The writer keeps every variable in its type.                             *)
LEMMA WriterTypeOK ==
    ASSUME TypeOK, Cursors, Writer PROVE TypeOK'
<1>1. UNCHANGED readerVars
  BY DEF Writer
<1>2. /\ claimed \in 0..MaxFrames /\ frameCount \in 0..MaxChunk
      /\ remaining \in 0..frameCount /\ frameCount <= claimed
      /\ pos \in 0..(WordMod - 1) /\ writePos \in 0..(WordMod - 1)
      /\ totalWritten \in 0..(WordMod - 1)
  BY DEF TypeOK, Cursors
<1>3. Batch \in 0..remaining
  BY BatchFits
<1>4. CASE \E n \in 0..MaxChunk : WriteBegin(n)
  <2>1. PICK n \in 0..MaxChunk : WriteBegin(n)
    BY <1>4
  <2>2. claimed' \in 0..MaxFrames /\ frameCount' = n /\ remaining' = n
    BY <1>2, <2>1, Constants DEF WriteBegin
  <2> QED BY <1>1, <2>1, <2>2, Constants DEF WriteBegin, TypeOK, readerVars
<1>5. CASE BatchBegin
  BY <1>1, <1>5 DEF BatchBegin, TypeOK, readerVars
<1>6. CASE BatchEnd
  <2>1. (pos + Batch) % WordMod \in 0..(WordMod - 1)
    BY <1>2, <1>3, Constants, DivMod
  <2>2. remaining - Batch \in 0..frameCount
    BY <1>2, <1>3, Constants
  <2>3. \A j \in Flux : NewFrame(j) \in Frames
    <3> SUFFICES ASSUME NEW j \in Flux PROVE NewFrame(j) \in Frames
      OBVIOUS
    <3>1. NewFrame(j) \in Done..(Done + Batch - 1)
      BY NewFrameFits
    <3>2. Done = claimed - remaining
      BY <1>6 DEF BatchEnd, Done
    <3> QED BY <1>2, <1>3, <3>1, <3>2, Constants DEF Frames
  <2>4. slot' \in [Slots -> Frames \cup {Silence}]
    BY <1>6, <2>3 DEF BatchEnd, TypeOK
  <2> QED BY <1>1, <1>6, <2>1, <2>2, <2>4 DEF BatchEnd, TypeOK, readerVars
<1>7. CASE StorePos
  BY <1>1, <1>7 DEF StorePos, TypeOK, readerVars
<1>8. CASE StoreTotal
  <2>1. (totalWritten + frameCount) % WordMod \in 0..(WordMod - 1)
    BY <1>2, Constants, DivMod
  <2> QED BY <1>1, <1>8, <2>1 DEF StoreTotal, TypeOK, readerVars
<1> QED BY <1>4, <1>5, <1>6, <1>7, <1>8 DEF Writer

(* The writer keeps its cursors at the frames they stand for.               *)
LEMMA WriterCursors ==
    ASSUME TypeOK, Cursors, Writer PROVE Cursors'
<1>1. /\ claimed \in Nat /\ frameCount \in Nat /\ remaining \in 0..frameCount
      /\ totalWritten \in Nat /\ frameCount <= claimed
      /\ pos \in Nat
  BY Constants DEF TypeOK, Cursors
<1>2. Batch \in 0..remaining /\ (remaining > 0 => Batch > 0)
  BY BatchFits
<1>3. 0 \in 0..MaxChunk
  BY Constants
<1>4. CASE \E n \in 0..MaxChunk : WriteBegin(n)
  <2>1. PICK n \in 0..MaxChunk : WriteBegin(n)
    BY <1>4
  <2>2. n \in Nat /\ frameCount' <= claimed'
    BY <1>1, <2>1, Constants DEF WriteBegin
  <2>3. Done' = Done /\ Published' = Published /\ Counted' = Counted
    BY <2>1, WriterProgress
  <2>4. Done = claimed /\ Published = claimed
    BY <2>1 DEF WriteBegin, Done, Published
  <2>5. wpc' = "storePos" => remaining' = 0
    BY <2>1, <2>2 DEF WriteBegin
  <2> QED BY <2>1, <2>2, <2>3, <2>4, <2>5 DEF WriteBegin, Cursors
<1>5. CASE BatchBegin
  BY <1>3, <1>5, WriterProgress DEF BatchBegin, Cursors
<1>6. CASE BatchEnd
  <2>1. Done' = Done + Batch /\ Published' = Published /\ Counted' = Counted
    BY <1>3, <1>6, WriterProgress
  <2>2. Done \in Int /\ Batch \in Int
    BY <1>2, <1>1, CursorOrder
  <2>3. pos = Done % WordMod
    BY <1>6 DEF BatchEnd, Cursors
  <2>4. pos' = (Done + Batch) % WordMod
    <3>1. ((Done % WordMod) + Batch) % WordMod = (Done + Batch) % WordMod
      BY <2>2, Constants, ModPlusMod
    <3> QED BY <1>6, <2>3, <3>1 DEF BatchEnd
  <2>5. wpc' = "storePos" => remaining' = 0
    BY <1>1, <1>2, <1>6 DEF BatchEnd
  <2> QED BY <1>6, <2>1, <2>4, <2>5 DEF BatchEnd, Cursors
<1>7. CASE StorePos
  BY <1>3, <1>7, WriterProgress DEF StorePos, Cursors
<1>8. CASE StoreTotal
  <2>1. /\ Done' = Done /\ Published' = Published
        /\ Counted' = Counted + frameCount
    BY <1>3, <1>8, WriterProgress
  <2>2. totalWritten + frameCount \in Nat
    BY <1>1
  <2>3. (totalWritten + frameCount) % WordMod <= totalWritten + frameCount
    BY <2>2, Constants
  <2>4. totalWritten' <= Counted'
    <3>1. totalWritten <= Counted /\ Counted \in Nat
      BY CursorOrder DEF Cursors
    <3>2. totalWritten' \in Int
      BY WriterTypeOK DEF TypeOK
    <3> QED BY <1>1, <1>8, <2>1, <2>3, <3>1, <3>2 DEF StoreTotal
  <2> QED BY <1>8, <2>1, <2>4 DEF StoreTotal, Cursors
<1> QED BY <1>4, <1>5, <1>6, <1>7, <1>8 DEF Writer

(* The end of a batch leaves every slot with its frame or a younger one.    *)
LEMMA BatchEndSlots ==
    ASSUME TypeOK, Cursors, SlotsAreCurrent, BatchEnd, Done' = Done + Batch
    PROVE  SlotsAreCurrent'
<1>1. /\ Done = claimed - remaining /\ Done \in Nat
      /\ Idx(pos) = Done % Capacity /\ Idx(pos) \in Slots
  <2>1. Done \in Nat
    BY CursorOrder
  <2>2. Done = claimed - remaining /\ pos = Done % WordMod
    BY DEF BatchEnd, Done, Cursors
  <2>3. Idx(pos) = Done % Capacity
    BY <2>1, <2>2, Constants, ModMod DEF Idx
  <2> QED BY <2>1, <2>2, <2>3, Constants, IdxIsSlot DEF TypeOK
<1>2. Batch \in 0..remaining /\ Idx(pos) + Batch <= Capacity /\ Batch \in Nat
  BY BatchFits, Constants DEF TypeOK
<1>3. Flux = Idx(pos)..(Idx(pos) + Batch - 1)
  BY DEF BatchEnd, Flux
<1> SUFFICES ASSUME NEW f \in 0..(Done + Batch - 1)
             PROVE  /\ slot'[f % Capacity] \in f..(Done + Batch - 1)
                    /\ slot'[f % Capacity] % Capacity = f % Capacity
  BY <1>1, <1>2 DEF SlotsAreCurrent
<1> DEFINE j == f % Capacity
<1>4. j \in Slots /\ f \in Nat
  BY <1>1, <1>2, Constants, DivMod DEF Slots
<1>5. slot'[j] = IF j \in Flux THEN NewFrame(j) ELSE slot[j]
  BY <1>4 DEF BatchEnd
<1>6. CASE f < Done
  <2>1. slot[j] \in f..(Done - 1) /\ slot[j] % Capacity = j
    BY <1>1, <1>6 DEF SlotsAreCurrent
  <2>2. CASE j \in Flux
    <3>1. NewFrame(j) \in Done..(Done + Batch - 1) /\ NewFrame(j) % Capacity = j
      BY <2>2, NewFrameFits
    <3> QED BY <1>1, <1>2, <1>4, <1>5, <1>6, <2>2, <3>1
  <2> QED BY <1>1, <1>2, <1>4, <1>5, <2>1, <2>2
<1>7. CASE f >= Done
  <2> DEFINE i == f - Done
  <2>1. i \in Nat /\ i < Batch /\ f = Done + i
    BY <1>1, <1>2, <1>4, <1>7
  <2>2. (Done % Capacity) + i < Capacity
    BY <1>1, <1>2, <2>1, Constants DEF Slots
  <2> HIDE DEF i
  <2>3. (Done + i) % Capacity = (Done % Capacity) + i
    <3>1. Done \in Int /\ Capacity \in Nat \ {0} /\ i \in Nat
      BY <1>1, <2>1, Constants
    <3> QED BY <3>1, <2>2, ModPlusSmall
  <2>4. j = Idx(pos) + i
    BY <1>1, <2>1, <2>3
  <2>5. j \in Flux
    <3>1. Idx(pos) \in Int
      BY <1>1, Constants DEF Slots
    <3>2. Idx(pos) + i \in Idx(pos)..(Idx(pos) + Batch - 1)
      BY <1>2, <2>1, <3>1
    <3> QED BY <1>3, <2>4, <3>2
  <2>6. NewFrame(j) = f /\ NewFrame(j) % Capacity = j
    <3>1. NewFrame(j) = Done + (j - Idx(pos)) /\ NewFrame(j) % Capacity = j
      BY <2>5, NewFrameFits
    <3>2. j - Idx(pos) = i
      BY <1>1, <2>1, <2>4, Constants DEF Slots
    <3> HIDE DEF j
    <3> QED BY <2>1, <3>1, <3>2
  <2> QED BY <1>1, <1>2, <1>4, <1>5, <1>7, <2>5, <2>6
<1> QED BY <1>1, <1>4, <1>6, <1>7

(* So does every other step of the writer: it moves no frame.               *)
LEMMA WriterSlots ==
    ASSUME TypeOK, Cursors, SlotsAreCurrent, Writer PROVE SlotsAreCurrent'
<1>1. 0 \in 0..MaxChunk
  BY Constants
<1>2. CASE \E n \in 0..MaxChunk : WriteBegin(n)
  <2>1. PICK n \in 0..MaxChunk : WriteBegin(n)
    BY <1>2
  <2>2. Done' = Done
    BY <2>1, WriterProgress
  <2> QED BY <2>1, <2>2 DEF WriteBegin, SlotsAreCurrent
<1>3. CASE BatchBegin
  <2>1. Done' = Done
    BY <1>1, <1>3, WriterProgress
  <2> QED BY <1>3, <2>1 DEF BatchBegin, SlotsAreCurrent
<1>4. CASE BatchEnd
  <2>1. Done' = Done + Batch
    BY <1>1, <1>4, WriterProgress
  <2> QED BY <1>4, <2>1, BatchEndSlots
<1>5. CASE StorePos
  <2>1. Done' = Done
    BY <1>1, <1>5, WriterProgress
  <2> QED BY <1>5, <2>1 DEF StorePos, SlotsAreCurrent
<1>6. CASE StoreTotal
  <2>1. Done' = Done
    BY <1>1, <1>6, WriterProgress
  <2> QED BY <1>6, <2>1 DEF StoreTotal, SlotsAreCurrent
<1> QED BY <1>2, <1>3, <1>4, <1>5, <1>6 DEF Writer

(* The writer takes nothing back from a reader: what has been published     *)
(* stays published, what has been handed over stays handed over.            *)
LEMMA WriterKeepsReader ==
    ASSUME TypeOK, Cursors, WindowIsPublished, CopiesAreAcceptable, Writer
    PROVE  WindowIsPublished' /\ CopiesAreAcceptable'
<1>1. UNCHANGED readerVars
  BY DEF Writer
<1>2. 0 \in 0..MaxChunk /\ frameCount \in Nat
  BY Constants DEF TypeOK
<1>3. /\ Counted \in Nat /\ Published \in Nat /\ claimed \in Nat
      /\ Published <= Done /\ Done \in Nat
  BY CursorOrder, Constants DEF TypeOK
<1>4. Counted' >= Counted /\ Counted' \in Int
  <2>1. CASE \E n \in 0..MaxChunk : WriteBegin(n)
    BY <1>3, <2>1, WriterProgress
  <2>2. CASE BatchBegin \/ BatchEnd \/ StorePos
    BY <1>2, <1>3, <2>2, WriterProgress
  <2>3. CASE StoreTotal
    <3>1. Counted' = Counted + frameCount
      BY <1>2, <2>3, WriterProgress
    <3> QED BY <1>2, <1>3, <3>1
  <2> QED BY <2>1, <2>2, <2>3 DEF Writer
<1>5. Published' >= Published /\ Published' \in Int
  <2>1. CASE \E n \in 0..MaxChunk : WriteBegin(n)
    BY <1>3, <2>1, WriterProgress
  <2>2. CASE BatchBegin \/ BatchEnd \/ StorePos \/ StoreTotal
    BY <1>2, <1>3, <2>2, WriterProgress
  <2> QED BY <2>1, <2>2 DEF Writer
<1>6. claimed' >= claimed /\ claimed' \in Nat
  <2>1. CASE \E n \in 0..MaxChunk : WriteBegin(n)
    BY <1>3, <2>1, Constants DEF WriteBegin
  <2>2. CASE BatchBegin \/ BatchEnd \/ StorePos \/ StoreTotal
    BY <1>3, <2>2 DEF BatchBegin, BatchEnd, StorePos, StoreTotal
  <2> QED BY <2>1, <2>2 DEF Writer
<1>7. WindowIsPublished'
  <2>1. offset \in Int /\ readable \in Int /\ first \in Int
    BY Constants DEF TypeOK
  <2> QED BY <1>1, <1>3, <1>4, <1>5, <2>1 DEF WindowIsPublished, readerVars
<1>8. CopiesAreAcceptable'
  <2> SUFFICES ASSUME NEW k \in DOMAIN out
               PROVE  Acceptable(out[k], first + k)'
    BY <1>1 DEF CopiesAreAcceptable, readerVars
  <2>1. Acceptable(out[k], first + k)
    BY DEF CopiesAreAcceptable
  <2>2. first \in Int /\ k \in Int /\ Capacity \in Nat
    BY Constants DEF TypeOK
  <2>3. out' = out /\ first' = first
    BY <1>1 DEF readerVars
  <2> QED BY <1>3, <1>6, <2>1, <2>2, <2>3 DEF Acceptable
<1> QED BY <1>7, <1>8

-----------------------------------------------------------------------------
(* Both branches of read()'s start computation find the slot of the         *)
(* window's first frame, also once the cursor has wrapped around the word.  *)
LEMMA WindowStartIsRight ==
    ASSUME NEW p \in Nat, NEW span \in Nat
    PROVE  /\ WindowStart(p % WordMod, span) % Capacity = (p - span) % Capacity
           /\ WindowStart(p % WordMod, span) \in 0..(WordMod + Capacity)
<1> DEFINE wp == p % WordMod
<1>1. wp \in 0..(WordMod - 1) /\ wp \in Int
  <2>1. wp \in 0..(WordMod - 1)
    <3>1. p \in Int /\ WordMod \in Nat \ {0}
      BY Constants
    <3> QED BY <3>1, DivMod
  <2> HIDE DEF wp
  <2> QED BY <2>1, Constants
<1>2. wp % Capacity = p % Capacity
  <2>1. p \in Int
    OBVIOUS
  <2> QED BY <2>1, Constants, ModMod
<1> HIDE DEF wp
<1>3. (wp - span) % Capacity = (p - span) % Capacity
  <2>1. (wp + (-span)) % Capacity = (p + (-span)) % Capacity
    <3>1. -span \in Int /\ p \in Int /\ wp \in Int /\ Capacity \in Nat \ {0}
      BY <1>1, Constants
    <3> QED BY <1>2, <3>1, SameModPlus
  <2>2. wp + (-span) = wp - span /\ p + (-span) = p - span
    BY <1>1
  <2> QED BY <2>1, <2>2
<1>4. CASE wp >= span
  <2>1. WindowStart(wp, span) = wp - span
    BY <1>4 DEF WindowStart
  <2>2. wp - span \in 0..(WordMod + Capacity)
    BY <1>1, <1>4, Constants
  <2> QED BY <1>3, <2>1, <2>2 DEF wp
<1>5. CASE ~(wp >= span)
  <2> DEFINE d == span - wp
  <2>0. d \in Int
    BY <1>1
  <2> HIDE DEF d
  <2>1. d % Capacity \in 0..(Capacity - 1) /\ d \div Capacity \in Int
        /\ d = Capacity * (d \div Capacity) + (d % Capacity)
    BY <2>0, Constants, DivMod
  <2>2. WindowStart(wp, span) = Capacity - (d % Capacity)
    BY <1>5 DEF WindowStart, d
  <2> DEFINE m == 1 + (d \div Capacity)
  <2>3. m \in Int /\ Capacity * m = Capacity + Capacity * (d \div Capacity)
    BY <2>1, Constants
  <2>4. Capacity - (d % Capacity) = (wp - span) + Capacity * m
    <3>1. d = span - wp
      BY DEF d
    <3> HIDE DEF m
    <3> QED BY <1>1, <2>1, <2>3, <3>1, Constants
  <2> HIDE DEF m
  <2>5. ((wp - span) + Capacity * m) % Capacity = (wp - span) % Capacity
    <3>1. wp - span \in Int
      BY <1>1
    <3> QED BY <2>3, <3>1, Constants, ModPlusMultiple
  <2>6. Capacity - (d % Capacity) \in 0..(WordMod + Capacity)
    BY <2>1, Constants
  <2> QED BY <1>3, <2>2, <2>4, <2>5, <2>6 DEF wp
<1> QED BY <1>4, <1>5

(* The memcpy under way stays inside the window.                            *)
LEMMA ReadSpanFits ==
    ASSUME TypeOK
    PROVE  ReadSpan \in Nat /\ copied + ReadSpan <= readable
<1>1. start + copied \in Int /\ copied \in 0..readable /\ readable \in Nat
  BY Constants DEF TypeOK
<1>2. Idx(start + copied) \in Slots
  BY <1>1, IdxIsSlot
<1> QED BY <1>1, <1>2, Constants DEF ReadSpan, Smaller, Slots

(* A copy out of the slot of a published frame yields that frame, a younger *)
(* one of the slot, or bytes of two once a younger one has been handed over.*)
LEMMA FetchIsAcceptable ==
    ASSUME TypeOK, Cursors, SlotsAreCurrent,
           NEW f \in 0..(Done - 1), NEW v \in Fetch(f % Capacity)
    PROVE  Acceptable(v, f) /\ v \in Content
<1> DEFINE j == f % Capacity
<1>1. Done \in Nat /\ claimed \in 0..MaxFrames /\ Done <= claimed
  BY CursorOrder DEF TypeOK
<1>2. slot[j] \in f..(Done - 1) /\ slot[j] % Capacity = j
  BY DEF SlotsAreCurrent
<1>3. Acceptable(slot[j], f) /\ slot[j] \in Content
  BY <1>1, <1>2, Constants DEF Acceptable, Content, Frames
<1>4. CASE j \in Flux
  <2>1. NewFrame(j) \in Done..(Done + Batch - 1) /\ NewFrame(j) % Capacity = j
    BY <1>4, NewFrameFits
  <2>2. Done + Batch <= claimed /\ Batch \in Nat
    <3>1. Done = claimed - remaining
      BY <1>4 DEF Flux, Done
    <3> QED BY <1>1, <3>1, BatchFits, Constants DEF TypeOK
  <2>3. NewFrame(j) \in f..(claimed - 1) /\ NewFrame(j) \in Int /\ f < NewFrame(j)
    BY <1>1, <2>1, <2>2
  <2>4. Acceptable(NewFrame(j), f) /\ NewFrame(j) \in Content
    BY <1>1, <2>1, <2>3, Constants DEF Acceptable, Content, Frames
  <2>5. f + Capacity <= NewFrame(j)
    <3>1. f \in Int
      OBVIOUS
    <3> QED BY <2>1, <2>3, <3>1, Constants, SameModGap
  <2>6. Acceptable(Torn, f) /\ Torn \in Content
    BY <1>1, <2>3, <2>5, Constants DEF Acceptable, Content
  <2> QED BY <1>3, <2>4, <2>6, <1>4 DEF Fetch
<1>5. CASE j \notin Flux
  BY <1>3, <1>5 DEF Fetch
<1> QED BY <1>4, <1>5

(* What one frame's copy does to the reader's buffer.                       *)
LEMMA CopyFrameEffect ==
    ASSUME IInv, NEW k \in 0..(readable - 1), CopyFrame(k)
    PROVE  /\ out \in [0..(readable - 1) -> Content \cup {Unread}]
           /\ \E v \in Content : /\ out' = [out EXCEPT ![k] = v]
                               /\ Acceptable(v, first + k)
           /\ copied' \in 0..readable
<1>1. TypeOK /\ Cursors /\ SlotsAreCurrent
  BY DEF IInv, WriterInv
<1>2. /\ out \in [0..(readable - 1) -> Content \cup {Unread}]
      /\ first >= 0 /\ first + readable <= Published
      /\ start % Capacity = first % Capacity
  BY DEF CopyFrame, IInv, WindowIsPublished
<1>3. /\ first \in Int /\ start \in Int /\ readable \in Nat
      /\ k \in Int /\ copied \in 0..readable
  BY <1>1, Constants DEF TypeOK
<1>4. first + k \in 0..(Done - 1)
  BY <1>1, <1>2, <1>3, CursorOrder
<1>5. Idx(start + k) = (first + k) % Capacity
  <2>1. (start + k) % Capacity = (first + k) % Capacity
    <3>1. /\ Capacity \in Nat \ {0} /\ start \in Int /\ first \in Int
          /\ k \in Int /\ start % Capacity = first % Capacity
      BY <1>2, <1>3, Constants
    <3> QED BY <3>1, SameModPlus
  <2> QED BY <2>1 DEF Idx
<1>6. PICK v \in Fetch(Idx(start + k)) : out' = [out EXCEPT ![k] = v]
  BY DEF CopyFrame
<1>7. Acceptable(v, first + k) /\ v \in Content
  BY <1>1, <1>4, <1>5, FetchIsAcceptable
<1>8. copied' \in 0..readable
  BY <1>1, <1>3, ReadSpanFits DEF CopyFrame
<1> QED BY <1>2, <1>6, <1>7, <1>8

(* A reader's step keeps every variable in its type.                        *)
LEMMA ReaderTypeOK ==
    ASSUME IInv, Reader PROVE TypeOK'
<1>1. TypeOK /\ UNCHANGED writerVars
  BY DEF IInv, WriterInv, Reader
<1>2. totalWritten \in Nat /\ copied \in 0..readable /\ readable \in 0..MaxChunk
  BY <1>1, Constants DEF TypeOK
<1>3. ASSUME NEW r \in Readers, NEW off \in 0..Capacity,
             NEW count \in 0..MaxChunk, ReadBegin(r, off, count)
      PROVE  TypeOK'
  <2>1. readable' \in 0..MaxChunk
    BY <1>2, <1>3, Constants DEF ReadBegin, AvailableFrames, Smaller
  <2>2. start' = 0 /\ first' = 0 /\ copied' = 0 /\ out' = << >>
    BY <1>3 DEF ReadBegin, FreshLocals
  <2>3. 0 \in 0..(WordMod + Capacity) /\ 0 \in Int /\ 0 \in 0..readable'
    BY <2>1, Constants
  <2>4. holder' = r /\ rpc' = "loadPos" /\ offset' = off
    BY <1>3 DEF ReadBegin
  <2> QED BY <1>1, <2>1, <2>2, <2>3, <2>4 DEF TypeOK, writerVars
<1>4. ASSUME NEW off \in 0..Capacity, ReadNothing(off)
      PROVE  TypeOK'
  <2>1. start' = 0 /\ first' = 0 /\ copied' = 0 /\ out' = << >>
    BY <1>4 DEF ReadNothing, FreshLocals
  <2>2. /\ 0 \in 0..(WordMod + Capacity) /\ 0 \in Int /\ 0 \in 0..0
        /\ 0 \in 0..MaxChunk
    BY Constants
  <2>3. readable' = 0 /\ offset' = off /\ UNCHANGED <<holder, rpc>>
    BY <1>4 DEF ReadNothing
  <2> QED BY <1>1, <2>1, <2>2, <2>3 DEF TypeOK, writerVars
<1>5. CASE LoadPos
  <2>1. offset + readable \in Nat /\ Published \in Nat
        /\ writePos = Published % WordMod
    BY <1>1, CursorOrder, Constants DEF IInv, WriterInv, TypeOK, Cursors
  <2>2. start' \in 0..(WordMod + Capacity)
    BY <1>5, <2>1, WindowStartIsRight DEF LoadPos
  <2>3. first' \in Int
    BY <1>1, <1>5, <2>1, Constants DEF LoadPos, TypeOK
  <2>4. out' \in [0..(readable - 1) -> Content \cup {Unread}]
    BY <1>5 DEF LoadPos
  <2>5. copied' = 0 /\ 0 \in 0..readable
    BY <1>2, <1>5, Constants DEF LoadPos
  <2> QED BY <1>1, <1>5, <2>2, <2>3, <2>4, <2>5
          DEF LoadPos, TypeOK, writerVars
<1>6. ASSUME NEW k \in 0..(readable - 1), CopyFrame(k)
      PROVE  TypeOK'
  <2>1. out \in [0..(readable - 1) -> Content \cup {Unread}]
    BY <1>6 DEF CopyFrame, IInv, WindowIsPublished
  <2>2. PICK v \in Content : out' = [out EXCEPT ![k] = v]
    BY <1>6, CopyFrameEffect
  <2>3. out' \in [0..(readable - 1) -> Content \cup {Unread}]
    BY <2>1, <2>2
  <2>4. copied' \in 0..readable
    BY <1>6, CopyFrameEffect
  <2> QED BY <1>1, <1>6, <2>3, <2>4 DEF CopyFrame, TypeOK, writerVars
<1>7. CASE ReadEnd
  BY <1>1, <1>7 DEF ReadEnd, TypeOK, writerVars
<1> QED BY <1>3, <1>4, <1>5, <1>6, <1>7 DEF Reader

(* A reader moves none of the writer's cursors.                             *)
LEMMA ReaderKeepsWriter ==
    ASSUME WriterInv, UNCHANGED writerVars
    PROVE  /\ Cursors' /\ SlotsAreCurrent'
           /\ Done' = Done /\ Counted' = Counted /\ Published' = Published
<1>1. Done' = Done /\ Counted' = Counted /\ Published' = Published
  BY DEF writerVars, Done, Counted, Published
<1>2. Cursors'
  BY <1>1 DEF WriterInv, Cursors, writerVars
<1>3. SlotsAreCurrent'
  BY <1>1 DEF WriterInv, SlotsAreCurrent, writerVars
<1> QED BY <1>1, <1>2, <1>3

(* A reader asks for published frames, and copies out acceptable ones.      *)
LEMMA ReaderWindow ==
    ASSUME IInv, Reader PROVE WindowIsPublished' /\ CopiesAreAcceptable'
<1>1. TypeOK /\ Cursors /\ UNCHANGED writerVars
  BY DEF IInv, WriterInv, Reader
<1>2. Counted' = Counted /\ Published' = Published /\ claimed' = claimed
  BY <1>1, ReaderKeepsWriter DEF IInv, writerVars
<1>3. /\ Counted \in Nat /\ Published \in Nat /\ Counted <= Published
      /\ totalWritten \in Nat /\ totalWritten <= Counted
      /\ readable \in Nat /\ offset \in Nat /\ first \in Int
  BY <1>1, CursorOrder, Constants DEF TypeOK, Cursors
<1>4. ASSUME NEW r \in Readers, NEW off \in 0..Capacity,
             NEW count \in 0..MaxChunk, ReadBegin(r, off, count)
      PROVE  WindowIsPublished' /\ CopiesAreAcceptable'
  <2>1. off + readable' <= Counted
    BY <1>3, <1>4, Constants DEF ReadBegin, AvailableFrames, Smaller
  <2> QED BY <1>2, <1>4, <2>1, ReaderAssumption
          DEF ReadBegin, FreshLocals, WindowIsPublished, CopiesAreAcceptable
<1>5. ASSUME NEW off \in 0..Capacity, ReadNothing(off)
      PROVE  WindowIsPublished' /\ CopiesAreAcceptable'
  <2>1. rpc' = "idle" /\ holder' = NoReader
    BY <1>5 DEF ReadNothing, IInv, WindowIsPublished
  <2> QED BY <1>2, <1>5, <2>1
          DEF ReadNothing, FreshLocals, WindowIsPublished, CopiesAreAcceptable
<1>6. CASE LoadPos
  <2> DEFINE span == offset + readable
  <2>1. span \in Nat /\ span <= Counted
    BY <1>3, <1>6 DEF LoadPos, IInv, WindowIsPublished
  <2>2. /\ first' = Published - span /\ readable' = readable /\ rpc' = "copy"
        /\ start' = WindowStart(Published % WordMod, span)
    BY <1>1, <1>3, <1>6 DEF LoadPos, Cursors
  <2> HIDE DEF span
  <2>3. first' >= 0
    BY <1>3, <2>1, <2>2
  <2>4. first' + readable' <= Published'
    BY <1>2, <1>3, <1>6 DEF LoadPos
  <2>5. start' % Capacity = first' % Capacity
    BY <1>3, <2>1, <2>2, WindowStartIsRight
  <2>6. out' = [k \in 0..(readable - 1) |-> Unread]
    BY <1>6 DEF LoadPos
  <2>7. CopiesAreAcceptable'
    BY <2>6 DEF CopiesAreAcceptable, Acceptable
  <2>8. holder' # NoReader
    BY <1>6 DEF LoadPos, IInv, WindowIsPublished
  <2> QED BY <2>2, <2>3, <2>4, <2>5, <2>6, <2>7, <2>8 DEF WindowIsPublished
<1>7. ASSUME NEW k \in 0..(readable - 1), CopyFrame(k)
      PROVE  WindowIsPublished' /\ CopiesAreAcceptable'
  <2>1. out \in [0..(readable - 1) -> Content \cup {Unread}]
    BY <1>7, CopyFrameEffect
  <2>2. PICK v \in Content : /\ out' = [out EXCEPT ![k] = v]
                            /\ Acceptable(v, first + k)
    BY <1>7, CopyFrameEffect
  <2>3. out' \in [0..(readable - 1) -> Content \cup {Unread}]
    BY <2>1, <2>2
  <2>4. WindowIsPublished'
    BY <1>2, <1>7, <2>3 DEF CopyFrame, IInv, WindowIsPublished
  <2>5. CopiesAreAcceptable'
    <3> SUFFICES ASSUME NEW i \in DOMAIN out'
                 PROVE  Acceptable(out[i], first + i)'
      BY DEF CopiesAreAcceptable
    <3>1. i \in DOMAIN out /\ first' = first
      BY <1>7, <2>1, <2>2 DEF CopyFrame
    <3>2. Acceptable(out[i], first + i)
      BY <3>1 DEF IInv, CopiesAreAcceptable
    <3>3. out'[i] = out[i] \/ (i = k /\ out'[i] = v)
      BY <2>1, <2>2, <3>1
    <3> QED BY <1>2, <2>2, <3>1, <3>2, <3>3 DEF Acceptable
  <2> QED BY <2>4, <2>5
<1>8. CASE ReadEnd
  BY <1>2, <1>8 DEF ReadEnd, IInv, WindowIsPublished, CopiesAreAcceptable,
                    Acceptable
<1> QED BY <1>4, <1>5, <1>6, <1>7, <1>8 DEF Reader

-----------------------------------------------------------------------------
(* The invariant is inductive.                                              *)
LEMMA NextInv == IInv /\ [Next]_vars => IInv'
<1> SUFFICES ASSUME IInv, [Next]_vars PROVE IInv'
  OBVIOUS
<1>1. TypeOK /\ Cursors /\ SlotsAreCurrent /\ WindowIsPublished
      /\ CopiesAreAcceptable
  BY DEF IInv, WriterInv
<1>2. CASE Writer
  BY <1>1, <1>2, WriterTypeOK, WriterCursors, WriterSlots, WriterKeepsReader
     DEF IInv, WriterInv
<1>3. CASE Reader
  <2>1. WriterInv /\ UNCHANGED writerVars
    BY <1>3 DEF IInv, Reader
  <2> QED BY <1>3, <2>1, ReaderTypeOK, ReaderKeepsWriter, ReaderWindow
          DEF IInv, WriterInv
<1>4. CASE UNCHANGED vars
  <2>1. WriterInv /\ UNCHANGED writerVars
    BY <1>4 DEF IInv, vars
  <2>2. Cursors' /\ SlotsAreCurrent' /\ Counted' = Counted
        /\ Published' = Published
    BY <2>1, ReaderKeepsWriter
  <2>3. TypeOK'
    BY <1>1, <1>4 DEF TypeOK, vars, writerVars, readerVars
  <2>4. WindowIsPublished'
    BY <1>1, <1>4, <2>2 DEF WindowIsPublished, vars, readerVars
  <2>5. CopiesAreAcceptable'
    BY <1>1, <1>4 DEF CopiesAreAcceptable, Acceptable, vars, writerVars,
                      readerVars
  <2> QED BY <2>2, <2>3, <2>4, <2>5 DEF IInv, WriterInv
<1> QED BY <1>2, <1>3, <1>4 DEF Next

LEMMA Invariance == Spec => []IInv
<1> QED BY InitInv, NextInv, PTL DEF Spec

-----------------------------------------------------------------------------
(* Every variable of the ring keeps its type.                               *)
THEOREM TypeCorrect == Spec => []TypeOK
<1>1. IInv => TypeOK
  BY DEF IInv, WriterInv
<1> QED BY <1>1, Invariance, PTL

(* A read that the writer has not lapped returns the frames it asked for.   *)
THEOREM CleanReads == Spec => []CleanFramesAreTheWindow
<1>1. IInv => CleanFramesAreTheWindow
  <2> SUFFICES ASSUME IInv, NEW k \in DOMAIN out,
                      out[k] # Unread, claimed <= first + k + Capacity
               PROVE  out[k] = first + k
    BY DEF CleanFramesAreTheWindow
  <2> DEFINE f == first + k
             v == out[k]
  <2>1. /\ f \in Int /\ claimed \in Nat /\ Capacity \in Nat \ {0}
    BY Constants DEF IInv, WriterInv, TypeOK
  <2>2. v \in f..(claimed - 1) /\ v % Capacity = f % Capacity
    BY <2>1 DEF IInv, CopiesAreAcceptable, Acceptable
  <2>3. v \in Int /\ f <= v /\ v < f + Capacity /\ v % Capacity = f % Capacity
    BY <2>1, <2>2
  <2> HIDE DEF f, v
  <2>4. f < v => f + Capacity <= v
    BY <2>1, <2>3, SameModGap
  <2>5. v = f
    BY <2>1, <2>3, <2>4
  <2> QED BY <2>5 DEF f, v
<1> QED BY <1>1, Invariance, PTL

(* A read that the writer has lapped returns torn bytes or frames whole     *)
(* laps later, never silence, an older frame or one not captured yet.       *)
THEOREM LappedReads == Spec => []LappedFramesAreLater
<1>1. IInv => LappedFramesAreLater
  BY DEF IInv, CopiesAreAcceptable, Acceptable, LappedFramesAreLater
<1> QED BY <1>1, Invariance, PTL

-----------------------------------------------------------------------------
(* What read() counts as copied has been copied, in whatever order the      *)
(* frames of a memcpy are taken.                                            *)
CopiedIsRead ==
    rpc = "copy" => \A k \in 0..(copied - 1) : out[k] # Unread

LEMMA CopiedIsReadStep ==
    ASSUME IInv, CopiedIsRead, [Next]_vars
    PROVE  CopiedIsRead'
<1>1. CASE UNCHANGED readerVars
  BY <1>1 DEF CopiedIsRead, readerVars
<1>2. CASE (\E r \in Readers, off \in 0..Capacity, count \in 0..MaxChunk :
                ReadBegin(r, off, count))
           \/ (\E off \in 0..Capacity : ReadNothing(off)) \/ LoadPos \/ ReadEnd
  <2>1. rpc' # "copy" \/ copied' = 0
    BY <1>2 DEF ReadBegin, ReadNothing, FreshLocals, LoadPos, ReadEnd
  <2> QED BY <2>1 DEF CopiedIsRead
<1>3. ASSUME NEW k \in 0..(readable - 1), CopyFrame(k)
      PROVE  CopiedIsRead'
  <2>1. /\ rpc = "copy" /\ k \in copied..(copied + ReadSpan - 1)
        /\ copied' = IF \A j \in ReadBatch \ {k} : out[j] # Unread
                     THEN copied + ReadSpan ELSE copied
    BY <1>3 DEF CopyFrame, ReadBatch
  <2>2. PICK v \in Content : out' = [out EXCEPT ![k] = v]
    BY <1>3, CopyFrameEffect
  <2>3. out \in [0..(readable - 1) -> Content \cup {Unread}] /\ v # Unread
    BY <1>3, CopyFrameEffect DEF Content, Frames, Silence, Torn, Unread
  <2>4. /\ ReadSpan \in Nat /\ copied + ReadSpan <= readable
        /\ copied \in Nat /\ readable \in Nat
    BY ReadSpanFits, Constants DEF IInv, WriterInv, TypeOK
  <2>5. \A i \in 0..(copied - 1) : out[i] # Unread
    BY <2>1 DEF CopiedIsRead
  <2>6. \A i \in 0..(readable - 1) :
            out[i] # Unread \/ i = k => out'[i] # Unread
    BY <2>2, <2>3
  <2>7. CASE \A j \in ReadBatch \ {k} : out[j] # Unread
    <3>1. ASSUME NEW i \in 0..((copied + ReadSpan) - 1)
          PROVE  out'[i] # Unread
      <4>1. i \in 0..(copied - 1) \/ i \in ReadBatch
        BY <2>4 DEF ReadBatch
      <4>2. i \in 0..(readable - 1)
        BY <2>4
      <4> QED BY <2>5, <2>6, <2>7, <4>1, <4>2
    <3> QED BY <2>1, <2>7, <3>1 DEF CopiedIsRead
  <2>8. CASE ~(\A j \in ReadBatch \ {k} : out[j] # Unread)
    <3>1. ASSUME NEW i \in 0..(copied - 1)
          PROVE  out'[i] # Unread
      <4>1. i \in 0..(readable - 1)
        BY <2>4
      <4> QED BY <2>5, <2>6, <4>1
    <3>2. copied' = copied
      BY <2>1, <2>8
    <3> QED BY <3>1, <3>2 DEF CopiedIsRead
  <2> QED BY <2>7, <2>8
<1> QED BY <1>1, <1>2, <1>3 DEF Next, Writer, Reader, vars

LEMMA CopiedInvariance == Spec => []CopiedIsRead
<1>1. Init => CopiedIsRead
  BY DEF Init, CopiedIsRead
<1>2. IInv /\ CopiedIsRead /\ [Next]_vars => CopiedIsRead'
  BY CopiedIsReadStep
<1> QED BY <1>1, <1>2, Invariance, PTL DEF Spec

(* The steps of write(): its batches are nothing to the history.            *)
LEMMA WriterHistory ==
    ASSUME IInv, Writer
    PROVE  History!Writer \/ UNCHANGED History!vars
<1>1. UNCHANGED readerVars
  BY DEF Writer
<1>2. UNCHANGED History!readerVars
  BY <1>1 DEF readerVars, History!readerVars
<1>3. /\ TypeOK /\ Cursors /\ 0 \in 0..MaxChunk
      /\ claimed \in Nat /\ frameCount \in Nat /\ remaining \in Nat
  BY Constants DEF IInv, WriterInv, TypeOK
<1>4. ASSUME NEW n \in 0..MaxChunk, WriteBegin(n)
      PROVE  History!Hand(n)
  <2>1. /\ Published' = Published /\ Counted' = Counted
        /\ claimed' = claimed + n /\ wpc = "idle"
    BY <1>3, <1>4, WriterProgress DEF WriteBegin
  <2>2. Published = claimed /\ Counted = claimed
    BY <2>1 DEF Published, Counted
  <2> QED BY <2>1, <2>2 DEF History!Hand
<1>5. CASE BatchBegin \/ BatchEnd
  <2>1. Published' = Published /\ Counted' = Counted /\ claimed' = claimed
    BY <1>3, <1>5, WriterProgress DEF BatchBegin, BatchEnd
  <2> QED BY <1>2, <2>1 DEF History!vars, History!writerVars
<1>6. CASE StorePos
  <2>1. /\ Published' = Done /\ Counted' = Counted
        /\ claimed' = claimed /\ wpc = "storePos"
    BY <1>3, <1>6, WriterProgress DEF StorePos
  <2>2. Done = claimed /\ Counted = Published
    BY <1>3, <2>1 DEF Done, Counted, Published, Cursors
  <2> QED BY <1>2, <2>1, <2>2 DEF History!Publish, History!Writer
<1>7. CASE StoreTotal
  <2>1. /\ Published' = Published /\ claimed' = claimed
        /\ wpc = "storeTotal" /\ wpc' = "idle"
    BY <1>3, <1>7, WriterProgress DEF StoreTotal
  <2>2. Published = claimed /\ Counted' = claimed
    BY <2>1 DEF Published, Counted
  <2> QED BY <1>2, <2>1, <2>2 DEF History!Count, History!Writer
<1> QED BY <1>2, <1>4, <1>5, <1>6, <1>7 DEF Writer, History!Writer

(* The steps of read(): the slots it looks into hold what the history may.  *)
LEMMA ReaderHistory ==
    ASSUME IInv, CopiedIsRead, Reader
    PROVE  History!Reader
<1>1. UNCHANGED writerVars
  BY DEF Reader
<1>2. UNCHANGED History!writerVars
  BY <1>1, ReaderKeepsWriter DEF IInv, writerVars, History!writerVars
<1>3. /\ holder = NoReader <=> rpc = "idle"
      /\ totalWritten <= Counted /\ Counted \in Nat /\ totalWritten \in Nat
      /\ readable \in 0..MaxChunk /\ claimed \in Nat
  BY CursorOrder, Constants
     DEF IInv, WriterInv, WindowIsPublished, Cursors, TypeOK
<1>4. ASSUME NEW r \in Readers, NEW off \in 0..Capacity,
             NEW count \in 0..MaxChunk, ReadBegin(r, off, count)
      PROVE  History!Reader
  <2>1. PICK m \in 0..MaxChunk : readable' = m
    BY <1>4, ReaderTypeOK DEF TypeOK
  <2>2. m <= AvailableFrames - off
    <3>1. AvailableFrames \in Nat
      BY <1>3, Constants DEF AvailableFrames, Smaller
    <3> QED BY <1>4, <2>1, <3>1, Constants DEF ReadBegin, Smaller
  <2>3. AvailableFrames <= totalWritten /\ AvailableFrames <= Capacity
        /\ AvailableFrames \in Nat
    BY <1>3, Constants DEF AvailableFrames, Smaller
  <2>4. off + m <= Counted /\ off + m <= Capacity
    BY <1>3, <2>2, <2>3, Constants
  <2>5. History!Ask(r, off, m)
    BY <1>3, <1>4, <2>1, <2>4 DEF ReadBegin, FreshLocals, History!Ask
  <2> QED BY <1>2, <2>5 DEF History!Reader
<1>5. ASSUME NEW off \in 0..Capacity, ReadNothing(off)
      PROVE  History!Reader
  <2>1. History!AskForNothing(off)
    BY <1>3, <1>5 DEF ReadNothing, FreshLocals, History!AskForNothing
  <2> QED BY <1>2, <2>1 DEF History!Reader
<1>6. CASE LoadPos
  <2>1. History!Look
    BY <1>6 DEF LoadPos, History!Look, Unread, History!Unread
  <2> QED BY <1>2, <2>1 DEF History!Reader
<1>7. ASSUME NEW k \in 0..(readable - 1), CopyFrame(k)
      PROVE  History!Reader
  <2>1. PICK v \in Content : /\ out' = [out EXCEPT ![k] = v]
                            /\ Acceptable(v, first + k)
    BY <1>7, CopyFrameEffect
  <2>2. v # Unread
    BY Constants DEF Content, Frames, Silence, Torn, Unread
  <2>3. v \in History!MayHold(first + k)
    BY <2>1, <2>2
       DEF Acceptable, Torn, History!MayHold, History!Lapped, History!Torn
  <2>4. /\ rpc = "copy" /\ out[k] = Unread
        /\ UNCHANGED <<holder, rpc, offset, readable, first>>
    BY <1>7 DEF CopyFrame
  <2>5. History!Copy(k)
    BY <2>1, <2>3, <2>4 DEF History!Copy, Unread, History!Unread
  <2> QED BY <1>2, <1>7, <2>5 DEF History!Reader
<1>8. CASE ReadEnd
  <2>1. \A k \in 0..(readable - 1) : out[k] # Unread
    BY <1>8 DEF ReadEnd, CopiedIsRead
  <2>2. History!Return
    BY <1>8, <2>1 DEF ReadEnd, History!Return, Unread, History!Unread
  <2> QED BY <1>2, <2>2 DEF History!Reader
<1> QED BY <1>4, <1>5, <1>6, <1>7, <1>8 DEF Reader

(* Through slots, batches and wraps, in the middle of an overwrite, and     *)
(* whatever the order in which a memcpy takes its frames, readers see the   *)
(* history: a window fixed by one look at its end, in which each frame is   *)
(* itself or one that has lapped it, and which is whole when read() returns.*)
THEOREM ImplementsHistory == Spec => ReadsAreHistory
<1>1. Init => History!Init
  BY DEF Init, Published, Counted, History!Init
<1>2. IInv /\ CopiedIsRead /\ [Next]_vars => [History!Next]_(History!vars)
  <2> SUFFICES ASSUME IInv, CopiedIsRead, [Next]_vars
               PROVE  History!Next \/ UNCHANGED History!vars
    OBVIOUS
  <2>1. CASE Writer
    BY <2>1, WriterHistory DEF History!Next
  <2>2. CASE Reader
    BY <2>2, ReaderHistory DEF History!Next
  <2>3. CASE UNCHANGED vars
    BY <2>3 DEF vars, writerVars, readerVars, Published, Counted,
                History!vars, History!writerVars, History!readerVars
  <2> QED BY <2>1, <2>2, <2>3 DEF Next
<1> QED BY <1>1, <1>2, Invariance, CopiedInvariance, PTL
       DEF Spec, ReadsAreHistory, History!Spec
=============================================================================
