------------------------- MODULE BlockRecorder_proofs -------------------------
(************************************************************************** *)
(* The safety of the recorder for rings, buffers, blocks, frames and        *)
(* periods of every size, and that its threads keep to RecorderWakeup.      *)
(************************************************************************** *)
EXTENDS BlockRecorder, SequenceTheorems, TLAPS

(* Bytes push() has copied into the ring and not yet made visible; bytes    *)
(* the writer has given back; the number of the first byte that is still to *)
(* be written out or thrown away.                                           *)
Pending  == IF cpc = "store" THEN period * BytesPerFrame ELSE 0
Released == accepted - Used
Done     == Released + chunk - Len(writeBuffer)

(* Each cursor is the number of bytes it stands for, reduced by the word.   *)
Cursors ==
    /\ Released \in Nat
    /\ ringWrite = accepted % WordMod
    /\ ringRead = Released % WordMod

(* What is in the ring, or on the way into it, is there byte by byte.       *)
RingHolds ==
    /\ Used + Pending <= RingCapacity
    /\ \A x \in Released..(accepted + Pending - 1) :
           ring[x % RingCapacity] = x

(* The write buffer continues where the last frame written, or thrown away, *)
(* has ended.                                                               *)
BufferHolds ==
    /\ \A i \in 1..Len(writeBuffer) : writeBuffer[i] = Done + i - 1
    /\ Done = framesWritten * BytesPerFrame + lost

(* Where the writer is in a drain.                                          *)
DrainInStep ==
    /\ wpc = "release" => chunk \in 1..Used /\ chunk <= Len(writeBuffer)
    /\ wpc # "release" => chunk = 0
    /\ wpc \notin {"release", "frames"} => Len(writeBuffer) < BytesPerFrame

(* Periods are accepted whole.                                              *)
PeriodsWhole ==
    accepted + Pending = (captured - dropped) * BytesPerFrame

(* stop() has taken the capture thread's place before it tells the writer,  *)
(* and a writer that has left has nothing more to write.                    *)
StopInStep ==
    /\ spc = "running" <=> writerRunning
    /\ spc = "running" <=> cpc # "joined"
    /\ spc = "stopped" => wpc = "exited"
    /\ wpc = "exited" => ~writerRunning /\ Used = 0 /\ ~fileOpen

(* The file being written, and how many have been cut.                      *)
FileInStep ==
    IF fileOpen
    THEN /\ Len(files) >= 1
         /\ framesInBlock < BlockFrames
         /\ blocksWritten = Len(files) - 1
         /\ lost = 0 =>
              /\ Len(files[Len(files)].frames) = framesInBlock
              /\ framesWritten = (Len(files) - 1) * BlockFrames + framesInBlock
    ELSE wpc # "exited" =>
         /\ blocksWritten = Len(files)
         /\ lost = 0 =>
              /\ Len(files) >= 1 => Len(files[Len(files)].frames) = BlockFrames
              /\ framesWritten = Len(files) * BlockFrames

(* What is on disk comes before what is to be written.                      *)
FilesBehind ==
    \A i \in DOMAIN files : \A k \in DOMAIN files[i].frames :
        files[i].frames[k] < Done

IInv ==
    /\ TypeOK /\ Cursors /\ RingHolds /\ BufferHolds /\ DrainInStep
    /\ PeriodsWhole /\ StopInStep /\ FileInStep /\ FilesBehind
    /\ FilesAreGapless /\ BlocksAreFull /\ FramesInOrder

-----------------------------------------------------------------------------
(* Facts about remainders: the cursors are reduced by the word they are     *)
(* stored in, and by the mask of the ring.                                  *)

(* A number is its quotient's multiple and its remainder.                   *)
LEMMA DivMod ==
    ASSUME NEW C \in Nat \ {0}, NEW a \in Int
    PROVE  /\ a % C \in 0..(C - 1)
           /\ a \div C \in Int
           /\ a = C * (a \div C) + (a % C)
  OBVIOUS

(* A positive multiple is at least, a negative one at most one step away.   *)
LEMMA MultipleGap ==
    ASSUME NEW C \in Nat \ {0}, NEW m \in Int
    PROVE  /\ m >= 1 => C * m >= C
           /\ m <= -1 => C * m <= -C
           /\ C * m \in Int
  OBVIOUS

(* The remainder is the only number of the range at a multiple's distance.  *)
LEMMA ModUnique ==
    ASSUME NEW C \in Nat \ {0}, NEW a \in Int, NEW q \in Int,
           NEW r \in 0..(C - 1), a = C * q + r
    PROVE  a % C = r
<1> DEFINE d == q - (a \div C)
<1>1. a \div C \in Int /\ a % C \in 0..(C - 1) /\ a = C * (a \div C) + (a % C)
  BY DivMod
<1>2. d \in Int
  BY <1>1
<1>3. C * d = (a % C) - r
  <2>1. C * d = C * q - C * (a \div C)
    BY <1>1
  <2> QED BY <2>1, <1>1
<1> HIDE DEF d
<1>4. CASE d >= 1
  BY <1>1, <1>2, <1>3, <1>4, MultipleGap
<1>5. CASE d <= -1
  BY <1>1, <1>2, <1>3, <1>5, MultipleGap
<1>6. CASE d = 0
  BY <1>1, <1>3, <1>6
<1> QED BY <1>2, <1>4, <1>5, <1>6

(* Adding a multiple leaves the remainder alone.                            *)
LEMMA ModPlusMultiple ==
    ASSUME NEW C \in Nat \ {0}, NEW a \in Int, NEW m \in Int
    PROVE  (a + C * m) % C = a % C
<1> DEFINE b == a + C * m
           q == (a \div C) + m
<1>1. a \div C \in Int /\ a % C \in 0..(C - 1) /\ a = C * (a \div C) + (a % C)
  BY DivMod
<1>2. b \in Int /\ q \in Int
  BY <1>1, MultipleGap
<1>3. b = C * q + (a % C)
  BY <1>1
<1> HIDE DEF b, q
<1>4. b % C = a % C
  BY <1>1, <1>2, <1>3, ModUnique
<1> QED BY <1>4 DEF b

(* Numbers of the same remainder are a multiple apart.                      *)
LEMMA SameModMultiple ==
    ASSUME NEW C \in Nat \ {0}, NEW a \in Int, NEW b \in Int, a % C = b % C
    PROVE  \E m \in Int : b = a + C * m
<1> DEFINE m == (b \div C) - (a \div C)
<1>1. /\ a \div C \in Int /\ b \div C \in Int
      /\ a % C \in Int /\ b % C \in Int
      /\ a = C * (a \div C) + (a % C) /\ b = C * (b \div C) + (b % C)
  BY DivMod
<1>2. m \in Int
  BY <1>1
<1>3. C * m = C * (b \div C) - C * (a \div C)
  BY <1>1
<1>4. b = a + C * m
  BY <1>1, <1>3
<1> QED BY <1>2, <1>4

(* A common summand keeps remainders equal.                                 *)
LEMMA SameModPlus ==
    ASSUME NEW C \in Nat \ {0}, NEW a \in Int, NEW b \in Int, NEW k \in Int,
           a % C = b % C
    PROVE  (a + k) % C = (b + k) % C
<1>1. PICK m \in Int : b = a + C * m
  BY SameModMultiple
<1>2. b + k = (a + k) + C * m
  BY <1>1, MultipleGap
<1>3. ((a + k) + C * m) % C = (a + k) % C
  <2>1. a + k \in Int
    OBVIOUS
  <2> QED BY <2>1, ModPlusMultiple
<1> QED BY <1>2, <1>3

(* A summand that stays below C is added to the remainder.                  *)
LEMMA ModPlusSmall ==
    ASSUME NEW C \in Nat \ {0}, NEW a \in Int, NEW i \in Nat,
           (a % C) + i < C
    PROVE  (a + i) % C = (a % C) + i
<1> DEFINE b == a + i
           r == (a % C) + i
<1>1. a \div C \in Int /\ a % C \in 0..(C - 1) /\ a = C * (a \div C) + (a % C)
  BY DivMod
<1>2. b \in Int /\ r \in 0..(C - 1) /\ b = C * (a \div C) + r
  BY <1>1
<1> HIDE DEF b, r
<1>3. b % C = r
  BY <1>1, <1>2, ModUnique
<1> QED BY <1>3 DEF b, r

(* Reducing by the word first changes nothing when C divides it.            *)
LEMMA ModMod ==
    ASSUME NEW C \in Nat \ {0}, NEW W \in Nat \ {0}, W % C = 0, NEW a \in Int
    PROVE  (a % W) % C = a % C
<1>1. a \div W \in Int /\ a % W \in Int /\ a = W * (a \div W) + (a % W)
  BY DivMod
<1>2. W \div C \in Int /\ W = C * (W \div C)
  BY DivMod
<1> DEFINE m == (W \div C) * (a \div W)
<1>3. m \in Int
  BY <1>1, <1>2
<1>4. a = (a % W) + C * m
  <2>1. C * m = (C * (W \div C)) * (a \div W)
    BY <1>1, <1>2
  <2>2. C * m = W * (a \div W)
    BY <2>1, <1>2
  <2> QED BY <2>2, <1>1
<1> HIDE DEF m
<1>5. ((a % W) + C * m) % C = (a % W) % C
  BY <1>1, <1>3, ModPlusMultiple
<1> QED BY <1>4, <1>5

(* Reducing before an addition changes nothing after it.                    *)
LEMMA ModPlusMod ==
    ASSUME NEW W \in Nat \ {0}, NEW a \in Int, NEW k \in Int
    PROVE  ((a % W) + k) % W = (a + k) % W
<1> DEFINE r == a % W
<1>1. r \in 0..(W - 1) /\ r \in Int /\ r = W * 0 + r
  BY DivMod
<1> HIDE DEF r
<1>2. r % W = r
  BY <1>1, ModUnique
<1>3. (a % W) % W = a % W /\ a % W \in Int
  BY <1>1, <1>2 DEF r
<1> QED BY <1>3, SameModPlus

(* A subtrahend no larger than the remainder is taken from the remainder.   *)
LEMMA ModMinusSmall ==
    ASSUME NEW C \in Nat \ {0}, NEW a \in Int, NEW i \in Nat, i <= a % C
    PROVE  (a - i) % C = (a % C) - i
<1> DEFINE b == a - i
           r == (a % C) - i
<1>1. a \div C \in Int /\ a % C \in 0..(C - 1) /\ a = C * (a \div C) + (a % C)
  BY DivMod
<1>2. b \in Int /\ r \in 0..(C - 1) /\ b = C * (a \div C) + r
  BY <1>1
<1> HIDE DEF b, r
<1>3. b % C = r
  BY <1>1, <1>2, ModUnique
<1> QED BY <1>3 DEF b, r

(* Reducing a subtrahend changes nothing after the subtraction.             *)
LEMMA ModMinusMod ==
    ASSUME NEW W \in Nat \ {0}, NEW a \in Int, NEW k \in Int
    PROVE  (k - (a % W)) % W = (k - a) % W
<1> DEFINE q == a \div W
           b == k - a
<1>1. q \in Int /\ a % W \in Int /\ a = W * q + (a % W)
  BY DivMod
<1>2. b \in Int /\ k - (a % W) = b + W * q
  BY <1>1, MultipleGap
<1>3. (b + W * q) % W = b % W
  <2> HIDE DEF b, q
  <2> QED BY <1>1, <1>2, ModPlusMultiple
<1> QED BY <1>2, <1>3

-----------------------------------------------------------------------------
(* The sizes the constructor computes.                                      *)
LEMMA Sizes ==
    /\ BytesPerFrame \in Nat \ {0} /\ BlockFrames \in Nat \ {0}
    /\ FlushThreshold \in Nat \ {0}
    /\ BufferSize \in Nat /\ BytesPerFrame < BufferSize
    /\ RingCapacity \in Nat \ {0} /\ WordMod \in Nat \ {0}
    /\ RingCapacity < WordMod /\ WordMod % RingCapacity = 0
    /\ Periods \subseteq Nat \ {0} /\ MaxFrames \in Nat
<1>1. BlockFrames \in Nat \ {0}
  BY RecorderAssumption DEF BlockFrames
<1>2. OneSecond \in Nat /\ BytesPerFrame <= OneSecond
  BY RecorderAssumption DEF OneSecond
<1>3. FlushThreshold \in Nat /\ OneSecond <= FlushThreshold
  BY RecorderAssumption, <1>2 DEF FlushThreshold
<1> QED
  BY RecorderAssumption, RingAssumption, <1>1, <1>2, <1>3 DEF BufferSize

(* A number of periods' or frames' bytes.                                   *)
LEMMA FrameBytes ==
    ASSUME NEW a \in Int, NEW b \in Int
    PROVE  /\ a * BytesPerFrame \in Int
           /\ (a + b) * BytesPerFrame = a * BytesPerFrame + b * BytesPerFrame
           /\ (a - b) * BytesPerFrame = a * BytesPerFrame - b * BytesPerFrame
           /\ a < b => a * BytesPerFrame + BytesPerFrame <= b * BytesPerFrame
           /\ a \in Nat => a * BytesPerFrame \in Nat
           /\ a * BytesPerFrame = 0 => a = 0
<1>1. /\ a * BytesPerFrame \in Int
      /\ (a + b) * BytesPerFrame = a * BytesPerFrame + b * BytesPerFrame
      /\ (a - b) * BytesPerFrame = a * BytesPerFrame - b * BytesPerFrame
      /\ a \in Nat => a * BytesPerFrame \in Nat
  BY Sizes
<1>2. a * BytesPerFrame = 0 => a = 0
  BY Sizes
<1>3. ASSUME a < b PROVE a * BytesPerFrame + BytesPerFrame <= b * BytesPerFrame
  <2>1. b - a - 1 \in Nat
    BY <1>3
  <2>2. (b - a - 1) * BytesPerFrame \in Nat
    BY <2>1, Sizes
  <2>3. (b - a - 1) * BytesPerFrame
            = b * BytesPerFrame - a * BytesPerFrame - BytesPerFrame
    BY Sizes
  <2>4. a * BytesPerFrame \in Int /\ b * BytesPerFrame \in Int
    BY Sizes
  <2> QED
    BY <2>2, <2>3, <2>4, Sizes
<1> QED
  BY <1>1, <1>2, <1>3

(* The same of blocks, in frames.                                           *)
LEMMA BlockSum ==
    ASSUME NEW a \in Int
    PROVE  /\ a * BlockFrames \in Int
           /\ (a + 1) * BlockFrames = a * BlockFrames + BlockFrames
           /\ (a - 1) * BlockFrames = a * BlockFrames - BlockFrames
BY Sizes

(* TypeOK and the numbers of this module.                                   *)
LEMMA Types ==
    ASSUME IInv
    PROVE  /\ ring \in [0..(RingCapacity - 1) -> Int]
           /\ ringWrite \in 0..(WordMod - 1) /\ ringRead \in 0..(WordMod - 1)
           /\ captured \in Nat /\ dropped \in Nat /\ dropped <= captured
           /\ accepted \in Nat /\ lost \in Nat /\ period \in Nat
           /\ chunk \in Nat /\ chunk <= Len(writeBuffer)
           /\ writeBuffer \in Seq(Int) /\ Len(writeBuffer) \in Nat
           /\ files \in Seq([name : Nat, frames : Seq(Int)])
           /\ Len(files) \in Nat
           /\ framesInBlock \in Nat /\ blocksWritten \in Nat
           /\ framesWritten \in Nat
           /\ Used \in 0..(WordMod - 1) /\ Used + Pending <= RingCapacity
           /\ Pending \in Nat /\ Released \in Nat /\ Done \in Nat
<1>1. TypeOK
  BY DEF IInv
<1>2. /\ ringWrite \in 0..(WordMod - 1) /\ ringRead \in 0..(WordMod - 1)
      /\ ring \in [0..(RingCapacity - 1) -> Int]
      /\ accepted \in Nat /\ lost \in Nat
      /\ writeBuffer \in Seq(Int)
      /\ files \in Seq([name : Nat, frames : Seq(Int)])
      /\ blocksWritten \in Nat /\ framesWritten \in Nat
  BY <1>1 DEF TypeOK
<1>3. /\ captured \in Nat /\ dropped \in Nat /\ dropped <= captured
      /\ period \in Nat /\ chunk \in Nat /\ framesInBlock \in Nat
  BY <1>1, Sizes DEF TypeOK
<1>4. Used \in 0..(WordMod - 1)
  <2>1. ringWrite - ringRead \in Int
    BY <1>2, Sizes
  <2> HIDE DEF Used
  <2> QED
    BY <2>1, Sizes, DivMod DEF Used
<1>5. Len(writeBuffer) \in Nat /\ Len(files) \in Nat
  BY <1>2
<1>6. chunk <= Len(writeBuffer)
  BY <1>5 DEF IInv, DrainInStep
<1>7. Pending \in Nat
  BY <1>3, FrameBytes DEF Pending
<1>8. Released \in Nat /\ Used + Pending <= RingCapacity
  BY DEF IInv, Cursors, RingHolds
<1>9. Done \in Nat
  <2>1. framesWritten * BytesPerFrame \in Nat
    BY <1>2, Sizes
  <2> QED
    BY <1>2, <2>1 DEF IInv, BufferHolds
<1> QED
  BY <1>2, <1>3, <1>4, <1>5, <1>6, <1>7, <1>8, <1>9

(* The integers among them.                                                 *)
LEMMA Numbers ==
    ASSUME IInv
    PROVE  /\ ringWrite \in Int /\ ringRead \in Int
           /\ captured \in Int /\ dropped \in Int /\ accepted \in Int
           /\ 0 <= dropped /\ dropped <= captured /\ 0 <= accepted
           /\ Used \in Int /\ 0 <= Used /\ Used <= RingCapacity
           /\ Pending \in Int /\ 0 <= Pending
           /\ Used + Pending <= RingCapacity
           /\ Released \in Int /\ 0 <= Released
           /\ Released = accepted - Used
           /\ RingCapacity \in Int /\ WordMod \in Int
           /\ 0 < RingCapacity /\ RingCapacity < WordMod
<1>1. Released = accepted - Used
  BY DEF Released
<1>2. /\ ringWrite \in 0..(WordMod - 1) /\ ringRead \in 0..(WordMod - 1)
      /\ captured \in Nat /\ dropped \in Nat /\ dropped <= captured
      /\ accepted \in Nat /\ Used \in 0..(WordMod - 1)
      /\ Used + Pending <= RingCapacity /\ Pending \in Nat /\ Released \in Nat
  BY Types
<1>3. /\ RingCapacity \in Nat \ {0} /\ WordMod \in Nat \ {0}
      /\ RingCapacity < WordMod
  BY Sizes
<1> QED
  BY <1>1, <1>2, <1>3

-----------------------------------------------------------------------------
(* What is known of the files.                                              *)
FilesInStep ==
    FileInStep /\ FilesBehind /\ FilesAreGapless /\ BlocksAreFull
    /\ FramesInOrder

(* The files stay in step as long as nobody writes to them.                 *)
LEMMA FilesKept ==
    ASSUME IInv, UNCHANGED fileVars, Done' = Done,
           wpc = "exited" => wpc' = "exited"
    PROVE  FilesInStep'
<1>1. UNCHANGED <<fileOpen, files, framesInBlock, blocksWritten, framesWritten,
                  lost>>
  BY DEF fileVars
<1>2. FileInStep'
  BY <1>1 DEF IInv, FileInStep
<1>3. FilesBehind'
  BY <1>1 DEF IInv, FilesBehind
<1>4. FilesAreGapless' /\ BlocksAreFull' /\ FramesInOrder'
  BY <1>1 DEF IInv, FilesAreGapless, BlocksAreFull, FramesInOrder
<1> QED
  BY <1>2, <1>3, <1>4 DEF FilesInStep

(* The cursors' distance, when neither moves.                               *)
LEMMA UsedKept ==
    ASSUME UNCHANGED <<ringWrite, ringRead>>
    PROVE  Used' = Used
BY DEF Used

(* The distance when push() has moved its cursor: the word is larger than   *)
(* the ring, so its wrap does not show.                                     *)
LEMMA UsedAfterPush ==
    ASSUME IInv, NEW b \in Nat, Used + b <= RingCapacity,
           ringWrite' = (ringWrite + b) % WordMod, ringRead' = ringRead
    PROVE  Used' = Used + b
<1> DEFINE a == ringWrite - ringRead
<1>1. /\ ringWrite \in Int /\ ringRead \in Int /\ a \in Int
      /\ ringWrite + b \in Int /\ -ringRead \in Int
  <2>1. ringWrite \in Int /\ ringRead \in Int
    BY Numbers
  <2> QED
    BY <2>1
<1>2. (((ringWrite + b) % WordMod) + (-ringRead)) % WordMod
          = ((ringWrite + b) + (-ringRead)) % WordMod
  BY <1>1, Sizes, ModPlusMod
<1>3. (ringWrite + b) % WordMod \in Int
  BY <1>1, Sizes, DivMod
<1>4. Used' = (a + b) % WordMod
  <2>1. Used' = (((ringWrite + b) % WordMod) - ringRead) % WordMod
    BY DEF Used
  <2>2. /\ ((ringWrite + b) % WordMod) - ringRead
               = ((ringWrite + b) % WordMod) + (-ringRead)
        /\ (ringWrite + b) + (-ringRead) = a + b
    BY <1>1, <1>3
  <2> QED
    BY <1>2, <2>1, <2>2
<1>5. (a % WordMod) + b < WordMod
  <2>1. Used + b < WordMod
    BY Numbers
  <2> QED
    BY <2>1 DEF Used
<1> HIDE DEF a
<1>6. (a + b) % WordMod = (a % WordMod) + b
  BY <1>1, <1>5, Sizes, ModPlusSmall
<1> QED
  BY <1>4, <1>6 DEF a, Used

(* The distance when the writer has given bytes back.                       *)
LEMMA UsedAfterRelease ==
    ASSUME IInv, NEW b \in Nat, b <= Used,
           ringRead' = (ringRead + b) % WordMod, ringWrite' = ringWrite
    PROVE  Used' = Used - b
<1> DEFINE a == ringWrite - ringRead
<1>1. /\ ringWrite \in Int /\ ringRead \in Int /\ a \in Int
      /\ ringRead + b \in Int
  BY Numbers
<1>2. (ringWrite - ((ringRead + b) % WordMod)) % WordMod
          = (ringWrite - (ringRead + b)) % WordMod
  BY <1>1, Sizes, ModMinusMod
<1>3. Used' = (a - b) % WordMod
  <2>1. ringWrite - (ringRead + b) = a - b
    BY <1>1
  <2>2. Used' = (ringWrite - ((ringRead + b) % WordMod)) % WordMod
    BY DEF Used
  <2> QED
    BY <1>2, <2>1, <2>2
<1>4. b <= a % WordMod
  BY DEF Used
<1> HIDE DEF a
<1>5. (a - b) % WordMod = (a % WordMod) - b
  BY <1>1, <1>4, Sizes, ModMinusSmall
<1> QED
  BY <1>3, <1>5 DEF a, Used

(* The distance, in the ring, of a byte from where push() writes next.      *)
LEMMA RingDistance ==
    ASSUME IInv, NEW x \in Int
    PROVE  ((x % RingCapacity) - ringWrite) % RingCapacity
               = (x - accepted) % RingCapacity
<1> DEFINE C == RingCapacity
           j == x % C
<1>1. C \in Nat \ {0} /\ accepted \in Int /\ ringWrite \in Int
  BY Sizes, Numbers
<1>2. /\ j \in Int /\ ringWrite % C \in Int /\ accepted % C \in Int
      /\ -accepted \in Int
  BY <1>1, DivMod
<1>3. ringWrite % C = accepted % C
  <2>1. ringWrite = accepted % WordMod
    BY DEF IInv, Cursors
  <2>2. WordMod \in Nat \ {0} /\ WordMod % C = 0
    BY Sizes
  <2> HIDE DEF C
  <2>3. (accepted % WordMod) % C = accepted % C
    BY <1>1, <2>2, ModMod
  <2> QED
    BY <2>1, <2>3
<1> HIDE DEF C, j
<1>4. (j - (ringWrite % C)) % C = (j - ringWrite) % C
  BY <1>1, <1>2, ModMinusMod
<1>5. (j - (accepted % C)) % C = (j - accepted) % C
  BY <1>1, <1>2, ModMinusMod
<1>6. ((x % C) + (-accepted)) % C = (x + (-accepted)) % C
  BY <1>1, <1>2, ModPlusMod
<1>7. j - accepted = j + (-accepted) /\ x - accepted = x + (-accepted)
  BY <1>1, <1>2
<1> QED
  BY <1>3, <1>4, <1>5, <1>6, <1>7 DEF j, C

-----------------------------------------------------------------------------
(* A period that does not fit is only counted.                              *)
LEMMA DropStep ==
    ASSUME IInv, NEW n \in Periods, PushDrop(n),
           UNCHANGED <<writerRunning, chunk, writeBuffer, fileVars, spc>>
    PROVE  IInv'
<1>1. /\ cpc = "idle" /\ captured + n <= MaxFrames
      /\ captured' = captured + n /\ dropped' = dropped + n
      /\ UNCHANGED <<ring, ringWrite, ringRead, accepted, cpc, period, wpc,
                     writerRunning, chunk, writeBuffer, fileOpen, files,
                     framesInBlock, blocksWritten, framesWritten, lost, spc>>
  BY DEF PushDrop, fileVars
<1>2. /\ Used' = Used /\ Pending' = Pending /\ Released' = Released
      /\ Done' = Done
  BY <1>1, UsedKept DEF Pending, Released, Done
<1>3. TypeOK'
  <2>1. n \in Nat
    BY Sizes
  <2>2. captured' \in 0..MaxFrames /\ dropped' \in 0..captured'
    BY <1>1, <2>1, Numbers, RecorderAssumption
  <2> QED
    BY <1>1, <2>2 DEF IInv, TypeOK
<1>4. PeriodsWhole'
  <2>1. captured' - dropped' = captured - dropped
    BY <1>1, Numbers, Sizes
  <2> QED
    BY <1>1, <1>2, <2>1 DEF IInv, PeriodsWhole
<1>5. FilesInStep'
  BY <1>1, <1>2, FilesKept
<1>6. Cursors' /\ RingHolds' /\ BufferHolds' /\ DrainInStep' /\ StopInStep'
  BY <1>1, <1>2
     DEF IInv, Cursors, RingHolds, BufferHolds, DrainInStep, StopInStep
<1> QED
  BY <1>3, <1>4, <1>5, <1>6 DEF IInv, FilesInStep

(* A period that fits is copied behind the bytes in the ring: the slots it  *)
(* takes are those of bytes given back.                                     *)
LEMMA CopyStep ==
    ASSUME IInv, NEW n \in Periods, PushCopy(n),
           UNCHANGED <<writerRunning, chunk, writeBuffer, fileVars, spc>>
    PROVE  IInv'
<1> DEFINE C == RingCapacity
           nb == n * BytesPerFrame
<1>1. /\ cpc = "idle" /\ captured + n <= MaxFrames
      /\ nb <= C - Used
      /\ captured' = captured + n /\ period' = n /\ cpc' = "store"
      /\ UNCHANGED <<ringWrite, ringRead, accepted, dropped, wpc,
                     writerRunning, chunk, writeBuffer, fileOpen, files,
                     framesInBlock, blocksWritten, framesWritten, lost, spc>>
  BY DEF PushCopy, fileVars
<1>2. ring' = [j \in 0..(C - 1) |->
                  LET i == (j - ringWrite) % C
                  IN IF i < nb THEN accepted + i ELSE ring[j]]
  BY DEF PushCopy
<1>3. /\ Used' = Used /\ Pending' = nb /\ Pending = 0
      /\ Released' = Released /\ Done' = Done
  BY <1>1, UsedKept DEF Pending, Released, Done
<1>4. n \in Nat /\ nb \in Nat
  BY Sizes
<1> HIDE DEF nb, C
<1>5. C \in Nat \ {0} /\ C = RingCapacity
  BY Sizes DEF C
<1>6. \A j \in 0..(C - 1) : (j - ringWrite) % C \in 0..(C - 1)
  <2> TAKE j \in 0..(C - 1)
  <2>1. j - ringWrite \in Int
    <3>1. ringWrite \in Int
      BY Numbers
    <3> QED
      BY <1>5, <3>1
  <2> QED
    BY <1>5, <2>1, DivMod
<1>7. TypeOK'
  <2>1. ring' \in [0..(C - 1) -> Int]
    <3>1. accepted \in Int /\ \A j \in 0..(C - 1) : ring[j] \in Int
      BY <1>5, Types, Numbers
    <3>2. \A j \in 0..(C - 1) : accepted + ((j - ringWrite) % C) \in Int
      BY <1>5, <1>6, <3>1
    <3> QED
      BY <1>2, <3>1, <3>2
  <2>2. captured' \in 0..MaxFrames /\ dropped' \in 0..captured'
    BY <1>1, <1>4, Numbers, RecorderAssumption
  <2> QED
    BY <1>1, <1>5, <2>1, <2>2 DEF IInv, TypeOK
<1>8. Cursors' /\ BufferHolds' /\ DrainInStep' /\ StopInStep'
  BY <1>1, <1>3 DEF IInv, Cursors, BufferHolds, DrainInStep, StopInStep
<1>9. RingHolds'
  <2>1. Used + nb <= C /\ Used \in Nat /\ accepted \in Nat
        /\ Released = accepted - Used
    BY <1>1, <1>4, <1>5, Numbers
  <2>2. ASSUME NEW x \in Released..(accepted + nb - 1)
        PROVE  ring'[x % C] = x
    <3> DEFINE j == x % C
               i == (j - ringWrite) % C
    <3>1. x \in Int /\ j \in 0..(C - 1)
      BY <1>4, <1>5, <2>1, DivMod
    <3>2. i = (x - accepted) % C
      BY <1>5, <3>1, RingDistance
    <3>3. ring'[j] = IF i < nb THEN accepted + i ELSE ring[j]
      BY <1>2, <3>1
    <3> HIDE DEF i
    <3>4. CASE x >= accepted
      <4>1. x - accepted \in 0..(C - 1) /\ x - accepted < nb
        BY <1>4, <1>5, <2>1, <2>2, <3>1, <3>4
      <4>2. x - accepted = C * 0 + (x - accepted)
        BY <1>5, <2>1, <3>1
      <4>3. (x - accepted) % C = x - accepted
        BY <1>5, <2>1, <3>1, <4>1, <4>2, ModUnique
      <4> QED
        BY <2>1, <3>1, <3>2, <3>3, <4>1, <4>3
    <3>5. CASE x < accepted
      <4>1. /\ x - accepted + C \in 0..(C - 1)
            /\ ~(x - accepted + C < nb)
        BY <1>4, <1>5, <2>1, <2>2, <3>1, <3>5
      <4>2. x - accepted = C * (-1) + (x - accepted + C)
        BY <1>5, <2>1, <3>1
      <4>3. (x - accepted) % C = x - accepted + C
        BY <1>5, <2>1, <3>1, <4>1, <4>2, ModUnique
      <4>4. ring[j] = x
        <5>1. x \in Released..(accepted + Pending - 1)
          BY <1>3, <2>1, <2>2, <3>1, <3>5
        <5> QED
          BY <1>5, <5>1 DEF IInv, RingHolds
      <4> QED
        BY <3>2, <3>3, <4>1, <4>3, <4>4
    <3> QED
      BY <2>1, <3>1, <3>4, <3>5
  <2> QED
    BY <1>1, <1>3, <1>5, <2>1, <2>2 DEF RingHolds
<1>10. PeriodsWhole'
  <2>1. captured' - dropped' = (captured - dropped) + n
    BY <1>1, <1>4, Numbers
  <2>2. ((captured - dropped) + n) * BytesPerFrame
            = (captured - dropped) * BytesPerFrame + nb
    <3>1. captured - dropped \in Int /\ n \in Int
      BY <1>4, Numbers
    <3> QED
      BY <3>1, FrameBytes DEF nb
  <2>3. accepted + 0 = (captured - dropped) * BytesPerFrame
    BY <1>3 DEF IInv, PeriodsWhole
  <2>4. accepted = (captured - dropped) * BytesPerFrame
    BY <2>3, Numbers
  <2>5. accepted' + Pending' = accepted + nb
    BY <1>1, <1>3
  <2> QED
    BY <2>1, <2>2, <2>4, <2>5 DEF PeriodsWhole
<1>11. FilesInStep'
  BY <1>1, <1>3, FilesKept DEF fileVars
<1> QED
  BY <1>7, <1>8, <1>9, <1>10, <1>11 DEF IInv, FilesInStep

(* The period becomes visible: what was pending is in the ring.             *)
LEMMA StoreStep ==
    ASSUME IInv, PushStore,
           UNCHANGED <<writerRunning, chunk, writeBuffer, fileVars, spc>>
    PROVE  IInv'
<1> DEFINE nb == period * BytesPerFrame
<1>1. /\ cpc = "store" /\ cpc' = "notify"
      /\ ringWrite' = (ringWrite + nb) % WordMod
      /\ accepted' = accepted + nb
      /\ UNCHANGED <<ring, ringRead, captured, dropped, period, wpc,
                     writerRunning, chunk, writeBuffer, fileOpen, files,
                     framesInBlock, blocksWritten, framesWritten, lost, spc>>
  BY DEF PushStore, fileVars
<1>2. nb \in Nat /\ Pending = nb /\ Pending' = 0
  BY <1>1, Types, FrameBytes DEF Pending
<1> HIDE DEF nb
<1>3. Used' = Used + nb
  BY <1>1, <1>2, Numbers, UsedAfterPush
<1>4. Released' = Released /\ Done' = Done
  <2>1. accepted' - Used' = accepted - Used
    BY <1>1, <1>2, <1>3, Numbers
  <2>2. Released' = Released
    BY <2>1 DEF Released
  <2> QED
    BY <1>1, <2>2 DEF Done
<1>5. TypeOK'
  <2>1. ringWrite' \in 0..(WordMod - 1)
    <3>1. ringWrite + nb \in Int /\ WordMod \in Nat \ {0}
      BY <1>2, Numbers, Sizes
    <3>2. (ringWrite + nb) % WordMod \in 0..(WordMod - 1)
      BY <3>1, DivMod
    <3> QED
      BY <1>1, <3>2
  <2>2. accepted' \in Nat
    <3>1. accepted \in Nat
      BY Types
    <3> QED
      BY <1>1, <1>2, <3>1
  <2> QED
    BY <1>1, <2>1, <2>2 DEF IInv, TypeOK
<1>6. Cursors'
  <2>1. (ringWrite + nb) % WordMod = (accepted + nb) % WordMod
    BY <1>2, Numbers, Sizes, ModPlusMod DEF IInv, Cursors
  <2> QED
    BY <1>1, <1>4, <2>1 DEF IInv, Cursors
<1>7. RingHolds'
  <2>1. Used' + Pending' <= RingCapacity
    BY <1>2, <1>3, Numbers
  <2>2. (accepted' + Pending') - 1 = (accepted + Pending) - 1
    BY <1>1, <1>2, Numbers
  <2>3. \A x \in Released..(accepted + Pending - 1) : ring[x % RingCapacity] = x
    BY DEF IInv, RingHolds
  <2>4. /\ accepted' + Pending' - 1 = accepted + Pending - 1
        /\ ring' = ring
    BY <1>1, <1>2, Numbers
  <2> QED
    BY <1>4, <2>1, <2>3, <2>4 DEF RingHolds
<1>8. BufferHolds'
  BY <1>1, <1>4 DEF IInv, BufferHolds
<1>9. DrainInStep'
  <2>1. chunk \in 1..Used => chunk \in 1..Used'
    BY <1>2, <1>3, Numbers
  <2> QED
    BY <1>1, <2>1 DEF IInv, DrainInStep
<1>10. PeriodsWhole'
  <2>1. accepted' + Pending' = accepted + Pending
    BY <1>1, <1>2, Numbers
  <2> QED
    BY <1>1, <2>1 DEF IInv, PeriodsWhole
<1>11. StopInStep'
  BY <1>1 DEF IInv, StopInStep
<1>12. FilesInStep'
  BY <1>1, <1>4, FilesKept DEF fileVars
<1> QED
  BY <1>5, <1>6, <1>7, <1>8, <1>9, <1>10, <1>11, <1>12 DEF IInv, FilesInStep

(* The steps that move neither bytes nor frames: the threads wait for one   *)
(* another, or pass from one part of their loop to the next.                *)
LEMMA WaitStep ==
    ASSUME IInv,
           UNCHANGED <<captureVars, ringRead, chunk, writeBuffer, fileVars>>,
           cpc = "store" <=> cpc' = "store",
           TypeOK', DrainInStep', StopInStep',
           wpc = "exited" => wpc' = "exited"
    PROVE  IInv'
<1>1. UNCHANGED <<ring, ringWrite, captured, accepted, dropped, period,
                  ringRead, chunk, writeBuffer, fileOpen, files,
                  framesInBlock, blocksWritten, framesWritten, lost>>
  BY DEF captureVars, fileVars
<1>2. /\ Used' = Used /\ Pending' = Pending /\ Released' = Released
      /\ Done' = Done
  BY <1>1, UsedKept DEF Pending, Released, Done
<1>3. FilesInStep'
  BY <1>2, FilesKept
<1>4. Cursors' /\ RingHolds' /\ BufferHolds' /\ PeriodsWhole'
  BY <1>1, <1>2 DEF IInv, Cursors, RingHolds, BufferHolds, PeriodsWhole
<1> QED
  BY <1>3, <1>4 DEF IInv, FilesInStep

(* push() notifies.                                                         *)
LEMMA NotifyStep ==
    ASSUME IInv, PushNotify,
           UNCHANGED <<writerRunning, chunk, writeBuffer, fileVars, spc>>
    PROVE  IInv'
<1>1. /\ cpc = "notify" /\ cpc' = "idle"
      /\ wpc' = IF wpc = "asleep" THEN "check" ELSE wpc
      /\ UNCHANGED <<captureVars, ringRead, writerRunning, chunk, writeBuffer,
                     fileVars, spc>>
  BY DEF PushNotify, NotifyOne
<1>2. UNCHANGED <<ring, ringWrite, captured, accepted, dropped, period,
                  ringRead, writerRunning, chunk, writeBuffer, fileOpen,
                  files, framesInBlock, blocksWritten, framesWritten, lost,
                  spc>> /\ Used' = Used
  BY <1>1, UsedKept DEF captureVars, fileVars
<1>3. TypeOK'
  BY <1>1, <1>2 DEF IInv, TypeOK
<1>4. DrainInStep'
  BY <1>1, <1>2 DEF IInv, DrainInStep
<1>5. StopInStep'
  BY <1>1, <1>2 DEF IInv, StopInStep
<1> QED
  BY <1>1, <1>3, <1>4, <1>5, WaitStep

(* The writer looks at its predicate, sleeps, wakes, or finds the ring or   *)
(* the write buffer emptied.                                                *)
LEMMA WriterWaitStep ==
    ASSUME IInv, UNCHANGED <<captureVars, cpc, writerRunning, spc>>,
           WaitCheck \/ FallAsleep \/ SpuriousWake \/ FramesDone \/ RingEmpty
    PROVE  IInv'
<1>1. /\ UNCHANGED <<captureVars, cpc, writerRunning, spc, ringRead, chunk,
                     writeBuffer, fileVars>>
      /\ wpc \in {"check", "toSleep", "asleep", "drain", "frames"}
      /\ wpc' \in {"check", "toSleep", "asleep", "drain", "drained"}
      /\ wpc = "frames" => Len(writeBuffer) < BytesPerFrame
  BY DEF WaitCheck, FallAsleep, SpuriousWake, FramesDone, RingEmpty
<1>2. UNCHANGED <<ring, ringWrite, captured, accepted, dropped, period,
                  ringRead, chunk, writeBuffer, fileOpen,
                  files, framesInBlock, blocksWritten, framesWritten, lost>>
      /\ Used' = Used
  BY <1>1, UsedKept DEF captureVars, fileVars
<1>3. TypeOK'
  BY <1>1, <1>2 DEF IInv, TypeOK
<1>4. DrainInStep'
  BY <1>1, <1>2 DEF IInv, DrainInStep
<1>5. StopInStep'
  BY <1>1, <1>2 DEF IInv, StopInStep
<1> QED
  BY <1>1, <1>3, <1>4, <1>5, WaitStep

(* The main thread's steps.                                                 *)
LEMMA StopStep ==
    ASSUME IInv, Stop
    PROVE  IInv'
<1>1. /\ UNCHANGED <<captureVars, ringRead, chunk, writeBuffer, fileVars>>
      /\ cpc = "store" <=> cpc' = "store"
      /\ wpc' = wpc \/ (wpc = "asleep" /\ wpc' = "check")
  BY DEF Stop, StopRest, StopFlag, StopNotify, StopJoin, NotifyOne
<1>2. UNCHANGED <<ring, ringWrite, captured, accepted, dropped, period,
                  ringRead, chunk, writeBuffer, fileOpen,
                  files, framesInBlock, blocksWritten, framesWritten, lost>>
      /\ Used' = Used
  BY <1>1, UsedKept DEF captureVars, fileVars
<1>3. \/ spc = "running" /\ spc' = "notify" /\ ~writerRunning'
         /\ cpc' = "joined" /\ wpc' = wpc
      \/ spc = "notify" /\ spc' = "join" /\ UNCHANGED <<cpc, writerRunning>>
      \/ spc = "join" /\ spc' = "stopped" /\ wpc = "exited"
         /\ UNCHANGED <<cpc, writerRunning, wpc>>
  BY DEF Stop, StopFlag, StopNotify, StopJoin
<1>4. TypeOK'
  BY <1>1, <1>2 DEF IInv, TypeOK, Stop, StopFlag, StopNotify, StopJoin
<1>5. DrainInStep'
  BY <1>1, <1>2 DEF IInv, DrainInStep
<1>6. StopInStep'
  BY <1>1, <1>2, <1>3 DEF IInv, StopInStep
<1> QED
  BY <1>1, <1>4, <1>5, <1>6, WaitStep

-----------------------------------------------------------------------------
(* The byte the writer copies from slot (ringRead + d) % RingCapacity is    *)
(* the one that follows those given back by d.                              *)
LEMMA RingRead ==
    ASSUME IInv, NEW d \in Nat, d < Used
    PROVE  ring[(ringRead + d) % RingCapacity] = Released + d
<1> DEFINE C == RingCapacity
           x == Released + d
<1>1. C \in Nat \ {0} /\ WordMod \in Nat \ {0} /\ WordMod % C = 0
  BY Sizes
<1>2. Released \in Int /\ ringRead \in Int /\ ringRead = Released % WordMod
  BY Numbers DEF IInv, Cursors
<1> HIDE DEF C
<1>3. ringRead % C = Released % C
  BY <1>1, <1>2, ModMod
<1>4. (ringRead + d) % C = x % C
  <2>1. /\ C \in Nat \ {0} /\ ringRead \in Int /\ Released \in Int
        /\ d \in Int
    BY <1>1, <1>2
  <2>2. (ringRead + d) % C = (Released + d) % C
    BY <1>3, <2>1, SameModPlus
  <2> QED
    BY <2>2
<1>5. x \in Released..(accepted + Pending - 1)
  BY Numbers
<1> HIDE DEF x
<1>6. ring[x % C] = x
  BY <1>5 DEF IInv, RingHolds, C
<1> QED
  BY <1>4, <1>6 DEF C, x

(* One sequence behind another.                                             *)
LEMMA Concatenation ==
    ASSUME NEW S, NEW s \in Seq(S), NEW t \in Seq(S)
    PROVE  /\ s \o t \in Seq(S) /\ Len(s \o t) = Len(s) + Len(t)
           /\ \A i \in 1..Len(s) : (s \o t)[i] = s[i]
           /\ \A i \in (Len(s) + 1)..(Len(s) + Len(t)) :
                  (s \o t)[i] = t[i - Len(s)]
OBVIOUS

(* The writer copies a chunk from the ring behind what its buffer holds.    *)
LEMMA DrainCopyStep ==
    ASSUME IInv, UNCHANGED <<captureVars, cpc, writerRunning, spc>>, DrainCopy
    PROVE  IInv'
<1> DEFINE held == Len(writeBuffer)
           copy == [i \in 1..chunk' |->
                      ring[(ringRead + i - 1) % RingCapacity]]
<1>1. /\ wpc = "drain" /\ wpc' = "release" /\ Used > 0
      /\ chunk' = Lesser(Used, BufferSize - held)
      /\ writeBuffer' = writeBuffer \o copy
  BY DEF DrainCopy
<1>2. UNCHANGED <<ring, ringWrite, captured, accepted, dropped, period,
                  ringRead, cpc, writerRunning, fileOpen, files,
                  framesInBlock, blocksWritten, framesWritten, lost, spc>>
  BY DEF DrainCopy, captureVars, fileVars
<1>3. chunk = 0 /\ held \in Nat /\ held < BytesPerFrame
  BY <1>1, Types DEF IInv, DrainInStep
<1>4. PICK k \in 1..Used : chunk' = k /\ k + held <= BufferSize
  <2>1. /\ Used \in Int /\ BufferSize \in Nat /\ BytesPerFrame \in Nat
        /\ BytesPerFrame < BufferSize
    BY Numbers, Sizes
  <2> HIDE DEF held
  <2>2. /\ Lesser(Used, BufferSize - held) \in 1..Used
        /\ Lesser(Used, BufferSize - held) + held <= BufferSize
    BY <1>1, <1>3, <2>1 DEF Lesser
  <2> QED
    BY <1>1, <2>2
<1>5. k \in Nat /\ k \in Int /\ held \in Int /\ 0 <= held /\ 1 <= k
  BY <1>3
<1>6. /\ copy \in Seq(Int) /\ Len(copy) = k
      /\ \A i \in 1..k : copy[i] = Released + (i - 1)
  <2>1. ASSUME NEW i \in 1..k
        PROVE  copy[i] = Released + (i - 1)
    <3>1. i - 1 \in Nat /\ i - 1 < Used
      BY <1>5, Numbers
    <3>2. copy[i] = ring[(ringRead + (i - 1)) % RingCapacity]
      BY <1>4
    <3> QED
      BY <3>1, <3>2, RingRead
  <2>2. ASSUME NEW i \in 1..k
        PROVE  copy[i] \in Int
    <3>1. Released + (i - 1) \in Int
      BY <1>5, Numbers
    <3> QED
      BY <2>1, <3>1
  <2>3. copy = [i \in 1..k |-> copy[i]]
    BY <1>4
  <2> HIDE DEF copy
  <2> QED
    BY <1>5, <2>1, <2>2, <2>3
<1> HIDE DEF copy
<1>7. writeBuffer \in Seq(Int) /\ Len(writeBuffer) = held
  BY Types
<1>8. /\ writeBuffer' \in Seq(Int) /\ Len(writeBuffer') = held + k
      /\ \A i \in 1..held : writeBuffer'[i] = writeBuffer[i]
      /\ \A i \in (held + 1)..(held + k) : writeBuffer'[i] = copy[i - held]
  <2> HIDE DEF held
  <2>1. /\ writeBuffer' = writeBuffer \o copy /\ Len(copy) = k
        /\ copy \in Seq(Int) /\ writeBuffer \in Seq(Int)
        /\ Len(writeBuffer) = held
    BY <1>1, <1>6, <1>7
  <2>2. /\ writeBuffer \o copy \in Seq(Int)
        /\ Len(writeBuffer \o copy) = Len(writeBuffer) + Len(copy)
        /\ \A i \in 1..Len(writeBuffer) :
               (writeBuffer \o copy)[i] = writeBuffer[i]
        /\ \A i \in (Len(writeBuffer) + 1)..(Len(writeBuffer) + Len(copy)) :
               (writeBuffer \o copy)[i] = copy[i - Len(writeBuffer)]
    BY <2>1, Concatenation
  <2> QED
    BY <2>1, <2>2
<1> HIDE DEF held
<1>9. /\ Used' = Used /\ Pending' = Pending /\ Released' = Released
  BY <1>2, UsedKept DEF Pending, Released
<1>10. Done' = Done /\ Done = Released - held
  <2>1. Done' = Released + (k - (held + k))
    BY <1>4, <1>8, <1>9 DEF Done
  <2>2. Done = Released + (0 - held)
    BY <1>3, <1>7 DEF Done
  <2> QED
    BY <1>5, <2>1, <2>2, Numbers
<1>11. TypeOK'
  <2>1. k \in 0..BufferSize
    BY <1>4, <1>5, Sizes
  <2>2. chunk' \in 0..BufferSize /\ Len(writeBuffer') <= BufferSize
    BY <1>4, <1>5, <1>8, <2>1
  <2> QED
    BY <1>1, <1>2, <1>8, <2>2 DEF IInv, TypeOK
<1>12. BufferHolds'
  <2>1. ASSUME NEW i \in 1..(held + k)
        PROVE  writeBuffer'[i] = Done + i - 1
    <3>1. CASE i <= held
      <4>1. i \in 1..held
        BY <1>5, <3>1
      <4> QED
        BY <1>7, <1>8, <4>1 DEF IInv, BufferHolds
    <3>2. CASE i > held
      <4>1. i - held \in 1..k /\ i \in (held + 1)..(held + k)
        BY <1>5, <3>2
      <4>2. writeBuffer'[i] = Released + ((i - held) - 1)
        BY <1>6, <1>8, <4>1
      <4>3. Released + ((i - held) - 1) = (Released - held) + (i - 1)
        BY <1>5, Numbers
      <4> QED
        BY <1>10, <4>2, <4>3
    <3> QED
      BY <1>5, <3>1, <3>2
  <2>2. Done' = framesWritten' * BytesPerFrame + lost'
    BY <1>2, <1>10 DEF IInv, BufferHolds
  <2> QED
    BY <1>8, <1>10, <2>1, <2>2 DEF BufferHolds
<1>13. DrainInStep'
  <2>1. k <= held + k
    BY <1>5
  <2> QED
    BY <1>1, <1>4, <1>8, <1>9, <2>1 DEF DrainInStep
<1>14. FilesInStep'
  BY <1>1, <1>2, <1>10, FilesKept DEF fileVars
<1>15. Cursors' /\ RingHolds' /\ PeriodsWhole' /\ StopInStep'
  BY <1>1, <1>2, <1>9
     DEF IInv, Cursors, RingHolds, PeriodsWhole, StopInStep
<1> QED
  BY <1>11, <1>12, <1>13, <1>14, <1>15 DEF IInv, FilesInStep

(* The chunk is given back to push().                                       *)
LEMMA DrainReleaseStep ==
    ASSUME IInv, UNCHANGED <<captureVars, cpc, writerRunning, spc>>,
           DrainRelease
    PROVE  IInv'
<1>1. /\ wpc = "release" /\ wpc' = "frames" /\ chunk' = 0
      /\ ringRead' = (ringRead + chunk) % WordMod
      /\ UNCHANGED <<ring, ringWrite, captured, accepted, dropped, period,
                     cpc, writerRunning, writeBuffer, fileOpen, files,
                     framesInBlock, blocksWritten, framesWritten, lost, spc>>
  BY DEF DrainRelease, captureVars, fileVars
<1>2. chunk \in Nat /\ chunk <= Used
  BY <1>1, Types, Numbers DEF IInv, DrainInStep
<1>3. Used' = Used - chunk
  BY <1>1, <1>2, UsedAfterRelease
<1>4. Released' = Released + chunk
  BY <1>1, <1>2, <1>3, Numbers DEF Released
<1>5. Done' = Done /\ Pending' = Pending
  <2>1. Done' = Done
    <3>1. Len(writeBuffer) \in Nat
      BY Types
    <3>2. Done' = (Released + chunk) + (0 - Len(writeBuffer))
      BY <1>1, <1>4 DEF Done
    <3> QED
      BY <1>2, <3>1, <3>2, Numbers DEF Done
  <2> QED
    BY <1>1, <2>1 DEF Pending
<1>6. TypeOK'
  <2>1. ringRead' \in 0..(WordMod - 1)
    <3>1. ringRead + chunk \in Int /\ WordMod \in Nat \ {0}
      BY <1>2, Numbers, Sizes
    <3>2. (ringRead + chunk) % WordMod \in 0..(WordMod - 1)
      BY <3>1, DivMod
    <3> QED
      BY <1>1, <3>2
  <2> QED
    BY <1>1, <2>1, Sizes DEF IInv, TypeOK
<1>7. Cursors'
  <2>1. ringRead = Released % WordMod /\ ringWrite = accepted % WordMod
    BY DEF IInv, Cursors
  <2>2. Released \in Int /\ chunk \in Int /\ WordMod \in Nat \ {0}
    BY <1>2, Numbers, Sizes
  <2>3. ((Released % WordMod) + chunk) % WordMod = (Released + chunk) % WordMod
    BY <2>2, ModPlusMod
  <2>4. Released + chunk \in Nat
    BY <1>2, Numbers
  <2> QED
    BY <1>1, <1>4, <2>1, <2>3, <2>4 DEF Cursors
<1>8. RingHolds'
  <2>1. Used' + Pending' <= RingCapacity
    BY <1>2, <1>3, <1>5, Numbers
  <2>2. ASSUME NEW x \in Released'..(accepted + Pending - 1)
        PROVE  ring[x % RingCapacity] = x
    <3>1. x \in Released..(accepted + Pending - 1)
      BY <1>2, <1>4, Numbers
    <3> QED
      BY <3>1 DEF IInv, RingHolds
  <2> QED
    BY <1>1, <1>5, <2>1, <2>2 DEF RingHolds
<1>9. BufferHolds'
  BY <1>1, <1>5 DEF IInv, BufferHolds
<1>10. DrainInStep'
  BY <1>1 DEF DrainInStep
<1>11. FilesInStep'
  BY <1>1, <1>5, FilesKept DEF fileVars
<1>12. PeriodsWhole' /\ StopInStep'
  BY <1>1, <1>5 DEF IInv, PeriodsWhole, StopInStep
<1> QED
  BY <1>6, <1>7, <1>8, <1>9, <1>10, <1>11, <1>12 DEF IInv, FilesInStep

-----------------------------------------------------------------------------
(* What a file is.                                                          *)
LEMMA FrameNumbers ==
    ASSUME IInv
    PROVE  /\ Len(files) \in Nat /\ DOMAIN files = 1..Len(files)
           /\ \A i \in DOMAIN files :
                  /\ files[i] \in [name : Nat, frames : Seq(Int)]
                  /\ files[i].frames \in Seq(Int)
                  /\ Len(files[i].frames) \in Nat
                  /\ DOMAIN files[i].frames = 1..Len(files[i].frames)
                  /\ \A k \in DOMAIN files[i].frames :
                         files[i].frames[k] \in Int
<1>1. files \in Seq([name : Nat, frames : Seq(Int)])
  BY Types
<1>2. Len(files) \in Nat /\ DOMAIN files = 1..Len(files)
  BY <1>1
<1>3. ASSUME NEW i \in DOMAIN files
      PROVE  /\ files[i] \in [name : Nat, frames : Seq(Int)]
             /\ files[i].frames \in Seq(Int)
  <2> DEFINE File == [name : Nat, frames : Seq(Int)]
  <2>1. ASSUME NEW f \in File
        PROVE  f.frames \in Seq(Int)
    OBVIOUS
  <2>2. files[i] \in File
    <3>1. files \in Seq(File)
      BY <1>1
    <3> HIDE DEF File
    <3> QED
      BY <3>1
  <2> HIDE DEF File
  <2>3. files[i].frames \in Seq(Int)
    BY <2>1, <2>2
  <2> QED
    BY <2>2, <2>3 DEF File
<1>4. ASSUME NEW f \in Seq(Int)
      PROVE  /\ Len(f) \in Nat /\ DOMAIN f = 1..Len(f)
             /\ \A k \in DOMAIN f : f[k] \in Int
  OBVIOUS
<1> QED
  BY <1>2, <1>3, <1>4

(* No file can be opened: the write buffer goes, counted as lost.           *)
LEMMA OpenFailsStep ==
    ASSUME IInv, UNCHANGED <<captureVars, cpc, writerRunning, spc>>, OpenFails
    PROVE  IInv'
<1> DEFINE held == Len(writeBuffer)
<1>1. /\ wpc = "frames" /\ wpc' = "drained" /\ ~fileOpen
      /\ held >= BytesPerFrame
      /\ lost' = lost + held /\ writeBuffer' = << >>
      /\ UNCHANGED <<ring, ringWrite, captured, accepted, dropped, period,
                     cpc, writerRunning, ringRead, chunk, fileOpen, files,
                     framesInBlock, blocksWritten, framesWritten, spc>>
  BY DEF OpenFails, captureVars
<1>2. /\ chunk = 0 /\ held \in Int /\ 1 <= held /\ lost \in Nat
      /\ Done \in Int
  <2>1. held \in Nat /\ lost \in Nat /\ Done \in Nat
    BY Types
  <2> QED
    BY <1>1, <2>1, Sizes DEF IInv, DrainInStep
<1>3. /\ Used' = Used /\ Pending' = Pending /\ Released' = Released
  BY <1>1, UsedKept DEF Pending, Released
<1>4. Done' = Done + held
  <2>1. Done' = Released + (0 - 0)
    BY <1>1, <1>2, <1>3 DEF Done
  <2>2. Done = Released + (0 - held)
    BY <1>2 DEF Done
  <2> HIDE DEF held
  <2> QED
    BY <1>2, <2>1, <2>2, Numbers
<1> HIDE DEF held
<1>5. lost' \in Nat /\ lost' # 0
  <2>1. lost + held \in Nat /\ lost + held # 0
    BY <1>2
  <2> QED
    BY <1>1, <2>1
<1>6. TypeOK'
  <2>1. writeBuffer' \in Seq(Int) /\ Len(writeBuffer') <= BufferSize
    BY <1>1, Sizes
  <2> QED
    BY <1>1, <1>5, <2>1 DEF IInv, TypeOK
<1>7. BufferHolds'
  <2>1. Done = framesWritten * BytesPerFrame + lost
    BY DEF IInv, BufferHolds
  <2>2. framesWritten * BytesPerFrame \in Int
    BY Types, FrameBytes
  <2>3. Done + held = framesWritten * BytesPerFrame + (lost + held)
    BY <1>2, <2>1, <2>2
  <2>4. 1..Len(writeBuffer') = {}
    BY <1>1
  <2> QED
    BY <1>1, <1>4, <2>3, <2>4 DEF BufferHolds
<1>8. DrainInStep'
  <2>1. 0 < BytesPerFrame
    BY Sizes
  <2> QED
    BY <1>1, <1>2, <2>1 DEF DrainInStep
<1>9. FilesBehind'
  <2>1. ASSUME NEW i \in DOMAIN files, NEW k \in DOMAIN files[i].frames
        PROVE  files[i].frames[k] < Done + held
    <3>1. files[i].frames[k] < Done
      BY DEF IInv, FilesBehind
    <3>2. files[i].frames[k] \in Int
      BY FrameNumbers
    <3> QED
      BY <1>2, <3>1, <3>2
  <2> QED
    BY <1>1, <1>4, <2>1 DEF FilesBehind
<1>10. FileInStep' /\ FilesAreGapless' /\ BlocksAreFull' /\ FramesInOrder'
  BY <1>1, <1>5
     DEF IInv, FileInStep, FilesAreGapless, BlocksAreFull, FramesInOrder
<1>11. Cursors' /\ RingHolds' /\ PeriodsWhole' /\ StopInStep'
  BY <1>1, <1>3 DEF IInv, Cursors, RingHolds, PeriodsWhole, StopInStep
<1> QED
  BY <1>6, <1>7, <1>8, <1>9, <1>10, <1>11 DEF IInv

(* The writer leaves, having closed its file, or goes to wait.              *)
LEMMA LeaveStep ==
    ASSUME IInv, UNCHANGED <<captureVars, cpc, writerRunning, spc>>,
           LeaveOrWait
    PROVE  IInv'
<1>1. /\ wpc = "drained"
      /\ wpc' = IF ~writerRunning /\ Used = 0 THEN "exited" ELSE "check"
      /\ fileOpen' = (fileOpen /\ wpc' = "check")
      /\ UNCHANGED <<ring, ringWrite, captured, accepted, dropped, period,
                     cpc, writerRunning, ringRead, chunk, writeBuffer, files,
                     framesInBlock, blocksWritten, framesWritten, lost, spc>>
  BY DEF LeaveOrWait, captureVars
<1>2. /\ Used' = Used /\ Pending' = Pending /\ Released' = Released
      /\ Done' = Done
  BY <1>1, UsedKept DEF Pending, Released, Done
<1>3. \/ wpc' = "check" /\ fileOpen' = fileOpen
      \/ wpc' = "exited" /\ ~fileOpen' /\ ~writerRunning /\ Used = 0
  BY <1>1 DEF IInv, TypeOK
<1>4. TypeOK'
  BY <1>1, <1>3 DEF IInv, TypeOK
<1>5. FileInStep'
  BY <1>1, <1>3 DEF IInv, FileInStep
<1>6. FilesBehind' /\ FilesAreGapless' /\ BlocksAreFull' /\ FramesInOrder'
  BY <1>1, <1>2, <1>3
     DEF IInv, FilesBehind, FilesAreGapless, BlocksAreFull, FramesInOrder
<1>7. DrainInStep' /\ StopInStep'
  BY <1>1, <1>2, <1>3 DEF IInv, DrainInStep, StopInStep
<1>8. Cursors' /\ RingHolds' /\ BufferHolds' /\ PeriodsWhole'
  BY <1>1, <1>2 DEF IInv, Cursors, RingHolds, BufferHolds, PeriodsWhole
<1> QED
  BY <1>4, <1>5, <1>6, <1>7, <1>8 DEF IInv

(* A file is opened behind those there are, and has no frames yet.          *)
LEMMA OpenFileStep ==
    ASSUME IInv, UNCHANGED <<captureVars, cpc, writerRunning, spc>>, OpenFile
    PROVE  IInv'
<1> DEFINE n == Len(files)
           new == [name |-> Now, frames |-> << >>]
<1>1. /\ wpc = "frames" /\ ~fileOpen /\ fileOpen' = TRUE
      /\ files' = Append(files, new) /\ framesInBlock' = 0
      /\ UNCHANGED <<ring, ringWrite, captured, accepted, dropped, period,
                     cpc, writerRunning, ringRead, chunk, writeBuffer, wpc,
                     blocksWritten, framesWritten, lost, spc>>
  BY DEF OpenFile, captureVars
<1>2. /\ Used' = Used /\ Pending' = Pending /\ Released' = Released
      /\ Done' = Done
  BY <1>1, UsedKept DEF Pending, Released, Done
<1>3. new \in [name : Nat, frames : Seq(Int)] /\ new.frames = << >>
  <2>1. captured \in Nat /\ Rate \in Nat \ {0}
    BY Types, RecorderAssumption
  <2>2. Now \in Nat
    BY <2>1 DEF Now
  <2> QED
    BY <2>2
<1> HIDE DEF new
<1>4. files \in Seq([name : Nat, frames : Seq(Int)]) /\ n \in Nat
  BY Types
<1>5. /\ files' \in Seq([name : Nat, frames : Seq(Int)])
      /\ Len(files') = n + 1 /\ DOMAIN files' = 1..(n + 1)
      /\ files'[n + 1] = new
      /\ \A i \in 1..n : files'[i] = files[i]
      /\ DOMAIN files = 1..n
  BY <1>1, <1>3, <1>4
<1> HIDE DEF n
<1>6. \A i \in DOMAIN files' : \A k \in DOMAIN files'[i].frames :
          /\ i \in DOMAIN files /\ k \in DOMAIN files[i].frames
          /\ files'[i].frames = files[i].frames
  <2> SUFFICES ASSUME NEW i \in DOMAIN files',
                      NEW k \in DOMAIN files'[i].frames
               PROVE  i \in DOMAIN files /\ files'[i] = files[i]
    OBVIOUS
  <2>1. i # n + 1
    BY <1>3, <1>5
  <2>2. i \in 1..n
    BY <1>4, <1>5, <2>1
  <2> QED
    BY <1>5, <2>2
<1>7. TypeOK'
  <2>1. 0 \in 0..BlockFrames
    BY Sizes
  <2> QED
    BY <1>1, <1>5, <2>1 DEF IInv, TypeOK
<1>8. /\ blocksWritten = n
      /\ lost = 0 => /\ n >= 1 => Len(files[n].frames) = BlockFrames
                     /\ framesWritten = n * BlockFrames
  BY <1>1 DEF IInv, FileInStep, n
<1>9. /\ (n + 1) - 1 = n /\ n + 1 >= 1 /\ n * BlockFrames \in Int
      /\ n * BlockFrames + 0 = n * BlockFrames
  <2>1. n * BlockFrames \in Int
    BY <1>4, BlockSum
  <2> QED
    BY <1>4, <2>1
<1>10. files'[Len(files')].frames = << >> /\ Len(files') - 1 = n
  BY <1>3, <1>5, <1>9
<1>11. FileInStep'
  <2>1. 0 < BlockFrames
    BY Sizes
  <2> QED
    BY <1>1, <1>5, <1>8, <1>9, <1>10, <2>1 DEF FileInStep
<1>12. FilesBehind' /\ FramesInOrder'
  BY <1>2, <1>6 DEF IInv, FilesBehind, FramesInOrder
<1>13. FilesAreGapless'
  <2>1. files' # << >>
    BY <1>4, <1>5
  <2>2. lost' = 0 => framesWritten' = n * BlockFrames + 0
    BY <1>1, <1>8, <1>9
  <2> QED
    BY <1>1, <1>6, <1>10, <2>1, <2>2 DEF IInv, FilesAreGapless
<1>14. BlocksAreFull'
  <2>1. ASSUME lost = 0, NEW i \in 1..n
        PROVE  Len(files'[i].frames) = BlockFrames
    <3>1. CASE i = n
      BY <1>4, <1>5, <1>8, <2>1, <3>1
    <3>2. CASE i # n
      <4>1. i \in 1..(n - 1)
        BY <1>4, <3>2
      <4> QED
        BY <1>5, <2>1, <4>1 DEF IInv, BlocksAreFull, n
    <3> QED
      BY <3>1, <3>2
  <2> QED
    BY <1>1, <1>10, <2>1 DEF BlocksAreFull
<1>15. /\ Cursors' /\ RingHolds' /\ BufferHolds' /\ DrainInStep'
       /\ PeriodsWhole' /\ StopInStep'
  BY <1>1, <1>2 DEF IInv, Cursors, RingHolds, BufferHolds, DrainInStep,
                    PeriodsWhole, StopInStep
<1> QED
  BY <1>7, <1>11, <1>12, <1>13, <1>14, <1>15 DEF IInv

(* What is left of a sequence behind its first d elements.                  *)
LEMMA Suffix ==
    ASSUME NEW S, NEW s \in Seq(S), NEW d \in 0..Len(s)
    PROVE  /\ SubSeq(s, d + 1, Len(s)) \in Seq(S)
           /\ Len(SubSeq(s, d + 1, Len(s))) = Len(s) - d
           /\ \A i \in 1..(Len(s) - d) :
                  SubSeq(s, d + 1, Len(s))[i] = s[d + i]
OBVIOUS

(* A batch has at least a frame, and fits the block and the buffer.         *)
LEMMA Batch ==
    ASSUME IInv, Len(writeBuffer) >= BytesPerFrame, fileOpen
    PROVE  /\ WriteBatch \in Nat /\ 1 <= WriteBatch
           /\ framesInBlock \in Nat
           /\ framesInBlock + WriteBatch <= BlockFrames
           /\ WriteBatch * BytesPerFrame \in Nat
           /\ WriteBatch * BytesPerFrame <= Len(writeBuffer)
<1> DEFINE held == Len(writeBuffer)
           q == held \div BytesPerFrame
<1>1. held \in Nat /\ framesInBlock \in Nat
  BY Types
<1>2. BytesPerFrame \in Nat \ {0} /\ BlockFrames \in Nat
  BY Sizes
<1>3. framesInBlock < BlockFrames
  BY DEF IInv, FileInStep
<1>4. held >= BytesPerFrame
  OBVIOUS
<1> HIDE DEF held
<1>5. /\ q \in Int /\ held % BytesPerFrame \in 0..(BytesPerFrame - 1)
      /\ held = BytesPerFrame * q + (held % BytesPerFrame)
  <2>1. held \in Int /\ BytesPerFrame \in Nat \ {0}
    BY <1>1, <1>2
  <2>2. /\ held \div BytesPerFrame \in Int
        /\ held % BytesPerFrame \in 0..(BytesPerFrame - 1)
        /\ held = BytesPerFrame * (held \div BytesPerFrame)
                      + (held % BytesPerFrame)
    BY <2>1, DivMod
  <2> QED
    BY <2>2
<1> HIDE DEF q
<1>6. q >= 1 /\ q * BytesPerFrame <= held
  <2>1. /\ q <= -1 => BytesPerFrame * q <= -BytesPerFrame
        /\ BytesPerFrame * q \in Int
    BY <1>2, <1>5, MultipleGap
  <2>2. q = 0 => BytesPerFrame * q = 0
    BY <1>2
  <2>3. q * BytesPerFrame = BytesPerFrame * q
    BY <1>2, <1>5
  <2> QED
    BY <1>2, <1>4, <1>5, <2>1, <2>2, <2>3
<1>7. WriteBatch = Lesser(q, BlockFrames - framesInBlock)
  BY DEF WriteBatch, q, held
<1>8. /\ WriteBatch \in Nat /\ 1 <= WriteBatch /\ WriteBatch <= q
      /\ framesInBlock + WriteBatch <= BlockFrames
  BY <1>1, <1>2, <1>3, <1>5, <1>6, <1>7 DEF Lesser
<1>9. WriteBatch * BytesPerFrame <= q * BytesPerFrame
  <2>1. CASE WriteBatch = q
    BY <1>2, <1>5, <2>1
  <2>2. CASE WriteBatch < q
    <3>1. WriteBatch * BytesPerFrame + BytesPerFrame <= q * BytesPerFrame
      BY <1>5, <1>8, <2>2, FrameBytes
    <3>2. WriteBatch * BytesPerFrame \in Int /\ q * BytesPerFrame \in Int
      BY <1>5, <1>8, FrameBytes
    <3> QED
      BY <1>2, <3>1, <3>2
  <2> QED
    BY <1>5, <1>8, <2>1, <2>2
<1>10. WriteBatch * BytesPerFrame \in Nat
  BY <1>8, FrameBytes
<1>11. q * BytesPerFrame \in Int
  BY <1>5, FrameBytes
<1>12. WriteBatch * BytesPerFrame <= held
  BY <1>1, <1>6, <1>9, <1>10, <1>11
<1> QED
  BY <1>1, <1>8, <1>10, <1>12 DEF held

(* A batch goes into the open file, all of it or a prefix if the disk       *)
(* fails, and the file is closed at the end of its block.                   *)
LEMMA WriteFramesStep ==
    ASSUME IInv, UNCHANGED <<captureVars, cpc, writerRunning, spc>>,
           NEW written \in 0..WriteBatch, WriteFrames(written)
    PROVE  IInv'
<1> DEFINE held == Len(writeBuffer)
           b == WriteBatch
           nb == WriteBatch * BytesPerFrame
           n == Len(files)
           old == files[Len(files)].frames
           new == [k \in 1..written |->
                     writeBuffer[(k - 1) * BytesPerFrame + 1]]
           grown == old \o new
<1>1. /\ wpc = "frames" /\ fileOpen /\ held >= BytesPerFrame
      /\ files' = [files EXCEPT ![n].frames = @ \o new]
      /\ framesWritten' = framesWritten + written
      /\ lost' = lost + (b - written) * BytesPerFrame
      /\ framesInBlock' = framesInBlock + b
      /\ writeBuffer' = SubSeq(writeBuffer, nb + 1, held)
      /\ fileOpen' = (framesInBlock + b < BlockFrames)
      /\ blocksWritten' = IF fileOpen' THEN blocksWritten
                                       ELSE blocksWritten + 1
  BY DEF WriteFrames
<1>2. UNCHANGED <<ring, ringWrite, captured, accepted, dropped, period, cpc,
                  writerRunning, ringRead, chunk, wpc, spc>>
  BY DEF WriteFrames, captureVars
<1>3. /\ b \in Nat /\ 1 <= b /\ framesInBlock \in Nat
      /\ framesInBlock + b <= BlockFrames
      /\ nb \in Nat /\ nb <= held
      /\ nb = b * BytesPerFrame
  BY <1>1, Batch
<1>4. /\ written \in Nat /\ written <= b
  BY <1>3
<1>5. /\ held \in Nat /\ lost \in Nat /\ framesWritten \in Nat
      /\ blocksWritten \in Nat /\ Done \in Nat /\ writeBuffer \in Seq(Int)
  BY Types
<1>6. /\ n \in Nat /\ n >= 1 /\ n \in DOMAIN files
      /\ files[n] \in [name : Nat, frames : Seq(Int)]
      /\ old \in Seq(Int) /\ Len(old) \in Nat
      /\ DOMAIN old = 1..Len(old)
      /\ \A k \in DOMAIN old : old[k] \in Int
  BY <1>1, FrameNumbers DEF IInv, FileInStep
<1>7. chunk = 0
  BY <1>1 DEF IInv, DrainInStep
<1> HIDE DEF b, nb
(* The frames written, one by one.                                          *)
<1>8. ASSUME NEW k \in 1..written
      PROVE  /\ new[k] = Done + (k - 1) * BytesPerFrame
             /\ (k - 1) * BytesPerFrame \in Nat
             /\ (k - 1) * BytesPerFrame + BytesPerFrame <= nb
  <2>1. k - 1 \in Nat /\ k - 1 < b
    BY <1>3, <1>4
  <2>2. (k - 1) * BytesPerFrame + BytesPerFrame <= b * BytesPerFrame
    BY <1>3, <2>1, FrameBytes
  <2>3. (k - 1) * BytesPerFrame \in Nat
    BY <2>1, FrameBytes
  <2>4. PICK o \in Nat : o = (k - 1) * BytesPerFrame
    BY <2>3
  <2>5. o + 1 \in 1..held
    BY <1>3, <1>5, <2>2, <2>4, Sizes
  <2>6. writeBuffer[o + 1] = Done + (o + 1) - 1
    BY <2>5 DEF IInv, BufferHolds
  <2>7. Done + (o + 1) - 1 = Done + o
    BY <1>5
  <2>8. new[k] = writeBuffer[o + 1]
    BY <2>4
  <2> HIDE DEF new
  <2> QED
    BY <1>3, <2>2, <2>4, <2>6, <2>7, <2>8
<1>9. new \in Seq(Int) /\ Len(new) = written
  <2>1. ASSUME NEW k \in 1..written
        PROVE  new[k] \in Int
    <3>1. Done + (k - 1) * BytesPerFrame \in Int
      BY <1>5, <1>8
    <3> HIDE DEF new
    <3> QED
      BY <1>8, <3>1
  <2>2. new = [k \in 1..written |-> new[k]]
    OBVIOUS
  <2> HIDE DEF new
  <2> QED
    BY <1>4, <2>1, <2>2
<1> HIDE DEF new
<1>10. /\ grown \in Seq(Int) /\ Len(grown) = Len(old) + written
       /\ \A k \in 1..Len(old) : grown[k] = old[k]
       /\ \A k \in (Len(old) + 1)..(Len(old) + written) :
              grown[k] = new[k - Len(old)]
  <2> HIDE DEF old
  <2> QED
    BY <1>6, <1>9, Concatenation
(* The files afterwards.                                                    *)
<1>11. /\ DOMAIN files' = DOMAIN files /\ Len(files') = n
       /\ files'[n].frames = grown
       /\ \A i \in DOMAIN files : i # n => files'[i] = files[i]
       /\ files' \in Seq([name : Nat, frames : Seq(Int)])
  <2> DEFINE File == [name : Nat, frames : Seq(Int)]
             file == [files[n] EXCEPT !.frames = grown]
  <2>1. file \in File /\ file.frames = grown
    BY <1>6, <1>10
  <2>2. files' = [files EXCEPT ![n] = file]
    BY <1>1
  <2>3. files \in Seq(File)
    BY Types
  <2> HIDE DEF grown, file, File, n
  <2>4. /\ files' \in Seq(File) /\ Len(files') = Len(files)
        /\ DOMAIN files' = DOMAIN files
        /\ files'[n] = file
        /\ \A i \in DOMAIN files : i # n => files'[i] = files[i]
    BY <1>6, <2>1, <2>2, <2>3
  <2> QED
    BY <2>1, <2>4 DEF File, n
<1> HIDE DEF held, n, old, grown
<1>12. /\ writeBuffer' \in Seq(Int) /\ Len(writeBuffer') = held - nb
       /\ \A i \in 1..(held - nb) : writeBuffer'[i] = writeBuffer[nb + i]
  <2>1. nb \in 0..Len(writeBuffer)
    BY <1>3, <1>5 DEF held
  <2> QED
    BY <1>1, <1>5, <2>1, Suffix DEF held
<1>13. /\ Used' = Used /\ Pending' = Pending /\ Released' = Released
  BY <1>2, UsedKept DEF Pending, Released
<1>14. Done' = Done + nb
  <2>1. Done' = Released + (0 - (held - nb))
    BY <1>2, <1>7, <1>12, <1>13 DEF Done
  <2>2. Done = Released + (0 - held)
    BY <1>7 DEF Done, held
  <2>3. Released + (0 - (held - nb)) = (Released + (0 - held)) + nb
    <3>1. Released \in Int
      BY Numbers
    <3>2. nb \in Int /\ held \in Int
      BY <1>3, <1>5
    <3> QED
      BY <3>1, <3>2
  <2> QED
    BY <2>1, <2>2, <2>3
<1>15. /\ lost' \in Nat
       /\ lost' = 0 => lost = 0 /\ written = b
  <2>1. PICK m \in Nat : m = (b - written) * BytesPerFrame
    <3>1. b - written \in Nat /\ b - written \in Int
      BY <1>3, <1>4
    <3> QED
      BY <3>1, FrameBytes
  <2>2. lost + m \in Nat /\ (lost + m = 0 => lost = 0 /\ m = 0)
    BY <1>5
  <2>3. m = 0 => written = b
    <3>1. b - written \in Int
      BY <1>3, <1>4
    <3>2. m = 0 => b - written = 0
      BY <2>1, <3>1, FrameBytes
    <3> QED
      BY <1>3, <1>4, <3>2
  <2> QED
    BY <1>1, <2>1, <2>2, <2>3
<1>16. PICK fib \in 1..BlockFrames :
           framesInBlock' = fib /\ fib = framesInBlock + b
  <2>1. framesInBlock + b \in 1..BlockFrames
    BY <1>3, Sizes
  <2> QED
    BY <1>1, <2>1
<1>17. \/ fib < BlockFrames /\ fileOpen' = TRUE /\ blocksWritten' = blocksWritten
       \/ fib = BlockFrames /\ fileOpen' = FALSE
          /\ blocksWritten' = blocksWritten + 1
  <2>1. fib < BlockFrames \/ (fib = BlockFrames /\ ~(fib < BlockFrames))
    BY Sizes
  <2>2. fileOpen' = (fib < BlockFrames)
    BY <1>1, <1>16
  <2>3. CASE fib < BlockFrames
    <3>1. fileOpen' = TRUE
      BY <2>2, <2>3
    <3> QED
      BY <1>1, <2>3, <3>1
  <2>4. CASE fib = BlockFrames /\ ~(fib < BlockFrames)
    <3>1. fileOpen' = FALSE
      <4>1. (fib < BlockFrames) = FALSE
        BY <2>4
      <4> QED
        BY <2>2, <4>1, Zenon
    <3> QED
      BY <1>1, <2>4, <3>1
  <2> QED
    BY <2>1, <2>3, <2>4
<1>18. TypeOK'
  <2>1. held - nb <= BufferSize
    <3>1. held <= BufferSize
      BY DEF IInv, TypeOK, held
    <3> QED
      BY <1>3, <1>5, <3>1, Sizes
  <2>2. framesWritten + written \in Nat /\ blocksWritten + 1 \in Nat
    BY <1>4, <1>5
  <2>3. framesInBlock' \in 0..BlockFrames
    BY <1>16, Sizes
  <2>4. fileOpen' \in BOOLEAN /\ blocksWritten' \in Nat
    BY <1>5, <1>17, <2>2
  <2> QED
    BY <1>1, <1>2, <1>11, <1>12, <1>15, <2>1, <2>2, <2>3, <2>4
       DEF IInv, TypeOK
<1>19. BufferHolds'
  <2>1. ASSUME NEW i \in 1..(held - nb)
        PROVE  writeBuffer'[i] = (Done + nb) + i - 1
    <3>1. nb + i \in 1..held
      BY <1>3, <1>5
    <3>2. writeBuffer[nb + i] = Done + (nb + i) - 1
      BY <3>1 DEF IInv, BufferHolds, held
    <3>3. Done + (nb + i) - 1 = (Done + nb) + i - 1
      BY <1>3, <1>5
    <3> QED
      BY <1>12, <3>2, <3>3
  <2>2. Done + nb = (framesWritten + written) * BytesPerFrame
                      + (lost + (b - written) * BytesPerFrame)
    <3>1. Done = framesWritten * BytesPerFrame + lost
      BY DEF IInv, BufferHolds
    <3>2. /\ framesWritten \in Int /\ written \in Int /\ b \in Int
          /\ lost \in Int
      BY <1>3, <1>4, <1>5
    <3>3. PICK x \in Int, y \in Int, z \in Int :
              /\ x = framesWritten * BytesPerFrame
              /\ y = written * BytesPerFrame /\ z = b * BytesPerFrame
      BY <3>2, FrameBytes
    <3>4. (framesWritten + written) * BytesPerFrame = x + y
      BY <3>2, <3>3, FrameBytes
    <3>5. (b - written) * BytesPerFrame = z - y
      BY <3>2, <3>3, FrameBytes
    <3>6. (x + lost) + z = (x + y) + (lost + (z - y))
      BY <3>2, <3>3
    <3> QED
      BY <1>3, <3>1, <3>3, <3>4, <3>5, <3>6
  <2> QED
    BY <1>1, <1>12, <1>14, <2>1, <2>2 DEF BufferHolds
<1>20. DrainInStep'
  BY <1>1, <1>2, <1>7 DEF DrainInStep
<1>21. Cursors' /\ RingHolds' /\ PeriodsWhole'
  BY <1>2, <1>13 DEF IInv, Cursors, RingHolds, PeriodsWhole
<1>22. StopInStep'
  BY <1>1, <1>2, <1>13 DEF IInv, StopInStep
(* What was known of the open file, when nothing is lost.                   *)
<1>23. /\ blocksWritten = n - 1
       /\ lost = 0 => /\ Len(old) = framesInBlock
                      /\ framesWritten = (n - 1) * BlockFrames + framesInBlock
  BY <1>1 DEF IInv, FileInStep, n, old
<1>24. PICK p \in Int : /\ p = (n - 1) * BlockFrames
                        /\ n * BlockFrames = p + BlockFrames
  <2>1. n - 1 \in Int /\ (n - 1) + 1 = n
    BY <1>6
  <2>2. /\ (n - 1) * BlockFrames \in Int
        /\ ((n - 1) + 1) * BlockFrames = (n - 1) * BlockFrames + BlockFrames
    BY <2>1, BlockSum
  <2> QED
    BY <2>1, <2>2
<1>25. ASSUME lost' = 0
       PROVE  /\ lost = 0 /\ written = b /\ Len(old) = framesInBlock
              /\ Len(grown) = fib /\ framesWritten' = p + fib
              /\ Done = (p + framesInBlock) * BytesPerFrame
  <2>1. lost = 0 /\ written = b
    BY <1>15, <1>25
  <2>2. Len(old) = framesInBlock /\ framesWritten = p + framesInBlock
    BY <1>23, <1>24, <2>1
  <2>3. (p + framesInBlock) + b = p + fib
    BY <1>3, <1>16, <1>24
  <2>4. Done = framesWritten * BytesPerFrame + 0
    BY <2>1 DEF IInv, BufferHolds
  <2>5. framesWritten * BytesPerFrame \in Int
    BY <1>5, FrameBytes
  <2> QED
    BY <1>1, <1>10, <1>16, <2>1, <2>2, <2>3, <2>4, <2>5
<1>26. FileInStep'
  <2>1. CASE fib < BlockFrames
    BY <1>1, <1>6, <1>11, <1>16, <1>17, <1>23, <1>24, <1>25, <2>1
       DEF FileInStep
  <2>2. CASE fib = BlockFrames
    <3>1. (n - 1) + 1 = n
      BY <1>6
    <3>2. fileOpen' = FALSE /\ blocksWritten' = n
      BY <1>17, <1>23, <2>2, <3>1, Sizes
    <3> QED
      BY <1>11, <1>16, <1>24, <1>25, <2>2, <3>2 DEF FileInStep
  <2> QED
    BY <1>17, <2>1, <2>2
<1>27. BlocksAreFull'
  <2>1. ASSUME lost' = 0, NEW i \in 1..(n - 1)
        PROVE  Len(files'[i].frames) = BlockFrames
    <3>1. i \in DOMAIN files /\ i # n
      BY <1>6, FrameNumbers DEF n
    <3>2. Len(files[i].frames) = BlockFrames
      BY <1>25, <2>1 DEF IInv, BlocksAreFull, n
    <3> QED
      BY <1>11, <3>1, <3>2
  <2>2. ~fileOpen' /\ wpc' # "exited" => blocksWritten' = n
    <3>1. (n - 1) + 1 = n
      BY <1>6
    <3> QED
      BY <1>17, <1>23, <3>1
  <2> QED
    BY <1>11, <2>1, <2>2 DEF BlocksAreFull
(* Frame k of the file written to is an old one, or one of the batch.       *)
<1>28. \A k \in DOMAIN files'[n].frames :
           \/ k \in DOMAIN old /\ files'[n].frames[k] = old[k]
           \/ k - Len(old) \in 1..written
              /\ files'[n].frames[k] = new[k - Len(old)]
  <2>1. /\ files'[n].frames = grown
        /\ DOMAIN grown = 1..(Len(old) + written)
    BY <1>10, <1>11
  <2> SUFFICES ASSUME NEW k \in 1..(Len(old) + written)
               PROVE  \/ k \in DOMAIN old /\ grown[k] = old[k]
                      \/ k - Len(old) \in 1..written
                         /\ grown[k] = new[k - Len(old)]
    BY <2>1
  <2>2. CASE k <= Len(old)
    <3>1. k \in 1..Len(old)
      BY <1>6, <2>2
    <3> QED
      BY <1>6, <1>10, <3>1
  <2>3. CASE k > Len(old)
    <3>1. /\ k \in (Len(old) + 1)..(Len(old) + written)
          /\ k - Len(old) \in 1..written
      BY <1>4, <1>6, <2>3
    <3> QED
      BY <1>10, <3>1
  <2> QED
    BY <1>6, <2>2, <2>3
(* The batch lies between the old byte to go on with and the new one.       *)
<1>29. ASSUME NEW k \in 1..written
       PROVE  new[k] \in Int /\ Done <= new[k] /\ new[k] < Done + nb
  <2>1. PICK o \in Nat : o = (k - 1) * BytesPerFrame
    BY <1>8
  <2>2. new[k] = Done + o /\ o + BytesPerFrame <= nb
    BY <1>8, <2>1
  <2>3. Done + o \in Int /\ Done <= Done + o /\ Done + o < Done + nb
    BY <1>3, <1>5, <2>2, Sizes
  <2> QED
    BY <2>2, <2>3
<1>30. \A i \in DOMAIN files : \A k \in DOMAIN files[i].frames :
           files[i].frames[k] \in Int /\ files[i].frames[k] < Done
  BY FrameNumbers DEF IInv, FilesBehind
<1>31. ASSUME NEW i \in DOMAIN files', NEW k \in DOMAIN files'[i].frames
       PROVE  \/ /\ k \in DOMAIN files[i].frames
                 /\ files'[i].frames[k] = files[i].frames[k]
              \/ /\ i = n /\ k - Len(old) \in 1..written
                 /\ files'[i].frames[k] = new[k - Len(old)]
  <2>1. CASE i = n
    BY <1>28, <2>1 DEF old, n
  <2>2. CASE i # n
    BY <1>11, <2>2
  <2> QED
    BY <2>1, <2>2
<1>32. FilesBehind'
  <2>1. ASSUME NEW i \in DOMAIN files', NEW k \in DOMAIN files'[i].frames
        PROVE  files'[i].frames[k] < Done + nb
    <3>1. CASE /\ k \in DOMAIN files[i].frames
               /\ files'[i].frames[k] = files[i].frames[k]
      <4>1. files[i].frames[k] \in Int /\ files[i].frames[k] < Done
        BY <1>11, <1>30, <3>1
      <4>2. files[i].frames[k] < Done + nb
        BY <1>3, <1>5, <4>1
      <4> QED
        BY <3>1, <4>2
    <3>2. CASE /\ k - Len(old) \in 1..written
               /\ files'[i].frames[k] = new[k - Len(old)]
      BY <1>29, <3>2
    <3> QED
      BY <1>31, <3>1, <3>2
  <2> QED
    BY <1>14, <2>1 DEF FilesBehind
<1>33. FramesInOrder'
  <2> SUFFICES ASSUME NEW i \in DOMAIN files', NEW j \in DOMAIN files',
                      NEW k \in DOMAIN files'[i].frames,
                      NEW l \in DOMAIN files'[j].frames,
                      i < j \/ (i = j /\ k < l)
               PROVE  files'[i].frames[k] < files'[j].frames[l]
    BY DEF FramesInOrder
  <2>1. i \in 1..n /\ j \in 1..n
    BY <1>11, FrameNumbers DEF n
  <2>2. CASE k \in DOMAIN files[i].frames
             /\ files'[i].frames[k] = files[i].frames[k]
    <3>1. CASE l \in DOMAIN files[j].frames
               /\ files'[j].frames[l] = files[j].frames[l]
      BY <1>11, <2>2, <3>1 DEF IInv, FramesInOrder
    <3>2. CASE l - Len(old) \in 1..written
               /\ files'[j].frames[l] = new[l - Len(old)]
      <4>1. /\ files[i].frames[k] \in Int /\ files[i].frames[k] < Done
            /\ new[l - Len(old)] \in Int /\ Done <= new[l - Len(old)]
        BY <1>11, <1>29, <1>30, <2>2, <3>2
      <4>2. files[i].frames[k] < new[l - Len(old)]
        BY <1>5, <4>1
      <4> QED
        BY <2>2, <3>2, <4>2
    <3> QED
      BY <1>31, <3>1, <3>2
  <2>3. CASE i = n /\ k - Len(old) \in 1..written
             /\ files'[i].frames[k] = new[k - Len(old)]
    <3>1. j = n /\ k < l
      BY <1>6, <2>1, <2>3
    <3>2. k \in Int /\ l \in Int
      <4>1. DOMAIN files'[n].frames = 1..(Len(old) + written)
        BY <1>10, <1>11
      <4>2. \A x \in 1..(Len(old) + written) : x \in Int
        BY <1>4, <1>6
      <4> QED
        BY <2>3, <3>1, <4>1, <4>2
    <3>3. ~(l \in DOMAIN old)
      BY <1>6, <2>3, <3>1, <3>2
    <3>4. l - Len(old) \in 1..written
          /\ files'[j].frames[l] = new[l - Len(old)]
      BY <1>28, <3>1, <3>3
    <3>5. new[k - Len(old)] < new[l - Len(old)]
      <4>1. PICK u \in 1..written : u = k - Len(old)
        BY <2>3
      <4>2. PICK v \in 1..written : v = l - Len(old)
        BY <3>4
      <4>3. /\ u - 1 \in Int /\ v - 1 \in Int /\ u - 1 < v - 1
        BY <1>6, <3>1, <3>2, <4>1, <4>2
      <4>4. (u - 1) * BytesPerFrame + BytesPerFrame <= (v - 1) * BytesPerFrame
        BY <4>3, FrameBytes
      <4>5. PICK x \in Int, y \in Int :
                x = (u - 1) * BytesPerFrame /\ y = (v - 1) * BytesPerFrame
        BY <4>3, FrameBytes
      <4>6. new[u] = Done + x /\ new[v] = Done + y
        BY <1>8, <4>5
      <4>7. Done + x < Done + y
        BY <1>5, <4>4, <4>5, Sizes
      <4> QED
        BY <4>1, <4>2, <4>6, <4>7
    <3> QED
      BY <2>3, <3>4, <3>5
  <2> QED
    BY <1>31, <2>2, <2>3
<1>34. FilesAreGapless'
  <2>1. ASSUME lost' = 0, NEW i \in DOMAIN files',
               NEW k \in DOMAIN files'[i].frames
        PROVE  files'[i].frames[k] =
                   ((i - 1) * BlockFrames + k - 1) * BytesPerFrame
    <3>1. CASE /\ k \in DOMAIN files[i].frames
               /\ files'[i].frames[k] = files[i].frames[k]
      BY <1>11, <1>25, <2>1, <3>1 DEF IInv, FilesAreGapless
    <3>2. CASE /\ i = n /\ k - Len(old) \in 1..written
               /\ files'[i].frames[k] = new[k - Len(old)]
      <4>1. PICK u \in 1..written : u = k - Len(old)
        BY <3>2
      <4>2. k \in Int
        <5>1. DOMAIN files'[n].frames = 1..(Len(old) + written)
          BY <1>10, <1>11
        <5>2. \A x \in 1..(Len(old) + written) : x \in Int
          BY <1>4, <1>6
        <5> QED
          BY <3>2, <5>1, <5>2
      <4>3. /\ u - 1 \in Int /\ p + framesInBlock \in Int
            /\ (p + framesInBlock) + (u - 1) = p + k - 1
        BY <1>3, <1>25, <2>1, <4>1, <4>2
      <4>4. (p + framesInBlock) * BytesPerFrame + (u - 1) * BytesPerFrame
                = (p + k - 1) * BytesPerFrame
        BY <4>3, FrameBytes
      <4>5. new[u] = Done + (u - 1) * BytesPerFrame
        BY <1>8
      <4> QED
        BY <1>24, <1>25, <2>1, <3>2, <4>1, <4>4, <4>5
    <3> QED
      BY <1>31, <3>1, <3>2
  <2>2. lost' = 0 => framesWritten' = (Len(files') - 1) * BlockFrames
                                        + Len(files'[Len(files')].frames)
    BY <1>11, <1>24, <1>25
  <2>3. files' # << >>
    <3>1. Len(files') >= 1
      BY <1>6, <1>11
    <3> QED
      BY <3>1
  <2> QED
    BY <2>1, <2>2, <2>3 DEF FilesAreGapless
<1> QED
  BY <1>18, <1>19, <1>20, <1>21, <1>22, <1>26, <1>27, <1>32, <1>33, <1>34
     DEF IInv

-----------------------------------------------------------------------------
LEMMA InitIInv == Init => IInv
<1> SUFFICES ASSUME Init PROVE IInv
  OBVIOUS
<1> USE DEF Init
<1>1. ringWrite - ringRead = 0 /\ 0 % WordMod = 0 /\ 0 \in 0..(WordMod - 1)
  <2>1. 0 = WordMod * 0 + 0 /\ 0 \in 0..(WordMod - 1) /\ WordMod \in Nat \ {0}
    BY Sizes
  <2> QED
    BY <2>1, ModUnique
<1>2. Used = 0 /\ Pending = 0
  BY <1>1 DEF Used, Pending
<1>3. Released = 0 /\ Done = 0
  <2>1. Released = 0
    BY <1>2 DEF Released
  <2>2. Done = 0 + (0 - 0)
    BY <2>1 DEF Done
  <2> QED
    BY <2>1, <2>2
<1>4. TypeOK
  <2>1. writeBuffer \in Seq(Int) /\ Len(writeBuffer) <= BufferSize
        /\ files \in Seq([name : Nat, frames : Seq(Int)])
    BY Sizes
  <2>2. ring \in [0..(RingCapacity - 1) -> Int]
    OBVIOUS
  <2>3. 0 \in 0..MaxFrames /\ 0 \in 0..BufferSize /\ 0 \in 0..BlockFrames
    BY Sizes
  <2>4. /\ ringWrite \in 0..(WordMod - 1) /\ ringRead \in 0..(WordMod - 1)
        /\ captured \in 0..MaxFrames /\ dropped \in 0..captured
        /\ accepted \in Nat /\ lost \in Nat
        /\ chunk \in 0..BufferSize /\ framesInBlock \in 0..BlockFrames
        /\ blocksWritten \in Nat /\ framesWritten \in Nat
    BY <1>1, <2>3
  <2> QED
    BY <2>1, <2>2, <2>4 DEF TypeOK
<1>5. Cursors
  BY <1>1, <1>3 DEF Cursors
<1>6. RingHolds
  <2>1. Released..((accepted + Pending) - 1) = {}
    BY <1>2, <1>3
  <2>2. Used + Pending <= RingCapacity
    BY <1>2, Sizes
  <2> QED
    BY <1>2, <1>3, <2>2 DEF RingHolds
<1>7. 0 * BytesPerFrame = 0 /\ 0 * BlockFrames = 0 /\ 0 < BytesPerFrame
      /\ Len(writeBuffer) = 0 /\ DOMAIN writeBuffer = {} /\ 1..0 = {}
      /\ Len(files) = 0 /\ DOMAIN files = {} /\ 1..(0 - 1) = {}
  BY Sizes
<1>8. BufferHolds
  BY <1>3, <1>7 DEF BufferHolds
<1>9. DrainInStep /\ StopInStep
  BY <1>7 DEF DrainInStep, StopInStep
<1>10. PeriodsWhole
  <2>1. accepted + Pending = 0 /\ captured - dropped = 0
    BY <1>2
  <2> QED
    BY <1>7, <2>1 DEF PeriodsWhole
<1>11. FileInStep /\ FilesBehind /\ BlocksAreFull /\ FramesInOrder
  BY <1>7 DEF FileInStep, FilesBehind, BlocksAreFull, FramesInOrder
<1>12. FilesAreGapless
  BY <1>7 DEF FilesAreGapless
<1> QED
  BY <1>4, <1>5, <1>6, <1>8, <1>9, <1>10, <1>11, <1>12 DEF IInv

LEMMA NextIInv == IInv /\ [Next]_vars => IInv'
<1> SUFFICES ASSUME IInv, [Next]_vars PROVE IInv'
  OBVIOUS
<1>1. CASE Capture
  <2>1. UNCHANGED <<writerRunning, chunk, writeBuffer, fileVars, spc>>
    BY <1>1 DEF Capture
  <2>2. CASE \E n \in Periods : PushDrop(n) \/ PushCopy(n)
    BY <2>1, <2>2, DropStep, CopyStep
  <2>3. CASE PushStore
    BY <2>1, <2>3, StoreStep
  <2>4. CASE PushNotify
    BY <2>1, <2>4, NotifyStep
  <2> QED
    BY <1>1, <2>2, <2>3, <2>4 DEF Capture
<1>2. CASE WriterStep
  <2>1. UNCHANGED <<captureVars, cpc, writerRunning, spc>>
    BY <1>2 DEF WriterStep
  <2>2. CASE WaitCheck \/ FallAsleep \/ FramesDone \/ RingEmpty
    BY <2>1, <2>2, WriterWaitStep
  <2>3. CASE DrainCopy
    BY <2>1, <2>3, DrainCopyStep
  <2>4. CASE DrainRelease
    BY <2>1, <2>4, DrainReleaseStep
  <2>5. CASE OpenFails
    BY <2>1, <2>5, OpenFailsStep
  <2>6. CASE OpenFile
    BY <2>1, <2>6, OpenFileStep
  <2>7. CASE \E written \in 0..WriteBatch : WriteFrames(written)
    BY <2>1, <2>7, WriteFramesStep
  <2>8. CASE LeaveOrWait
    BY <2>1, <2>8, LeaveStep
  <2> QED
    BY <1>2, <2>2, <2>3, <2>4, <2>5, <2>6, <2>7, <2>8 DEF WriterStep
<1>3. CASE Spurious
  BY <1>3, WriterWaitStep DEF Spurious
<1>4. CASE Stop
  BY <1>4, StopStep
<1>5. CASE UNCHANGED vars
  <2>1. UNCHANGED <<captureVars, cpc, ringRead, wpc, writerRunning, chunk,
                    writeBuffer, fileVars, spc>>
    BY <1>5 DEF vars
  <2>2. UNCHANGED <<ring, ringWrite, captured, accepted, dropped, period,
                    fileOpen, files, framesInBlock, blocksWritten,
                    framesWritten, lost>> /\ Used' = Used
    BY <2>1, UsedKept DEF captureVars, fileVars
  <2>3. TypeOK' /\ DrainInStep' /\ StopInStep'
    BY <2>1, <2>2 DEF IInv, TypeOK, DrainInStep, StopInStep
  <2> QED
    BY <2>1, <2>3, WaitStep
<1> QED
  BY <1>1, <1>2, <1>3, <1>4, <1>5 DEF Next

LEMMA Invariance == Spec => []IInv
<1>1. Init => IInv
  BY InitIInv
<1>2. IInv /\ [Next]_vars => IInv'
  BY NextIInv
<1> QED
  BY <1>1, <1>2, PTL DEF Spec

-----------------------------------------------------------------------------
(* Every variable of push(), the writer thread and stop() holds a value of  *)
(* its kind: neither the ring nor the write buffer is overrun.              *)
THEOREM TypeCorrect == Spec => []TypeOK
<1>1. IInv => TypeOK
  BY DEF IInv
<1> QED
  BY <1>1, Invariance, PTL

(* While no disk error throws anything away, the files the writer cuts hold *)
(* the frames push() accepted, each one whole, none left out between two    *)
(* files and none twice: no copy of push() overwrites a byte the writer has *)
(* still to take, whatever the wraps of the ring and of the cursors, and no *)
(* frame is cut by a refill of the write buffer.                            *)
THEOREM Gapless == Spec => []FilesAreGapless
<1>1. IInv => FilesAreGapless
  BY DEF IInv
<1> QED
  BY <1>1, Invariance, PTL

(* Every file but the last holds one block, and blocks_written_ counts the  *)
(* files cut at a block's end.                                              *)
THEOREM FullBlocks == Spec => []BlocksAreFull
<1>1. IInv => BlocksAreFull
  BY DEF IInv
<1> QED
  BY <1>1, Invariance, PTL

(* Each byte push() has accepted is in the ring, in the write buffer, on    *)
(* disk or counted as lost to a disk error, at every step of both threads.  *)
THEOREM ByteAccount == Spec => []EveryByteAccounted
<1>1. IInv => EveryByteAccounted
  <2> SUFFICES ASSUME IInv PROVE EveryByteAccounted
    OBVIOUS
  <2>1. Released + (chunk - Len(writeBuffer))
            = framesWritten * BytesPerFrame + lost
    BY DEF IInv, BufferHolds, Done
  <2>2. chunk \in Int /\ Len(writeBuffer) \in Int /\ lost \in Int
        /\ framesWritten * BytesPerFrame \in Int
    <3>1. chunk \in Nat /\ Len(writeBuffer) \in Nat /\ lost \in Nat
          /\ framesWritten \in Nat
      BY Types
    <3> QED
      BY <3>1, FrameBytes
  <2>3. Released = accepted - Used /\ accepted \in Int /\ Used \in Int
    BY Numbers
  <2> QED
    BY <2>1, <2>2, <2>3 DEF EveryByteAccounted
<1> QED
  BY <1>1, Invariance, PTL

(* Even when the disk takes part of a batch only, or refuses a file, no     *)
(* frame is recorded twice or behind a later one.                           *)
THEOREM RecordedInOrder == Spec => []FramesInOrder
<1>1. IInv => FramesInOrder
  BY DEF IInv
<1> QED
  BY <1>1, Invariance, PTL

(* When stop() has returned the ring is empty and the file closed, and what *)
(* push() accepted and no disk error took is on disk: no rest of a frame is *)
(* left behind in the write buffer.                                         *)
THEOREM Drained == Spec => []DrainedWhenStopped
<1>1. IInv => DrainedWhenStopped
  <2> SUFFICES ASSUME IInv, spc = "stopped"
               PROVE  /\ Used = 0 /\ ~fileOpen
                      /\ lost = 0 => framesWritten = captured - dropped
    BY DEF DrainedWhenStopped
  <2>1. /\ wpc = "exited" /\ Used = 0 /\ ~fileOpen /\ cpc = "joined"
    BY DEF IInv, StopInStep, TypeOK
  <2>2. chunk = 0 /\ Len(writeBuffer) < BytesPerFrame
    BY <2>1 DEF IInv, DrainInStep
  <2>3. ASSUME lost = 0
        PROVE  framesWritten = captured - dropped
    <3> DEFINE d == captured - dropped
    <3>1. /\ d \in Int /\ framesWritten \in Int
          /\ Len(writeBuffer) \in Int /\ 0 <= Len(writeBuffer)
      <4>1. framesWritten \in Nat /\ Len(writeBuffer) \in Nat
        BY Types
      <4> QED
        BY <4>1, Numbers
    <3>2. accepted = d * BytesPerFrame
      <4>1. accepted + 0 = d * BytesPerFrame
        BY <2>1 DEF IInv, PeriodsWhole, Pending
      <4> QED
        BY <4>1, Numbers
    <3> HIDE DEF d
    <3>3. PICK x \in Int, y \in Int :
              x = d * BytesPerFrame /\ y = framesWritten * BytesPerFrame
      BY <3>1, FrameBytes
    <3>4. Released = x
      BY <2>1, <3>2, <3>3, Numbers
    <3>5. x + (0 - Len(writeBuffer)) = y
      <4>1. Done = x + (0 - Len(writeBuffer))
        BY <2>2, <3>4 DEF Done
      <4>2. Done = y + 0
        BY <2>3, <3>3 DEF IInv, BufferHolds
      <4> QED
        BY <3>3, <4>1, <4>2
    <3>6. ~(framesWritten < d)
      <4> SUFFICES ASSUME framesWritten < d PROVE FALSE
        OBVIOUS
      <4>1. y + BytesPerFrame <= x
        BY <3>1, <3>3, FrameBytes
      <4> QED
        BY <2>2, <3>1, <3>3, <3>5, <4>1, Sizes
    <3>7. ~(d < framesWritten)
      <4> SUFFICES ASSUME d < framesWritten PROVE FALSE
        OBVIOUS
      <4>1. x + BytesPerFrame <= y
        BY <3>1, <3>3, FrameBytes
      <4> QED
        BY <3>1, <3>3, <3>5, <4>1, Sizes
    <3>8. framesWritten = d
      BY <3>1, <3>6, <3>7
    <3> QED
      BY <3>8 DEF d
  <2> QED
    BY <2>1, <2>3
<1> QED
  BY <1>1, Invariance, PTL

(* A period is dropped only while enough is buffered for the writer to be   *)
(* awake, provided the ring has room for a period beyond the threshold:     *)
(* at 8000 one-channel 16-bit frames a second it has not, for the floor of  *)
(* the threshold is then the whole ring.                                    *)
THEOREM DropsOnlyBehind ==
    ASSUME \A n \in Periods :
               n * BytesPerFrame <= RingCapacity - FlushThreshold
    PROVE  Spec => DropMeansBehind
<1>1. IInv /\ [Next]_vars => [dropped' # dropped => Used >= FlushThreshold]_vars
  <2> SUFFICES ASSUME IInv, [Next]_vars, dropped' # dropped
               PROVE  Used >= FlushThreshold
    OBVIOUS
  <2>1. dropped' # dropped => \E n \in Periods : PushDrop(n)
    BY DEF Next, Capture, PushCopy, PushStore, PushNotify, WriterStep,
           Spurious, Stop, StopRest, captureVars, vars
  <2>2. PICK n \in Periods : PushDrop(n)
    BY <2>1
  <2>3. PICK b \in Nat : b = n * BytesPerFrame
    BY Sizes
  <2>4. b > RingCapacity - Used /\ b <= RingCapacity - FlushThreshold
    BY <2>2, <2>3 DEF PushDrop
  <2> QED
    BY <2>4, Numbers, Sizes
<1> QED
  BY <1>1, Invariance, PTL DEF Spec, DropMeansBehind

-----------------------------------------------------------------------------
(* The writer as RecorderWakeup sees it.                                    *)
LEMMA WakeupStates ==
    /\ wpc = "release" => WakeupState = "drain"
    /\ wpc = "frames" => WakeupState = "took"
    /\ wpc \notin {"release", "frames"} => WakeupState = wpc
    /\ wpc' = "release" => WakeupState' = "drain"
    /\ wpc' = "frames" => WakeupState' = "took"
    /\ wpc' \notin {"release", "frames"} => WakeupState' = wpc'
    /\ wpc' = wpc => WakeupState' = WakeupState
BY DEF WakeupState

(* The steps of push().                                                     *)
LEMMA CaptureWakeup ==
    ASSUME IInv, Capture
    PROVE  Wakeup!Capture \/ UNCHANGED Wakeup!vars
<1>1. /\ UNCHANGED <<writerRunning, spc>>
  BY DEF Capture
<1>2. ASSUME NEW n \in Periods, PushDrop(n)
      PROVE  UNCHANGED Wakeup!vars
  <2>1. UNCHANGED <<ringWrite, ringRead, cpc, period, wpc>>
    BY <1>2 DEF PushDrop
  <2>2. Used' = Used /\ WakeupState' = WakeupState
    BY <2>1, UsedKept, WakeupStates
  <2> QED
    BY <1>1, <2>1, <2>2 DEF Wakeup!vars
<1>3. ASSUME NEW n \in Periods, PushCopy(n)
      PROVE  Wakeup!Capture
  <2>1. /\ UNCHANGED <<ringWrite, ringRead, wpc>>
        /\ cpc = "idle" /\ cpc' = "store" /\ period' = n
        /\ n * BytesPerFrame <= RingCapacity - Used
    BY <1>3 DEF PushCopy
  <2>2. Used' = Used /\ WakeupState' = WakeupState
    BY <2>1, UsedKept, WakeupStates
  <2>3. Wakeup!PushCopy(n * BytesPerFrame)
    BY <2>1, <2>2 DEF Wakeup!PushCopy
  <2> QED
    BY <1>1, <2>3 DEF Wakeup!Capture
<1>4. ASSUME PushStore
      PROVE  Wakeup!Capture
  <2>1. /\ cpc = "store" /\ cpc' = "notify"
        /\ ringWrite' = (ringWrite + period * BytesPerFrame) % WordMod
        /\ UNCHANGED <<ringRead, wpc>>
    BY <1>4 DEF PushStore
  <2>2. PICK b \in Nat : b = period * BytesPerFrame /\ Pending = b
    BY <2>1, Types, FrameBytes DEF Pending
  <2>3. Used' = Used + b
    BY <2>1, <2>2, Numbers, UsedAfterPush
  <2>4. WakeupState' = WakeupState
    BY <2>1, WakeupStates
  <2>5. Wakeup!PushStore
    BY <2>1, <2>2, <2>3, <2>4 DEF Wakeup!PushStore
  <2> QED
    BY <1>1, <2>5 DEF Wakeup!Capture
<1>5. ASSUME PushNotify
      PROVE  Wakeup!Capture
  <2>1. /\ cpc = "notify" /\ cpc' = "idle"
        /\ wpc' = IF wpc = "asleep" THEN "check" ELSE wpc
        /\ UNCHANGED <<ringWrite, ringRead, period>>
    BY <1>5 DEF PushNotify, NotifyOne, captureVars
  <2>2. Used' = Used
    BY <2>1, UsedKept
  <2>3. WakeupState' = IF WakeupState = "asleep" THEN "check" ELSE WakeupState
    BY <2>1, WakeupStates
  <2>4. Wakeup!PushNotify
    BY <2>1, <2>2, <2>3 DEF Wakeup!PushNotify, Wakeup!NotifyOne
  <2> QED
    BY <1>1, <2>4 DEF Wakeup!Capture
<1> QED
  BY <1>2, <1>3, <1>4, <1>5 DEF Capture

(* The steps of the writer thread: a copy, a file opened and a batch        *)
(* written are no steps of RecorderWakeup.                                  *)
LEMMA WriterWakeup ==
    ASSUME IInv, WriterStep \/ Spurious
    PROVE  Wakeup!Writer \/ Wakeup!Spurious \/ UNCHANGED Wakeup!vars
<1> DEFINE pushing == IF cpc = "store" THEN period * BytesPerFrame ELSE 0
<1>1. UNCHANGED <<ringWrite, period, cpc, writerRunning, spc>>
  BY DEF WriterStep, Spurious, captureVars
<1>2. UNCHANGED pushing
  BY <1>1
<1> HIDE DEF pushing
<1>3. ASSUME UNCHANGED ringRead
      PROVE  Used' = Used
  BY <1>1, <1>3, UsedKept
<1>4. CASE WaitCheck
  <2>1. Wakeup!WaitCheck
    BY <1>3, <1>4, WakeupStates DEF WaitCheck, Wakeup!WaitCheck
  <2> QED
    BY <1>1, <1>2, <2>1 DEF Wakeup!Writer, pushing
<1>5. CASE FallAsleep
  <2>1. Wakeup!FallAsleep
    BY <1>3, <1>5, WakeupStates DEF FallAsleep, Wakeup!FallAsleep
  <2> QED
    BY <1>1, <1>2, <2>1 DEF Wakeup!Writer, pushing
<1>6. CASE SpuriousWake
  <2>1. Wakeup!SpuriousWake
    BY <1>3, <1>6, WakeupStates DEF SpuriousWake, Wakeup!SpuriousWake
  <2> QED
    BY <1>1, <1>2, <2>1 DEF Wakeup!Spurious, pushing
<1>7. CASE DrainCopy
  <2>1. Used' = Used /\ WakeupState' = WakeupState
    BY <1>3, <1>7, WakeupStates DEF DrainCopy
  <2> QED
    BY <1>1, <1>2, <2>1 DEF Wakeup!vars, pushing
<1>8. CASE DrainRelease
  <2>1. /\ wpc = "release" /\ wpc' = "frames"
        /\ ringRead' = (ringRead + chunk) % WordMod
        /\ chunk \in 1..Used
    BY <1>8 DEF DrainRelease, IInv, DrainInStep
  <2>2. Used' = Used - chunk
    <3>1. chunk \in Nat /\ chunk <= Used
      BY <2>1, Types, Numbers
    <3> QED
      BY <1>1, <2>1, <3>1, UsedAfterRelease
  <2>3. Wakeup!Take(chunk)
    BY <2>1, <2>2, WakeupStates DEF Wakeup!Take
  <2> QED
    BY <1>1, <1>2, <2>1, <2>3 DEF Wakeup!Writer, pushing
<1>9. CASE RingEmpty
  <2>1. Wakeup!RingEmpty
    BY <1>3, <1>9, WakeupStates DEF RingEmpty, Wakeup!RingEmpty
  <2> QED
    BY <1>1, <1>2, <2>1 DEF Wakeup!Writer, pushing
<1>10. CASE FramesDone
  <2>1. Wakeup!Continue
    BY <1>3, <1>10, WakeupStates DEF FramesDone, Wakeup!Continue
  <2> QED
    BY <1>1, <1>2, <2>1 DEF Wakeup!Writer, pushing
<1>11. CASE OpenFails
  <2>1. Wakeup!Abandon
    BY <1>3, <1>11, WakeupStates DEF OpenFails, Wakeup!Abandon
  <2> QED
    BY <1>1, <1>2, <2>1 DEF Wakeup!Writer, pushing
<1>12. CASE OpenFile \/ \E written \in 0..WriteBatch : WriteFrames(written)
  <2>1. Used' = Used /\ WakeupState' = WakeupState
    BY <1>3, <1>12, WakeupStates DEF OpenFile, WriteFrames
  <2> QED
    BY <1>1, <1>2, <2>1 DEF Wakeup!vars, pushing
<1>13. CASE LeaveOrWait
  <2>1. Wakeup!LeaveOrWait
    BY <1>3, <1>13, WakeupStates DEF LeaveOrWait, Wakeup!LeaveOrWait
  <2> QED
    BY <1>1, <1>2, <2>1 DEF Wakeup!Writer, pushing
<1> QED
  BY <1>4, <1>5, <1>6, <1>7, <1>8, <1>9, <1>10, <1>11, <1>12, <1>13
     DEF WriterStep, Spurious

(* The steps of stop().                                                     *)
LEMMA StopWakeup ==
    ASSUME IInv, Stop
    PROVE  Wakeup!Stop
<1>1. UNCHANGED <<ringWrite, ringRead, period>>
  BY DEF Stop, StopRest, captureVars
<1>2. Used' = Used
  BY <1>1, UsedKept
<1>3. CASE StopFlag
  <2>1. /\ spc = "running" /\ cpc = "idle" /\ cpc' = "joined"
        /\ writerRunning' = FALSE /\ spc' = "notify" /\ wpc' = wpc
    BY <1>3 DEF StopFlag
  <2> QED
    BY <1>1, <1>2, <2>1, WakeupStates DEF Wakeup!Stop, Wakeup!StopFlag
<1>4. CASE StopNotify
  <2>1. /\ spc = "notify" /\ spc' = "join" /\ UNCHANGED <<cpc, writerRunning>>
        /\ wpc' = IF wpc = "asleep" THEN "check" ELSE wpc
    BY <1>4 DEF StopNotify, NotifyOne
  <2>2. WakeupState' = IF WakeupState = "asleep" THEN "check" ELSE WakeupState
    BY <2>1, WakeupStates
  <2>3. Wakeup!StopNotify
    BY <2>1, <2>2 DEF Wakeup!StopNotify, Wakeup!NotifyOne
  <2> QED
    BY <1>1, <1>2, <2>1, <2>3 DEF Wakeup!Stop, Wakeup!StopEnds
<1>5. CASE StopJoin
  <2>1. /\ spc = "join" /\ spc' = "stopped" /\ wpc = "exited"
        /\ UNCHANGED <<cpc, writerRunning, wpc>>
    BY <1>5 DEF StopJoin
  <2>2. Wakeup!StopJoin
    BY <2>1, WakeupStates DEF Wakeup!StopJoin
  <2> QED
    BY <1>1, <1>2, <2>1, <2>2 DEF Wakeup!Stop, Wakeup!StopEnds
<1> QED
  BY <1>3, <1>4, <1>5 DEF Stop

(* push(), the writer thread and stop() wake one another as RecorderWakeup  *)
(* says, for every ring and period: each of their steps is one of its steps *)
(* or changes nothing that it has.                                          *)
THEOREM ImplementsWakeup == Spec => WakeupProtocol
<1>1. Init => Wakeup!Init
  <2> SUFFICES ASSUME Init PROVE Wakeup!Init
    OBVIOUS
  <2>1. Used = 0
    <3>1. 0 = WordMod * 0 + 0 /\ 0 \in 0..(WordMod - 1)
          /\ WordMod \in Nat \ {0} /\ ringWrite - ringRead = 0
      BY Sizes DEF Init
    <3> QED
      BY <3>1, ModUnique DEF Used
  <2>2. WakeupState = "check"
    BY WakeupStates DEF Init
  <2> QED
    BY <2>1, <2>2 DEF Init, Wakeup!Init
<1>2. IInv /\ [Next]_vars => [Wakeup!Next]_(Wakeup!vars)
  <2> SUFFICES ASSUME IInv, [Next]_vars
               PROVE  Wakeup!Next \/ UNCHANGED Wakeup!vars
    OBVIOUS
  <2>1. CASE Capture
    BY <2>1, CaptureWakeup DEF Wakeup!Next
  <2>2. CASE WriterStep \/ Spurious
    BY <2>2, WriterWakeup DEF Wakeup!Next
  <2>3. CASE Stop
    BY <2>3, StopWakeup DEF Wakeup!Next
  <2>4. CASE UNCHANGED vars
    <3>1. UNCHANGED <<ringWrite, ringRead, period, cpc, wpc, writerRunning,
                      spc>>
      BY <2>4 DEF vars, captureVars
    <3>2. Used' = Used /\ WakeupState' = WakeupState
      BY <3>1, UsedKept, WakeupStates
    <3> QED
      BY <3>1, <3>2 DEF Wakeup!vars
  <2> QED
    BY <2>1, <2>2, <2>3, <2>4 DEF Next
<1> QED
  BY <1>1, <1>2, Invariance, PTL DEF Spec, WakeupProtocol, Wakeup!Spec
-----------------------------------------------------------------------------
(* The recorder as BlockLog sees it: what has passed is what the write      *)
(* buffer continues, and what waits is in the ring or in the write buffer.  *)
LEMMA LogNumbers ==
    ASSUME IInv
    PROVE  /\ Passed = Done /\ Passed \in Nat
           /\ accepted \in Nat /\ Used \in Nat /\ Len(writeBuffer) \in Nat
           /\ chunk = 0 => accepted - Passed = Used + Len(writeBuffer)
<1>1. Passed = Done
  BY DEF IInv, BufferHolds, Passed
<1>2. /\ accepted \in Nat /\ Used \in Nat /\ Done \in Nat
      /\ Len(writeBuffer) \in Nat
  BY Types
<1>3. chunk = 0 => Done = (accepted - Used) - Len(writeBuffer)
  BY <1>2, Numbers DEF Done
<1> QED
  BY <1>1, <1>2, <1>3

LEMMA LogKept ==
    ASSUME UNCHANGED fileVars
    PROVE  UNCHANGED <<Passed, Blocks, fileOpen, framesInBlock>>
BY DEF fileVars, Passed, Blocks

(* Files are blocks, one by one.                                            *)
LEMMA BlocksAre ==
    ASSUME IInv
    PROVE  /\ Blocks \in Seq(Seq(Int)) /\ Len(Blocks) = Len(files)
           /\ DOMAIN Blocks = 1..Len(files) /\ DOMAIN files = 1..Len(files)
           /\ \A i \in 1..Len(files) : Blocks[i] = files[i].frames
<1> DEFINE n == Len(files)
           S == Seq(Int)
<1>1. /\ n \in Nat /\ DOMAIN files = 1..n
      /\ \A i \in 1..n : files[i].frames \in S
  BY FrameNumbers
<1>2. Blocks = [i \in 1..n |-> files[i].frames]
  BY <1>1 DEF Blocks
<1> HIDE DEF n, S
<1>3. Blocks \in Seq(S) /\ Len(Blocks) = n /\ DOMAIN Blocks = 1..n
  BY <1>1, <1>2
<1> QED
  BY <1>1, <1>2, <1>3 DEF n, S

(* Of push() the log sees the moment a period becomes visible.              *)
LEMMA CaptureLog ==
    ASSUME IInv, Capture
    PROVE  (\E n \in Periods : Log!Accept(n)) \/ UNCHANGED Log!vars
<1>1. UNCHANGED <<Passed, Blocks, fileOpen, framesInBlock>>
  BY LogKept DEF Capture
<1>2. CASE accepted' = accepted
  BY <1>1, <1>2 DEF Log!vars
<1>3. CASE PushStore
  <2>1. accepted' = accepted + period * BytesPerFrame
    BY <1>3 DEF PushStore
  <2>2. period \in Periods \/ period = 0
    BY DEF IInv, TypeOK
  <2>3. CASE period \in Periods
    BY <1>1, <2>1, <2>3 DEF Log!Accept
  <2>4. CASE period = 0
    <3>1. 0 * BytesPerFrame = 0 /\ accepted \in Nat
      BY LogNumbers, Sizes
    <3> QED
      BY <1>2, <2>1, <2>4, <3>1
  <2> QED
    BY <2>2, <2>3, <2>4
<1> QED
  BY <1>2, <1>3 DEF Capture, PushDrop, PushCopy, PushNotify, captureVars

(* A file opened is a block begun.                                          *)
LEMMA OpenLog ==
    ASSUME IInv, OpenFile, UNCHANGED accepted
    PROVE  Log!Open
<1> DEFINE f == [name |-> Now, frames |-> << >>]
           n == Len(files)
<1>1. /\ wpc = "frames" /\ Len(writeBuffer) >= BytesPerFrame /\ ~fileOpen
      /\ fileOpen' = TRUE /\ files' = Append(files, f)
      /\ framesInBlock' = 0 /\ Passed' = Passed
  BY DEF OpenFile, Passed
<1>2. accepted - Passed >= BytesPerFrame
  <2>1. chunk = 0
    BY <1>1 DEF IInv, DrainInStep
  <2> QED
    BY <1>1, <2>1, LogNumbers, Sizes
<1>3. files \in Seq([name : Nat, frames : Seq(Int)]) /\ n \in Nat
  BY Types
<1>4. f.frames = << >>
  OBVIOUS
<1> HIDE DEF f
<1>5. /\ DOMAIN files' = 1..(n + 1) /\ files'[n + 1] = f
      /\ \A i \in 1..n : files'[i] = files[i]
  BY <1>1, <1>3
<1>6. Blocks' = Append(Blocks, << >>)
  <2> DEFINE e == << >>
             S == Seq(Int)
  <2>1. /\ Blocks \in Seq(S) /\ Len(Blocks) = n /\ e \in S
        /\ \A i \in 1..n : Blocks[i] = files[i].frames
    BY BlocksAre
  <2>2. Blocks' = [i \in 1..(n + 1) |-> files'[i].frames]
    BY <1>5 DEF Blocks
  <2>3. f.frames = e
    BY <1>4
  <2> HIDE DEF n, e, S
  <2>4. /\ Append(Blocks, e) \in Seq(S) /\ Len(Append(Blocks, e)) = n + 1
        /\ \A i \in 1..n : Append(Blocks, e)[i] = Blocks[i]
        /\ Append(Blocks, e)[n + 1] = e
    BY <2>1, AppendProperties
  <2>5. ASSUME NEW i \in 1..(n + 1)
        PROVE  files'[i].frames = Append(Blocks, e)[i]
    <3>1. CASE i = n + 1
      BY <1>5, <2>3, <2>4, <3>1
    <3>2. CASE i # n + 1
      <4>1. i \in 1..n
        BY <1>3, <3>2
      <4> QED
        BY <1>5, <2>1, <2>4, <4>1
    <3> QED
      BY <3>1, <3>2
  <2>6. Blocks' = Append(Blocks, e)
    <3> DEFINE t == Append(Blocks, e)
    <3>1. t \in Seq(S) /\ Len(t) = n + 1
      BY <2>4
    <3>2. \A i \in 1..(n + 1) : files'[i].frames = t[i]
      BY <2>5
    <3> HIDE DEF t
    <3>3. t = [i \in 1..(n + 1) |-> t[i]]
      BY <3>1
    <3>4. Blocks' = t
      BY <2>2, <3>2, <3>3
    <3> QED
      BY <3>4 DEF t
  <2> QED
    BY <2>6 DEF e
<1> QED
  BY <1>1, <1>2, <1>6 DEF Log!Open, Log!FrameWaiting

(* A batch written is a batch of the stream, from where the last one ended. *)
LEMMA WriteLog ==
    ASSUME IInv, NEW written \in 0..WriteBatch, WriteFrames(written),
           UNCHANGED accepted
    PROVE  \E batch \in 1..BlockFrames :
               \E w \in 0..batch : Log!Write(batch, w)
<1> DEFINE held == Len(writeBuffer)
           b == WriteBatch
           nb == WriteBatch * BytesPerFrame
           n == Len(files)
           new == [k \in 1..written |->
                     writeBuffer[(k - 1) * BytesPerFrame + 1]]
<1>1. /\ wpc = "frames" /\ fileOpen /\ held >= BytesPerFrame
      /\ written = b \/ DiskFails
      /\ files' = [files EXCEPT ![n].frames = @ \o new]
      /\ framesWritten' = framesWritten + written
      /\ lost' = lost + (b - written) * BytesPerFrame
      /\ framesInBlock' = framesInBlock + b
      /\ fileOpen' = (framesInBlock' < BlockFrames)
  BY DEF WriteFrames
<1>2. /\ b \in 1..(BlockFrames - framesInBlock) /\ b \in 1..BlockFrames
      /\ nb \in Nat /\ nb <= held /\ nb = b * BytesPerFrame
      /\ written \in 0..b /\ written \in Nat /\ b \in Nat
  <2>1. /\ b \in Nat /\ 1 <= b /\ framesInBlock \in Nat
        /\ framesInBlock + b <= BlockFrames
        /\ nb \in Nat /\ nb <= held /\ nb = b * BytesPerFrame
    BY <1>1, Batch
  <2> HIDE DEF b, nb, held
  <2> QED
    BY <2>1, Sizes DEF b
<1>3. chunk = 0
  BY <1>1 DEF IInv, DrainInStep
<1> HIDE DEF b, nb, new
<1>4. Passed + nb <= accepted
  BY <1>2, <1>3, LogNumbers
<1>5. Passed' = Passed + nb
  <2>1. /\ framesWritten \in Int /\ written \in Int /\ b \in Int
        /\ lost \in Int
    <3>1. framesWritten \in Nat /\ lost \in Nat
      BY Types
    <3> QED
      BY <1>2, <3>1
  <2>2. PICK x \in Int, y \in Int, z \in Int :
            /\ x = framesWritten * BytesPerFrame
            /\ y = written * BytesPerFrame /\ z = b * BytesPerFrame
    BY <2>1, FrameBytes
  <2>3. (framesWritten + written) * BytesPerFrame = x + y
    BY <2>1, <2>2, FrameBytes
  <2>4. (b - written) * BytesPerFrame = z - y
    BY <2>1, <2>2, FrameBytes
  <2>5. (x + y) + (lost + (z - y)) = (x + lost) + z
    BY <2>1, <2>2
  <2>6. Passed' = (x + y) + (lost + (z - y))
    BY <1>1, <2>3, <2>4 DEF Passed
  <2> QED
    BY <1>2, <2>2, <2>5, <2>6 DEF Passed
<1>6. new = [k \in 1..written |-> Passed + (k - 1) * BytesPerFrame]
  <2>1. ASSUME NEW k \in 1..written
        PROVE  writeBuffer[(k - 1) * BytesPerFrame + 1]
                   = Passed + (k - 1) * BytesPerFrame
    <3>1. k - 1 \in Nat /\ k - 1 < b
      BY <1>2
    <3>2. (k - 1) * BytesPerFrame + BytesPerFrame <= b * BytesPerFrame
      BY <1>2, <3>1, FrameBytes
    <3>3. PICK o \in Nat : o = (k - 1) * BytesPerFrame
      BY <3>1, FrameBytes
    <3>4. o + 1 \in 1..held
      BY <1>2, <3>2, <3>3, LogNumbers, Sizes
    <3>5. writeBuffer[o + 1] = Passed + (o + 1) - 1
      BY <3>4, LogNumbers DEF IInv, BufferHolds
    <3>6. Passed + (o + 1) - 1 = Passed + o
      BY LogNumbers
    <3> QED
      BY <3>3, <3>5, <3>6
  <2> QED
    BY <2>1 DEF new
<1>7. Blocks' = [Blocks EXCEPT ![Len(Blocks)] = @ \o new]
  <2>1. /\ DOMAIN Blocks = 1..n /\ DOMAIN files = 1..n /\ Len(Blocks) = n
        /\ \A i \in 1..n : Blocks[i] = files[i].frames
    BY BlocksAre
  <2>2. n \in 1..n
    <3>1. n >= 1 /\ n \in Nat
      BY <1>1, Types DEF IInv, FileInStep
    <3> HIDE DEF n
    <3> QED
      BY <3>1
  <2> HIDE DEF n
  <2>3. /\ DOMAIN files' = 1..n
        /\ files'[n].frames = files[n].frames \o new
        /\ \A i \in 1..n : i # n => files'[i] = files[i]
    <3>1. files[n] \in [name : Nat, frames : Seq(Int)]
      BY <2>1, <2>2, FrameNumbers
    <3> QED
      BY <1>1, <2>1, <2>2, <3>1
  <2>4. Blocks' = [i \in 1..n |-> files'[i].frames]
    BY <2>3 DEF Blocks
  <2>5. [Blocks EXCEPT ![n] = @ \o new]
            = [i \in 1..n |-> IF i = n THEN Blocks[n] \o new ELSE Blocks[i]]
    <3>1. Blocks = [i \in 1..n |-> Blocks[i]]
      BY <2>1 DEF Blocks
    <3> QED
      BY <2>1, <2>2, <3>1
  <2> QED
    BY <2>1, <2>2, <2>3, <2>4, <2>5
<1>8. Log!Write(b, written)
  BY <1>1, <1>2, <1>4, <1>5, <1>6, <1>7 DEF Log!Write
<1> QED
  BY <1>2, <1>8

(* The steps of the writer thread.                                          *)
LEMMA WriterLog ==
    ASSUME IInv, WriterStep \/ Spurious
    PROVE  Log!Next \/ UNCHANGED Log!vars
<1>1. UNCHANGED accepted
  BY DEF WriterStep, Spurious, captureVars
<1>2. CASE OpenFile
  BY <1>1, <1>2, OpenLog DEF Log!Next
<1>3. CASE \E written \in 0..WriteBatch : WriteFrames(written)
  BY <1>1, <1>3, WriteLog DEF Log!Next
<1>4. CASE OpenFails
  <2> DEFINE held == Len(writeBuffer)
  <2>1. /\ wpc = "frames" /\ held >= BytesPerFrame /\ DiskFails /\ ~fileOpen
        /\ lost' = lost + held
        /\ UNCHANGED <<fileOpen, files, framesInBlock, framesWritten>>
    BY <1>4 DEF OpenFails
  <2>2. chunk = 0
    BY <2>1 DEF IInv, DrainInStep
  <2>3. held \in BytesPerFrame..(accepted - Passed)
        /\ held \in 1..(accepted - Passed)
    <3>1. accepted - Passed = Used + held /\ Used \in Nat /\ held \in Nat
      BY <2>2, LogNumbers
    <3> HIDE DEF held
    <3> QED
      BY <2>1, <3>1, Sizes
  <2>4. Passed' = Passed + held
    <3>1. /\ framesWritten * BytesPerFrame \in Int
          /\ lost \in Int /\ held \in Int
      <4>1. framesWritten \in Nat /\ lost \in Nat /\ held \in Nat
        BY Types
      <4> QED
        BY <4>1, FrameBytes
    <3> HIDE DEF held
    <3> QED
      BY <2>1, <3>1 DEF Passed
  <2>5. Blocks' = Blocks
    BY <2>1 DEF Blocks
  <2>6. Log!Lose(held)
    BY <1>1, <2>1, <2>3, <2>4, <2>5 DEF Log!Lose
  <2> QED
    BY <2>3, <2>6 DEF Log!Next
<1>5. CASE LeaveOrWait
  <2>1. /\ wpc = "drained"
        /\ wpc' = IF ~writerRunning /\ Used = 0 THEN "exited" ELSE "check"
        /\ fileOpen' = (fileOpen /\ wpc' = "check")
        /\ UNCHANGED <<files, framesInBlock, framesWritten, lost>>
    BY <1>5 DEF LeaveOrWait
  <2>2. Passed' = Passed /\ Blocks' = Blocks
    BY <2>1 DEF Passed, Blocks
  <2>3. fileOpen \in BOOLEAN
    BY DEF IInv, TypeOK
  <2>4. CASE fileOpen' = fileOpen
    BY <1>1, <2>1, <2>2, <2>4 DEF Log!vars
  <2>5. CASE fileOpen' # fileOpen
    <3>1. fileOpen /\ fileOpen' = FALSE /\ Used = 0
      BY <2>1, <2>3, <2>5
    <3>2. chunk = 0 /\ Len(writeBuffer) < BytesPerFrame
      BY <2>1 DEF IInv, DrainInStep
    <3>3. ~(accepted - Passed >= BytesPerFrame)
      BY <3>1, <3>2, LogNumbers, Sizes
    <3>4. Log!Close
      BY <1>1, <2>1, <2>2, <3>1, <3>3 DEF Log!Close, Log!FrameWaiting
    <3> QED
      BY <3>4 DEF Log!Next
  <2> QED
    BY <2>4, <2>5
<1>6. CASE UNCHANGED fileVars
  BY <1>1, <1>6, LogKept DEF Log!vars
<1> QED
  BY <1>2, <1>3, <1>4, <1>5, <1>6
     DEF WriterStep, Spurious, WaitCheck, FallAsleep, SpuriousWake, DrainCopy,
         DrainRelease, RingEmpty, FramesDone

(* Through ring, wraps, refills of the write buffer and disk errors the     *)
(* files are a log of the stream push() accepted, for every geometry: a     *)
(* file is begun only for a frame that is there, a batch goes on where the  *)
(* last one ended, a full block is closed at once and the last one only     *)
(* when no whole frame waits in ring or buffer.                             *)
THEOREM ImplementsLog == Spec => FilesAreALog
<1>1. Init => Log!Init
  <2> SUFFICES ASSUME Init PROVE Log!Init
    OBVIOUS
  <2>1. Passed = 0
    <3>1. 0 * BytesPerFrame + 0 = 0
      BY Sizes
    <3> QED
      BY <3>1 DEF Init, Passed
  <2>2. Blocks = << >>
    BY DEF Init, Blocks
  <2> QED
    BY <2>1, <2>2 DEF Init, Log!Init
<1>2. IInv /\ [Next]_vars => [Log!Next]_(Log!vars)
  <2> SUFFICES ASSUME IInv, [Next]_vars
               PROVE  Log!Next \/ UNCHANGED Log!vars
    OBVIOUS
  <2>1. CASE Capture
    BY <2>1, CaptureLog DEF Log!Next
  <2>2. CASE WriterStep \/ Spurious
    BY <2>2, WriterLog
  <2>3. CASE Stop \/ UNCHANGED vars
    <3>1. UNCHANGED accepted /\ UNCHANGED fileVars
      BY <2>3 DEF Stop, StopRest, captureVars, vars
    <3> QED
      BY <3>1, LogKept DEF Log!vars
  <2> QED
    BY <2>1, <2>2, <2>3 DEF Next
<1> QED
  BY <1>1, <1>2, Invariance, PTL DEF Spec, FilesAreALog, Log!Spec
=============================================================================
