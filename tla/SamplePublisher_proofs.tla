------------------------ MODULE SamplePublisher_proofs ------------------------
(***************************************************************************)
(* The safety of the shared segment and of its lock-free readers, for areas *)
(* of every size and any number of readers, periods, crashes and restarts.  *)
(***************************************************************************)
EXTENDS SamplePublisher, TLAPS

Header == [counter : 0..MaxPeriods, period : 0..MaxPeriods,
           stamp : 0..MaxPeriods]
Segment == [magic : BOOLEAN, frames : {0, Words}, header : Header,
            data : [Area -> 0..MaxPeriods]]
Seen == [period : 0..MaxPeriods, stamp : 0..MaxPeriods,
         data : Seq(0..MaxPeriods)]
States == {"down", "open", "cleared", "magic", "idle", "data"}

(* What the publisher leaves to the readers.                                *)
own == <<seg, size, last, rpc, seen, newest>>

(* Period p, of length n, has reached every word of d it is long enough for. *)
Covers(d, n, p) == \A w \in Area : w <= n => d[w] >= p

(* Besides, no later period has touched d.                                  *)
IsPeriod(d, n, p) ==
    \A w \in Area : IF w <= n THEN d[w] = p ELSE d[w] < p

(* The publisher has a segment as long as it lives.                         *)
Mapping == ppc # "down" => mapped # 0 /\ mapped = linked

(* A segment, whoever maps it and however it was left behind: its counter   *)
(* names a period whose samples are there, and the timestamp tells whether  *)
(* a later one has begun.                                                   *)
SegmentInStep(s) ==
    LET h == shm[s].header
    IN /\ h.counter <= Current
       /\ h.period <= h.stamp /\ h.stamp <= Current
       /\ \A w \in Area : shm[s].data[w] <= Current
       /\ h.period # 0 => Covers(shm[s].data, periods[h.period], h.period)
       /\ h.period # 0 /\ h.stamp = h.period =>
              IsPeriod(shm[s].data, periods[h.period], h.period)

(* publish(), between the timestamp and the counter.                        *)
PublishInStep ==
    /\ counter <= Current
    /\ ppc = "data" =>
         /\ Current > 0
         /\ unwritten \subseteq 1..periods[Current]
         /\ shm[mapped].header.stamp = Current
         /\ shm[mapped].header.period < Current
         /\ \A w \in Area :
              IF w <= periods[Current] /\ w \notin unwritten
              THEN shm[mapped].data[w] = Current
              ELSE shm[mapped].data[w] < Current

(* A reader that has learned of a period: its segment still holds that      *)
(* period's samples or later ones, however the daemon has ended since; and  *)
(* what it has copied are such samples, the period's own ones if nobody got *)
(* in between.                                                              *)
ReaderInStep(r) ==
    LET p == seen[r].period
        n == newest[r]
        d == seen[r].data
        g == shm[seg[r]]
    IN /\ seg[r] = 0 => size[r] = Unread
       /\ size[r] = Unread => rpc[r] = "poll" /\ p = 0 /\ n = 0
       /\ rpc[r] = "stamp" => d = << >>
       /\ rpc[r] = "data" => Len(d) < size[r]
       /\ n <= Current
       /\ p # 0 => p = n
       /\ n # 0 => /\ g.header.stamp >= n \/ g.header.stamp = 0
                   /\ Covers(g.data, periods[n], n)
       /\ p # 0 =>
            /\ rpc[r] # "stamp" => seen[r].stamp >= p \/ seen[r].stamp = 0
            /\ \A w \in 1..Len(d) : w <= periods[p] => d[w] >= p
            /\ rpc[r] = "poll" => Len(d) = size[r]
       /\ p # 0 /\ ~disturbed[r] =>
            /\ g.header.stamp = p
            /\ IsPeriod(g.data, periods[p], p)
            /\ rpc[r] # "stamp" => seen[r].stamp = p
            /\ \A w \in 1..Len(d) : d[w] = g.data[w]

IInv ==
    /\ TypeOK
    /\ seen \in [Readers -> Seen]
    /\ Mapping
    /\ \A s \in 1..MaxStarts : SegmentInStep(s)
    /\ PublishInStep
    /\ \A r \in Readers : ReaderInStep(r)

-----------------------------------------------------------------------------
(* TypeOK, in the names of this module.                                     *)
LEMMA Types ==
    IInv => /\ shm \in [1..MaxStarts -> Segment]
            /\ linked \in 0..MaxStarts /\ mapped \in 0..MaxStarts
            /\ starts \in 0..MaxStarts /\ counter \in 0..MaxPeriods
            /\ periods \in Seq(Area) /\ Current \in 0..MaxPeriods
            /\ seg \in [Readers -> 0..MaxStarts]
            /\ size \in [Readers -> {Unread, 0, Words}] /\ Unread = -1
            /\ newest \in [Readers -> 0..MaxPeriods]
            /\ seen \in [Readers -> Seen]
            /\ Words \in Nat \ {0} /\ MaxPeriods \in Nat /\ MaxStarts \in Nat
BY PublisherAssumption DEF IInv, TypeOK, Segment, Header, Seen, Current, Unread

(* What a segment holds are numbers of periods.                             *)
LEMMA SegmentNumbers ==
    ASSUME NEW g \in Segment
    PROVE  /\ g.header \in Header
           /\ g.header.counter \in Nat /\ g.header.period \in Nat
           /\ g.header.stamp \in Nat
           /\ \A w \in Area : g.data[w] \in Nat
<1>1. g.header \in Header /\ g.data \in [Area -> 0..MaxPeriods]
  BY DEF Segment
<1> QED
  BY <1>1 DEF Header

(* No segment is in use before the first run.                               *)
LEMMA InitIInv == Init => IInv
<1> SUFFICES ASSUME Init PROVE IInv
  OBVIOUS
<1> USE PublisherAssumption DEF Init
<1>1. Current = 0
  BY DEF Current
<1>2. TypeOK
  <2>1. Fresh \in Segment
    BY DEF Fresh, Zeroed, Segment, Header
  <2>2. shm \in [1..MaxStarts -> Segment]
    BY <2>1
  <2>3. \A r \in Readers : seen[r].data = << >>
    BY DEF Nothing
  <2>4. /\ << >> \in Seq(Area) /\ << >> \in Seq(0..MaxPeriods)
        /\ Len(<< >>) <= Words
    OBVIOUS
  <2>5. \A r \in Readers :
            seen[r].data \in Seq(0..MaxPeriods) /\ Len(seen[r].data) <= Words
    BY <2>3, <2>4, Zenon
  <2>6. periods \in Seq(Area) /\ Current <= MaxPeriods
    BY <1>1, <2>4
  <2>7. /\ linked \in 0..MaxStarts /\ mapped \in {0, linked}
        /\ starts \in 0..MaxStarts /\ counter \in 0..MaxPeriods
        /\ ppc \in States /\ unwritten \subseteq Area
    BY DEF States
  <2>8. /\ seg \in [Readers -> 0..MaxStarts]
        /\ size \in [Readers -> {Unread, 0, Words}]
        /\ last \in [Readers -> 0..MaxPeriods]
        /\ newest \in [Readers -> 0..MaxPeriods]
        /\ rpc \in [Readers -> {"poll", "stamp", "data"}]
        /\ disturbed \in [Readers -> BOOLEAN]
    OBVIOUS
  <2> HIDE DEF Init
  <2> QED
    BY <2>2, <2>5, <2>6, <2>7, <2>8 DEF TypeOK, Segment, Header, States
<1>3. seen \in [Readers -> Seen]
  BY DEF Nothing, Seen
<1>4. \A s \in 1..MaxStarts : SegmentInStep(s)
  BY <1>1 DEF SegmentInStep, Fresh, Zeroed, Area
<1>5. \A r \in Readers : ReaderInStep(r)
  BY <1>1 DEF ReaderInStep, Nothing
<1> QED
  BY <1>1, <1>2, <1>3, <1>4, <1>5 DEF IInv, Mapping, PublishInStep

-----------------------------------------------------------------------------
(* What the publisher, a crash or a restart may do to a reader: periods are *)
(* only added, words only get newer, and the timestamp is reset or set to   *)
(* the newest period.                                                       *)
GrowsAt(s) ==
    /\ \/ shm'[s].header.stamp \in {0, shm[s].header.stamp}
       \/ shm'[s].header.stamp >= Current
    /\ \A w \in Area : shm'[s].data[w] >= shm[s].data[w]

Grows ==
    /\ Current <= Current'
    /\ \A p \in 1..Current : periods'[p] = periods[p]
    /\ \A s \in 1..MaxStarts : GrowsAt(s)

(* The history variable is what Publisher says of it.                       *)
Watched ==
    disturbed' = [r \in Readers |->
        disturbed[r] \/ (seg[r] # 0 /\ shm'[seg[r]] # shm[seg[r]])]

(* A read under way stays in step with a publisher that only adds.          *)
LEMMA ReadersKept ==
    ASSUME IInv, TypeOK', Grows, Watched, UNCHANGED own,
           NEW r \in Readers
    PROVE  ReaderInStep(r)'
<1> DEFINE p == seen[r].period
           n == newest[r]
           s == seg[r]
<1>1. /\ shm \in [1..MaxStarts -> Segment] /\ periods \in Seq(Area)
      /\ Current \in Nat /\ s \in 0..MaxStarts /\ seen[r] \in Seen
      /\ n \in Nat /\ Words \in Nat \ {0} /\ MaxStarts \in Nat
  BY Types
<1>2. ReaderInStep(r)
  BY DEF IInv
<1>3. /\ shm' \in [1..MaxStarts -> Segment] /\ periods' \in Seq(Area)
      /\ Current' \in Nat
  <2>1. Len(periods') \in Nat
    BY DEF TypeOK
  <2>2. shm' \in [1..MaxStarts -> Segment] /\ periods' \in Seq(Area)
    BY DEF TypeOK, Segment, Header
  <2> QED
    BY <2>1, <2>2 DEF Current
<1>4. n <= Current /\ n <= Current' /\ (p # 0 => p = n)
  BY <1>1, <1>2, <1>3 DEF Grows, ReaderInStep
<1>5. n # 0 => s \in 1..MaxStarts /\ periods'[n] = periods[n]
  BY <1>1, <1>2, <1>4 DEF ReaderInStep, Grows
<1>6. ASSUME n # 0 PROVE Covers(shm'[s].data, periods'[n], n)
  <2>1. SUFFICES ASSUME NEW w \in Area, w <= periods[n]
                 PROVE  shm'[s].data[w] >= n
    BY <1>5, <1>6 DEF Covers
  <2>2. shm[s].data[w] >= n
    BY <1>2, <1>6, <2>1 DEF ReaderInStep, Covers
  <2>3. shm'[s].data[w] >= shm[s].data[w]
    BY <1>5, <1>6 DEF Grows, GrowsAt
  <2>4. shm[s].data[w] \in Int /\ shm'[s].data[w] \in Int
    BY <1>1, <1>3, <1>5, <1>6, SegmentNumbers
  <2> QED
    BY <1>1, <2>2, <2>3, <2>4
<1>7. ASSUME n # 0
      PROVE shm'[s].header.stamp >= n \/ shm'[s].header.stamp = 0
  <2>1. shm[s].header.stamp >= n \/ shm[s].header.stamp = 0
    BY <1>2, <1>7 DEF ReaderInStep
  <2>2. \/ shm'[s].header.stamp \in {0, shm[s].header.stamp}
        \/ shm'[s].header.stamp >= Current
    BY <1>5, <1>7 DEF Grows, GrowsAt
  <2>3. shm'[s].header.stamp \in Int
    BY <1>3, <1>5, <1>7 DEF Segment, Header
  <2> QED
    BY <1>1, <1>4, <2>1, <2>2, <2>3
<1>8. ~disturbed'[r] /\ s # 0 => ~disturbed[r] /\ shm'[s] = shm[s]
  BY DEF Watched, own
<1>9. ASSUME p # 0, ~disturbed'[r]
      PROVE  shm'[s].header.stamp = p /\ IsPeriod(shm'[s].data, periods'[p], p)
  <2>1. s # 0 /\ periods'[p] = periods[p]
    BY <1>1, <1>4, <1>5, <1>9
  <2>2. shm'[s] = shm[s] /\ ~disturbed[r]
    BY <1>8, <1>9, <2>1
  <2> QED
    BY <1>2, <1>9, <2>1, <2>2 DEF ReaderInStep
<1>10. ASSUME p # 0, ~disturbed'[r], NEW w \in 1..Len(seen[r].data)
       PROVE  seen[r].data[w] = shm'[s].data[w]
  <2>1. s # 0
    BY <1>1, <1>4, <1>5, <1>10
  <2>2. shm'[s] = shm[s] /\ ~disturbed[r]
    BY <1>8, <1>10, <2>1
  <2> QED
    BY <1>2, <1>10, <2>2 DEF ReaderInStep
<1>11. /\ seg'[r] = s /\ size'[r] = size[r] /\ rpc'[r] = rpc[r]
       /\ seen'[r] = seen[r] /\ newest'[r] = n
       /\ p # 0 => periods'[p] = periods[p]
       /\ p # 0 /\ ~disturbed'[r] => ~disturbed[r]
  BY <1>4, <1>5, <1>8 DEF own
<1> HIDE DEF n, s
<1> QED
  BY <1>2, <1>4, <1>6, <1>7, <1>9, <1>10, <1>11 DEF ReaderInStep, n, s

(* What a step of the publisher has to keep besides the readers.            *)
PublisherInStep ==
    /\ TypeOK
    /\ Mapping
    /\ \A s \in 1..MaxStarts : SegmentInStep(s)
    /\ PublishInStep

(* TypeOK after a step of the publisher: its own variables are left.        *)
LEMMA PublisherTypes ==
    ASSUME IInv, Watched, UNCHANGED own,
           shm' \in [1..MaxStarts -> Segment],
           linked' \in 0..MaxStarts, mapped' \in {0, linked'},
           starts' \in 0..MaxStarts, counter' \in 0..MaxPeriods,
           periods' \in Seq(Area), Current' <= MaxPeriods,
           ppc' \in States,
           unwritten' \subseteq Area
    PROVE  TypeOK'
<1>1. disturbed' \in [Readers -> BOOLEAN]
  BY DEF Watched, IInv, TypeOK, own
<1>2. /\ seg' \in [Readers -> 0..MaxStarts]
      /\ size' \in [Readers -> {Unread, 0, Words}]
      /\ last' \in [Readers -> 0..MaxPeriods]
      /\ newest' \in [Readers -> 0..MaxPeriods]
      /\ rpc' \in [Readers -> {"poll", "stamp", "data"}]
      /\ \A r \in Readers :
           seen'[r].data \in Seq(0..MaxPeriods) /\ Len(seen'[r].data) <= Words
  BY DEF IInv, TypeOK, own
<1> QED
  BY <1>1, <1>2 DEF TypeOK, Segment, Header, States

(* A segment nobody writes stays in step when periods are added.            *)
LEMMA SegmentKept ==
    ASSUME IInv, NEW s \in 1..MaxStarts, shm'[s] = shm[s],
           Current' \in Nat, Current <= Current',
           \A p \in 1..Current : periods'[p] = periods[p]
    PROVE  SegmentInStep(s)' /\ GrowsAt(s)
<1> DEFINE h == shm[s].header
<1>1. SegmentInStep(s)
  BY DEF IInv
<1>2. /\ shm[s] \in Segment /\ Current \in Nat
  BY Types
<1>3. /\ h.counter \in Nat /\ h.period \in Nat /\ h.stamp \in Nat
      /\ \A w \in Area : shm[s].data[w] \in Nat
  BY <1>2, SegmentNumbers
<1>4. /\ h.counter <= Current' /\ h.period <= h.stamp /\ h.stamp <= Current'
      /\ \A w \in Area : shm[s].data[w] <= Current'
  BY <1>1, <1>2, <1>3 DEF SegmentInStep
<1>5. h.period # 0 => periods'[h.period] = periods[h.period]
  BY <1>1, <1>2, <1>3 DEF SegmentInStep
<1>6. GrowsAt(s)
  BY <1>3 DEF GrowsAt
<1> QED
  BY <1>1, <1>4, <1>5, <1>6 DEF SegmentInStep

(* Nothing is written, nothing is added: every segment stays in step.       *)
LEMMA SegmentsKept ==
    ASSUME IInv, UNCHANGED <<shm, periods>>
    PROVE  Grows /\ \A s \in 1..MaxStarts : SegmentInStep(s)'
<1>1. Current' = Current /\ Current \in Nat
  BY Types DEF Current
<1>2. \A s \in 1..MaxStarts : SegmentInStep(s)' /\ GrowsAt(s)
  BY <1>1, SegmentKept
<1> QED
  BY <1>1, <1>2 DEF Grows

(* A new run maps a new segment, or the one a crash has left behind.        *)
LEMMA OpenStep ==
    ASSUME IInv, Open, Watched, UNCHANGED own
    PROVE  PublisherInStep' /\ Grows
<1> USE DEF Open
<1>1. Grows /\ \A s \in 1..MaxStarts : SegmentInStep(s)'
  BY SegmentsKept
<1>2. starts' \in 1..MaxStarts /\ linked' \in 1..MaxStarts /\ mapped' = linked'
  BY Types
<1>3. Current' = Current /\ Current \in 0..MaxPeriods
  BY Types DEF Current
<1>4. unwritten \subseteq Area
  BY DEF IInv, TypeOK
<1>5. TypeOK'
  <2>1. /\ shm' \in [1..MaxStarts -> Segment]
        /\ starts' \in 0..MaxStarts /\ counter' \in 0..MaxPeriods
        /\ linked' \in 0..MaxStarts /\ mapped' \in {0, linked'}
        /\ periods' \in Seq(Area) /\ Current' <= MaxPeriods
    BY <1>2, <1>3, Types
  <2> QED
    BY <1>4, <2>1, PublisherTypes DEF States
<1>6. Mapping'
  BY <1>2 DEF Mapping
<1>7. PublishInStep'
  BY <1>3 DEF PublishInStep
<1> QED
  BY <1>1, <1>5, <1>6, <1>7 DEF PublisherInStep

(* The end of a run, orderly or not, leaves the samples as they are.        *)
LEMMA EndStep ==
    ASSUME IInv, Cleanup \/ Crash, Watched, UNCHANGED own
    PROVE  PublisherInStep' /\ Grows
<1>1. /\ UNCHANGED <<shm, starts, counter, periods>>
      /\ linked' \in {0, linked} /\ mapped' = 0 /\ ppc' = "down"
      /\ unwritten' \subseteq unwritten
  BY DEF Cleanup, Crash
<1>2. Grows /\ \A s \in 1..MaxStarts : SegmentInStep(s)'
  BY <1>1, SegmentsKept
<1>3. Current' = Current /\ Current \in 0..MaxPeriods
  BY <1>1, Types DEF Current
<1>4. TypeOK'
  <2>1. unwritten' \subseteq Area
    BY <1>1 DEF IInv, TypeOK
  <2>2. /\ shm' \in [1..MaxStarts -> Segment]
        /\ starts' \in 0..MaxStarts /\ counter' \in 0..MaxPeriods
        /\ linked' \in 0..MaxStarts /\ mapped' \in {0, linked'}
        /\ periods' \in Seq(Area) /\ Current' <= MaxPeriods
    BY <1>1, <1>3, Types
  <2> QED
    BY <1>1, <2>1, <2>2, PublisherTypes DEF States
<1>5. Mapping'
  BY <1>1 DEF Mapping
<1>6. PublishInStep'
  <2>1. counter <= Current
    BY DEF IInv, PublishInStep
  <2> QED
    BY <1>1, <1>3, <2>1 DEF PublishInStep
<1> QED
  BY <1>2, <1>4, <1>5, <1>6 DEF PublisherInStep

(* A live publisher has a segment of its own.                               *)
LEMMA MappedSegment ==
    ASSUME IInv, ppc # "down"
    PROVE  /\ mapped \in 1..MaxStarts /\ shm[mapped] \in Segment
           /\ SegmentInStep(mapped) /\ mapped = linked
<1>1. mapped \in 1..MaxStarts /\ mapped = linked
  BY Types DEF IInv, Mapping
<1> QED
  BY <1>1, Types DEF IInv

(* Clearing the header hides the samples a crashed run has left; writing    *)
(* the magic and the size changes neither.                                  *)
HeaderSteps == ClearHeader \/ WriteMagic \/ WriteFrames

LEMMA HeaderChange ==
    ASSUME IInv, HeaderSteps
    PROVE  /\ mapped \in 1..MaxStarts /\ mapped = linked
           /\ shm' \in [1..MaxStarts -> Segment]
           /\ shm'[mapped].data = shm[mapped].data
           /\ ClearHeader => shm'[mapped].header = Zeroed
           /\ ~ClearHeader => shm'[mapped].header = shm[mapped].header
           /\ \A s \in 1..MaxStarts : s # mapped => shm'[s] = shm[s]
           /\ UNCHANGED <<linked, mapped, starts, counter, periods, unwritten>>
           /\ ppc \in {"open", "cleared", "magic"}
           /\ ppc' \in {"cleared", "magic", "idle"}
<1> USE DEF HeaderSteps
<1>1. /\ UNCHANGED <<linked, mapped, starts, counter, periods, unwritten>>
      /\ ppc \in {"open", "cleared", "magic"}
      /\ ppc' \in {"cleared", "magic", "idle"}
      /\ ClearHeader <=> ppc = "open"
  BY DEF ClearHeader, WriteMagic, WriteFrames
<1>2. /\ mapped \in 1..MaxStarts /\ mapped = linked
      /\ shm[mapped] \in Segment /\ shm \in [1..MaxStarts -> Segment]
      /\ Words \in Nat
  BY <1>1, MappedSegment, Types
<1>3. CASE ClearHeader
  <2>1. shm' = [shm EXCEPT ![mapped].magic = FALSE, ![mapped].frames = 0,
                           ![mapped].header = Zeroed]
    BY <1>3 DEF ClearHeader
  <2>2. Zeroed \in Header
    BY PublisherAssumption DEF Zeroed, Header
  <2> QED
    BY <1>1, <1>2, <1>3, <2>1, <2>2 DEF Segment
<1>4. CASE WriteMagic
  <2>1. shm' = [shm EXCEPT ![mapped].magic = TRUE] /\ ~ClearHeader
    BY <1>1, <1>4 DEF WriteMagic
  <2> QED
    BY <1>1, <1>2, <2>1 DEF Segment
<1>5. CASE WriteFrames
  <2>1. shm' = [shm EXCEPT ![mapped].frames = Words] /\ ~ClearHeader
    BY <1>1, <1>5 DEF WriteFrames
  <2> QED
    BY <1>1, <1>2, <2>1 DEF Segment
<1> QED
  BY <1>3, <1>4, <1>5

LEMMA HeaderStep ==
    ASSUME IInv, HeaderSteps, Watched, UNCHANGED own
    PROVE  PublisherInStep' /\ Grows
<1>1. PICK m \in 1..MaxStarts : m = mapped
  BY HeaderChange
<1>2. /\ UNCHANGED <<linked, mapped, starts, counter, periods, unwritten>>
      /\ ppc' # "data" /\ ppc' \in States /\ m = linked /\ m # 0
      /\ shm' \in [1..MaxStarts -> Segment]
      /\ shm'[m].data = shm[m].data
      /\ shm'[m].header \in {Zeroed, shm[m].header}
      /\ \A s \in 1..MaxStarts : s # m => shm'[s] = shm[s]
  BY <1>1, HeaderChange, PublisherAssumption DEF States
<1>3. Current' = Current /\ Current \in 0..MaxPeriods
  BY <1>2, Types DEF Current
<1>4. SegmentInStep(m) /\ \A w \in Area : shm[m].data[w] \in Nat
  <2>1. shm[m] \in Segment
    BY Types
  <2> QED
    BY <1>1, <2>1, SegmentNumbers DEF IInv
<1>5. TypeOK'
  <2>1. /\ unwritten' \subseteq Area
        /\ linked' \in 0..MaxStarts /\ mapped' \in {0, linked'}
    BY <1>2 DEF IInv, TypeOK
  <2>2. /\ starts' \in 0..MaxStarts /\ counter' \in 0..MaxPeriods
        /\ periods' \in Seq(Area) /\ Current' <= MaxPeriods
    BY <1>2, <1>3, Types
  <2> QED
    BY <1>2, <2>1, <2>2, PublisherTypes
<1>6. Current <= Current' /\ Current' \in Nat
  BY <1>3
<1>7. SegmentInStep(m)' /\ GrowsAt(m)
  <2>1. CASE shm'[m].header = Zeroed
    <3>1. /\ shm'[m].header.counter = 0 /\ shm'[m].header.period = 0
          /\ shm'[m].header.stamp = 0
      BY <2>1 DEF Zeroed
    <3>2. \A w \in Area : shm'[m].data[w] <= Current'
      BY <1>2, <1>3, <1>4 DEF SegmentInStep
    <3> QED
      BY <1>2, <1>4, <1>6, <3>1, <3>2 DEF SegmentInStep, GrowsAt
  <2>2. CASE shm'[m].header = shm[m].header
    BY <1>2, <1>3, <1>4, <2>2 DEF SegmentInStep, GrowsAt
  <2> QED
    BY <1>2, <2>1, <2>2
<1>8. \A s \in 1..MaxStarts : SegmentInStep(s)' /\ GrowsAt(s)
  <2> SUFFICES ASSUME NEW s \in 1..MaxStarts, s # m
               PROVE  SegmentInStep(s)' /\ GrowsAt(s)
    BY <1>7
  <2> QED
    BY <1>2, <1>6, SegmentKept
<1>9. Mapping'
  BY <1>1, <1>2 DEF Mapping
<1>10. PublishInStep'
  <2>1. counter <= Current
    BY DEF IInv, PublishInStep
  <2> QED
    BY <1>2, <1>3, <2>1 DEF PublishInStep
<1> QED
  BY <1>2, <1>5, <1>6, <1>8, <1>9, <1>10 DEF PublisherInStep, Grows

(* A period is begun: the timestamp tells it from the one the counter       *)
(* names, and its number is larger than anything in the segment.            *)
LEMMA BeginStep ==
    ASSUME IInv, NEW n \in 1..(Words + 1), PublishBegin(n), Watched,
           UNCHANGED own
    PROVE  PublisherInStep' /\ Grows
<1> DEFINE len == IF n > Words THEN Words ELSE n
<1>1. PICK m \in 1..MaxStarts :
          /\ m = mapped /\ m = linked /\ m # 0
          /\ shm[m] \in Segment /\ SegmentInStep(m)
  BY MappedSegment, PublisherAssumption DEF PublishBegin
<1>2. /\ UNCHANGED <<linked, mapped, starts>>
      /\ Current < MaxPeriods /\ counter' = counter + 1
      /\ periods' = Append(periods, len)
      /\ unwritten' = 1..periods'[Current + 1]
      /\ ppc' = "data"
  BY <1>1 DEF PublishBegin
<1>3. /\ len \in Area /\ periods \in Seq(Area) /\ Current \in 0..MaxPeriods
      /\ counter \in Nat /\ counter <= Current
  BY Types DEF Area, IInv, PublishInStep
<1> HIDE DEF len
<1>4. /\ Current' = Current + 1 /\ periods'[Current + 1] = len
      /\ periods' \in Seq(Area)
      /\ \A p \in 1..Current : periods'[p] = periods[p]
  BY <1>2, <1>3 DEF Current
<1>5. /\ shm[m].header \in Header /\ shm[m].data \in [Area -> 0..MaxPeriods]
      /\ shm[m].header.counter \in Nat /\ shm[m].header.period \in Nat
      /\ shm[m].header.stamp \in Nat /\ \A w \in Area : shm[m].data[w] \in Nat
  BY <1>1, SegmentNumbers DEF Segment
<1>5a. /\ shm \in [1..MaxStarts -> Segment]
       /\ shm' = [shm EXCEPT ![m].header.stamp = Current + 1]
  BY <1>1, Types DEF PublishBegin
<1>6. /\ shm'[m].header = [shm[m].header EXCEPT !.stamp = Current + 1]
      /\ shm'[m].data = shm[m].data
      /\ \A s \in 1..MaxStarts : s # m => shm'[s] = shm[s]
  BY <1>1, <1>5a DEF Segment
<1>7. /\ shm'[m].header.stamp = Current + 1
      /\ shm'[m].header.period = shm[m].header.period
      /\ shm'[m].header.counter = shm[m].header.counter
  BY <1>5, <1>6 DEF Header
<1>8. shm' \in [1..MaxStarts -> Segment]
  <2>1. Current + 1 \in 0..MaxPeriods
    BY <1>2, <1>3, Types
  <2>2. [shm[m].header EXCEPT !.stamp = Current + 1] \in Header
    BY <1>5, <2>1 DEF Header
  <2> QED
    BY <1>1, <1>5a, <2>2 DEF Segment
<1>9. unwritten' = 1..len /\ unwritten' \subseteq Area
  <2>1. unwritten' = 1..len
    BY <1>2, <1>4
  <2> QED
    BY <1>3, <2>1, Types DEF Area
<1>10. TypeOK'
  <2>1. linked' \in 0..MaxStarts /\ mapped' \in {0, linked'}
    BY <1>2 DEF IInv, TypeOK
  <2>2. /\ starts' \in 0..MaxStarts /\ counter' \in 0..MaxPeriods
        /\ Current' <= MaxPeriods
    BY <1>2, <1>3, <1>4, Types
  <2> QED
    BY <1>2, <1>4, <1>8, <1>9, <2>1, <2>2, PublisherTypes DEF States
<1>11. /\ shm[m].header.counter <= Current
       /\ shm[m].header.period <= Current
       /\ \A w \in Area : shm[m].data[w] <= Current
       /\ shm[m].header.period # 0 =>
            Covers(shm[m].data, periods[shm[m].header.period],
                   shm[m].header.period)
  <2>1. /\ shm[m].header.counter <= Current
        /\ shm[m].header.period <= shm[m].header.stamp
        /\ shm[m].header.stamp <= Current
        /\ \A w \in Area : shm[m].data[w] <= Current
        /\ shm[m].header.period # 0 =>
             Covers(shm[m].data, periods[shm[m].header.period],
                    shm[m].header.period)
    BY <1>1 DEF SegmentInStep
  <2>2. shm[m].header.period <= Current
    BY <1>3, <1>5, <2>1
  <2> QED
    BY <2>1, <2>2
<1>12. SegmentInStep(m)'
  <2> DEFINE q == shm[m].header.period
  <2>1. q # 0 => periods'[q] = periods[q]
    <3>1. q \in Nat /\ q <= Current /\ Current \in Nat
      BY <1>3, <1>5, <1>11
    <3> HIDE DEF q
    <3> QED
      BY <1>4, <3>1
  <2>2. /\ shm'[m].header.counter <= Current'
        /\ q <= Current + 1 /\ q # Current + 1
        /\ \A w \in Area : shm'[m].data[w] <= Current'
    <3>1. /\ shm'[m].header.counter <= Current'
          /\ q <= Current + 1 /\ q # Current + 1
      <4>1. shm[m].header.counter <= Current + 1
        BY <1>3, <1>5, <1>11
      <4>2. q <= Current /\ q \in Nat
        BY <1>5, <1>11
      <4> HIDE DEF q
      <4> QED
        BY <1>3, <1>4, <1>7, <4>1, <4>2
    <3>2. ASSUME NEW w \in Area PROVE shm'[m].data[w] <= Current'
      <4>1. shm[m].data[w] \in Nat /\ shm[m].data[w] <= Current
        BY <1>5, <1>11
      <4>2. shm'[m].data[w] = shm[m].data[w]
        BY <1>6
      <4> QED
        BY <1>3, <1>4, <4>1, <4>2
    <3> QED
      BY <3>1, <3>2
  <2>3. q # 0 => Covers(shm'[m].data, periods'[q], q)
    BY <1>6, <1>11, <2>1
  <2> HIDE DEF q
  <2>4. shm'[m].header.period = q /\ shm'[m].header.stamp = Current'
    BY <1>4, <1>7 DEF q
  <2>5. Current' <= Current' /\ Current' = Current + 1
    BY <1>3, <1>4
  <2> QED
    BY <1>2, <2>2, <2>3, <2>4, <2>5 DEF SegmentInStep
<1>13. Current <= Current' /\ Current' \in Nat
  BY <1>3, <1>4
<1>14. \A s \in 1..MaxStarts : SegmentInStep(s)' /\ GrowsAt(s)
  <2> SUFFICES ASSUME NEW s \in 1..MaxStarts
               PROVE  SegmentInStep(s)' /\ GrowsAt(s)
    OBVIOUS
  <2>1. CASE s = m
    <3>1. SegmentInStep(s)'
      BY <1>12, <2>1
    <3>2. shm'[m].header.stamp >= Current
      BY <1>3, <1>7
    <3>3. \A w \in Area : shm'[m].data[w] >= shm[m].data[w]
      BY <1>5, <1>6
    <3> QED
      BY <2>1, <3>1, <3>2, <3>3 DEF GrowsAt
  <2>2. CASE s # m
    BY <1>4, <1>6, <1>13, <2>2, SegmentKept
  <2> QED
    BY <2>1, <2>2
<1>15. Mapping'
  BY <1>1, <1>2 DEF Mapping
<1>16. PublishInStep'
  <2>1. /\ counter' <= Current' /\ Current' > 0
        /\ unwritten' = 1..periods'[Current']
        /\ shm'[m].header.stamp = Current' /\ shm'[m].header.period < Current'
    BY <1>2, <1>3, <1>4, <1>5, <1>7, <1>9, <1>11
  <2>2. ASSUME NEW w \in Area
        PROVE IF w <= periods'[Current'] /\ w \notin unwritten'
              THEN shm'[m].data[w] = Current' ELSE shm'[m].data[w] < Current'
    <3>1. shm'[m].data[w] \in Nat /\ shm'[m].data[w] <= Current
      BY <1>5, <1>6, <1>11, <2>2
    <3>2. periods'[Current'] = len
      BY <1>4
    <3>3. w <= len => w \in unwritten'
      BY <1>3, <1>9, <2>2 DEF Area
    <3> QED
      BY <1>3, <1>4, <3>1, <3>2, <3>3
  <2> HIDE DEF Current
  <2> QED
    BY <1>1, <1>2, <2>1, <2>2 DEF PublishInStep
<1> QED
  BY <1>4, <1>10, <1>13, <1>14, <1>15, <1>16 DEF PublisherInStep, Grows

(* A word of the period is copied over an older one.                        *)
LEMMA WordStep ==
    ASSUME IInv, NEW v \in Area, PublishWord(v), Watched,
           UNCHANGED own
    PROVE  PublisherInStep' /\ Grows
<1>1. PICK m \in 1..MaxStarts :
          /\ m = mapped /\ m = linked /\ m # 0
          /\ shm[m] \in Segment /\ SegmentInStep(m)
  BY MappedSegment, PublisherAssumption DEF PublishWord
<1>2. /\ UNCHANGED <<linked, mapped, starts, counter, periods, ppc>>
      /\ ppc = "data" /\ v \in unwritten /\ unwritten' = unwritten \ {v}
  BY DEF PublishWord
<1>3. /\ Current' = Current /\ Current \in 0..MaxPeriods
      /\ periods \in Seq(Area) /\ unwritten \subseteq Area
  BY <1>2, Types DEF Current, IInv, TypeOK
<1>4. /\ shm \in [1..MaxStarts -> Segment]
      /\ shm' = [shm EXCEPT ![m].data[v] = Current]
  BY <1>1, Types DEF PublishWord
<1>5. /\ shm[m].header \in Header /\ shm[m].data \in [Area -> 0..MaxPeriods]
      /\ shm[m].header.counter \in Nat /\ shm[m].header.period \in Nat
      /\ shm[m].header.stamp \in Nat /\ \A w \in Area : shm[m].data[w] \in Nat
  BY <1>1, SegmentNumbers DEF Segment
<1>6. /\ shm'[m].header = shm[m].header
      /\ shm'[m].data = [shm[m].data EXCEPT ![v] = Current]
      /\ \A s \in 1..MaxStarts : s # m => shm'[s] = shm[s]
  BY <1>1, <1>4 DEF Segment
<1>7. /\ shm'[m].data[v] = Current
      /\ \A w \in Area : w # v => shm'[m].data[w] = shm[m].data[w]
      /\ shm'[m].data \in [Area -> 0..MaxPeriods]
  BY <1>3, <1>5, <1>6
<1>8. shm' \in [1..MaxStarts -> Segment]
  BY <1>1, <1>3, <1>4, <1>5 DEF Segment
<1>9. TypeOK'
  <2>1. linked' \in 0..MaxStarts /\ mapped' \in {0, linked'}
    BY <1>2 DEF IInv, TypeOK
  <2>2. /\ starts' \in 0..MaxStarts /\ counter' \in 0..MaxPeriods
        /\ periods' \in Seq(Area) /\ Current' <= MaxPeriods
        /\ unwritten' \subseteq Area
        /\ ppc' \in States
    BY <1>2, <1>3, Types DEF States
  <2> QED
    BY <1>8, <2>1, <2>2, PublisherTypes
<1>10. /\ Current > 0 /\ unwritten \subseteq 1..periods[Current]
       /\ shm[m].header.stamp = Current /\ shm[m].header.period < Current
       /\ counter <= Current
       /\ \A w \in Area :
              IF w <= periods[Current] /\ w \notin unwritten
              THEN shm[m].data[w] = Current
              ELSE shm[m].data[w] < Current
  BY <1>1, <1>2 DEF IInv, PublishInStep
<1>11. /\ \A w \in Area : shm'[m].data[w] >= shm[m].data[w]
       /\ \A w \in Area : shm'[m].data[w] <= Current
  <2> SUFFICES ASSUME NEW w \in Area
               PROVE  /\ shm'[m].data[w] >= shm[m].data[w]
                      /\ shm'[m].data[w] <= Current
    OBVIOUS
  <2>1. shm[m].data[w] <= Current
    BY <1>1 DEF SegmentInStep
  <2>2. shm'[m].data[w] = Current \/ shm'[m].data[w] = shm[m].data[w]
    BY <1>7
  <2>3. shm[m].data[w] \in Nat /\ Current \in Nat
    BY <1>3, <1>5
  <2> QED
    BY <2>1, <2>2, <2>3
<1>12. SegmentInStep(m)'
  <2> DEFINE q == shm[m].header.period
  <2>1. q # 0 => Covers(shm'[m].data, periods[q], q)
    <3> SUFFICES ASSUME q # 0, NEW w \in Area, w <= periods[q]
                 PROVE  shm'[m].data[w] >= q
      BY DEF Covers
    <3>1. shm[m].data[w] >= q
      BY <1>1 DEF SegmentInStep, Covers
    <3> QED
      BY <1>5, <1>7, <1>11, <3>1
  <2>2. /\ shm'[m].header.counter <= Current /\ q <= shm'[m].header.stamp
        /\ shm'[m].header.stamp <= Current /\ q # shm'[m].header.stamp
        /\ shm'[m].header.period = q
    BY <1>1, <1>3, <1>5, <1>6, <1>10 DEF SegmentInStep
  <2> HIDE DEF q
  <2>3. periods' = periods
    BY <1>2
  <2> QED
    BY <1>3, <1>11, <2>1, <2>2, <2>3 DEF SegmentInStep
<1>13. Current <= Current' /\ Current' \in Nat
  BY <1>3
<1>14. \A s \in 1..MaxStarts : SegmentInStep(s)' /\ GrowsAt(s)
  <2> SUFFICES ASSUME NEW s \in 1..MaxStarts
               PROVE  SegmentInStep(s)' /\ GrowsAt(s)
    OBVIOUS
  <2>1. CASE s = m
    <3>1. SegmentInStep(s)'
      BY <1>12, <2>1
    <3>2. GrowsAt(s)
      BY <1>6, <1>11, <2>1 DEF GrowsAt
    <3> QED
      BY <3>1, <3>2
  <2>2. CASE s # m
    BY <1>2, <1>6, <1>13, <2>2, SegmentKept
  <2> QED
    BY <2>1, <2>2
<1>15. Mapping'
  BY <1>1, <1>2 DEF Mapping
<1>16. PublishInStep'
  <2>1. unwritten' \subseteq 1..periods[Current]
    BY <1>2, <1>10
  <2>2. ASSUME NEW w \in Area
        PROVE IF w <= periods[Current] /\ w \notin unwritten'
              THEN shm'[m].data[w] = Current ELSE shm'[m].data[w] < Current
    <3>1. CASE w = v
      BY <1>2, <1>7, <1>10, <3>1
    <3>2. CASE w # v
      BY <1>2, <1>7, <1>10, <3>2
    <3> QED
      BY <3>1, <3>2
  <2> QED
    BY <1>1, <1>2, <1>3, <1>6, <1>10, <2>1, <2>2 DEF PublishInStep
<1> QED
  BY <1>2, <1>9, <1>13, <1>14, <1>15, <1>16 DEF PublisherInStep, Grows

(* The counter names the period when all of it has been copied.             *)
LEMMA EndOfPublishStep ==
    ASSUME IInv, PublishEnd, Watched, UNCHANGED own
    PROVE  PublisherInStep' /\ Grows
<1>1. PICK m \in 1..MaxStarts :
          /\ m = mapped /\ m = linked /\ m # 0
          /\ shm[m] \in Segment /\ SegmentInStep(m)
  BY MappedSegment, PublisherAssumption DEF PublishEnd
<1>2. /\ UNCHANGED <<linked, mapped, starts, counter, periods, unwritten>>
      /\ ppc = "data" /\ ppc' = "idle" /\ unwritten = {}
  BY DEF PublishEnd
<1>3. /\ Current' = Current /\ Current \in 0..MaxPeriods
      /\ periods \in Seq(Area) /\ counter \in 0..MaxPeriods
  BY <1>2, Types DEF Current
<1>4. /\ shm \in [1..MaxStarts -> Segment]
      /\ shm' = [shm EXCEPT ![m].header.counter = counter,
                            ![m].header.period = Current]
  BY <1>1, Types DEF PublishEnd
<1>5. /\ shm[m].header \in Header /\ shm[m].data \in [Area -> 0..MaxPeriods]
      /\ shm[m].header.stamp \in Nat /\ \A w \in Area : shm[m].data[w] \in Nat
  BY <1>1, SegmentNumbers DEF Segment
<1> DEFINE h == [shm[m].header EXCEPT !.counter = counter, !.period = Current]
<1>6. /\ shm'[m].header = h /\ shm'[m].data = shm[m].data
      /\ \A s \in 1..MaxStarts : s # m => shm'[s] = shm[s]
  BY <1>1, <1>4 DEF Segment
<1>7. /\ h \in Header /\ h.counter = counter /\ h.period = Current
      /\ h.stamp = shm[m].header.stamp
  BY <1>3, <1>5 DEF Header
<1> HIDE DEF h
<1>8. shm' \in [1..MaxStarts -> Segment]
  <2>1. shm'[m] \in Segment
    <3>1. shm'[m] = [shm[m] EXCEPT !.header = shm'[m].header]
      BY <1>1, <1>4 DEF Segment
    <3> QED
      BY <1>1, <1>6, <1>7, <3>1 DEF Segment
  <2>2. shm' = [shm EXCEPT ![m] = shm'[m]]
    BY <1>1, <1>4
  <2> QED
    BY <1>1, <1>4, <2>1, <2>2
<1>9. TypeOK'
  <2>1. /\ linked' \in 0..MaxStarts /\ mapped' \in {0, linked'}
        /\ unwritten' \subseteq Area
    BY <1>2 DEF IInv, TypeOK
  <2>2. /\ starts' \in 0..MaxStarts /\ counter' \in 0..MaxPeriods
        /\ periods' \in Seq(Area) /\ Current' <= MaxPeriods
        /\ ppc' \in States
    BY <1>2, <1>3, Types DEF States
  <2> QED
    BY <1>8, <2>1, <2>2, PublisherTypes
<1>10. /\ Current > 0 /\ counter <= Current
       /\ shm[m].header.stamp = Current
       /\ \A w \in Area : IF w <= periods[Current]
                           THEN shm[m].data[w] = Current
                           ELSE shm[m].data[w] < Current
  BY <1>1, <1>2 DEF IInv, PublishInStep
<1>11. SegmentInStep(m)'
  <2>1. IsPeriod(shm'[m].data, periods'[Current], Current)
    BY <1>2, <1>6, <1>10 DEF IsPeriod
  <2>2. Covers(shm'[m].data, periods'[Current], Current)
    BY <1>2, <1>3, <1>6, <1>10 DEF Covers
  <2>3. \A w \in Area : shm'[m].data[w] <= Current
    BY <1>3, <1>5, <1>6, <1>10
  <2>4. /\ shm'[m].header.counter <= Current
        /\ shm'[m].header.period = Current
        /\ shm'[m].header.stamp = Current /\ Current <= Current
    BY <1>3, <1>6, <1>7, <1>10
  <2> QED
    BY <1>3, <2>1, <2>2, <2>3, <2>4 DEF SegmentInStep
<1>12. Current <= Current' /\ Current' \in Nat
  BY <1>3
<1>13. \A s \in 1..MaxStarts : SegmentInStep(s)' /\ GrowsAt(s)
  <2> SUFFICES ASSUME NEW s \in 1..MaxStarts
               PROVE  SegmentInStep(s)' /\ GrowsAt(s)
    OBVIOUS
  <2>1. CASE s = m
    <3>1. SegmentInStep(s)'
      BY <1>11, <2>1
    <3>2. GrowsAt(s)
      BY <1>5, <1>6, <1>7, <2>1 DEF GrowsAt
    <3> QED
      BY <3>1, <3>2
  <2>2. CASE s # m
    BY <1>2, <1>6, <1>12, <2>2, SegmentKept
  <2> QED
    BY <2>1, <2>2
<1>14. Mapping' /\ PublishInStep'
  BY <1>1, <1>2, <1>3, <1>10 DEF Mapping, PublishInStep
<1> QED
  BY <1>2, <1>9, <1>12, <1>13, <1>14 DEF PublisherInStep, Grows

(* Whatever the publisher does, it and the readers stay in step.            *)
LEMMA PublisherIInv == IInv /\ Publisher => IInv'
<1> SUFFICES ASSUME IInv, Publisher PROVE IInv'
  OBVIOUS
<1>1. Watched /\ UNCHANGED own
  BY DEF Publisher, Watched, own
<1>2. PublisherInStep' /\ Grows
  BY <1>1, OpenStep, EndStep, HeaderStep, BeginStep, WordStep,
     EndOfPublishStep DEF Publisher, HeaderSteps
<1>3. TypeOK'
  BY <1>2 DEF PublisherInStep
<1>4. \A r \in Readers : ReaderInStep(r)'
  BY <1>1, <1>2, <1>3, ReadersKept
<1>5. seen' \in [Readers -> Seen]
  BY <1>1 DEF IInv, own
<1> QED
  BY <1>2, <1>4, <1>5 DEF IInv, PublisherInStep

-----------------------------------------------------------------------------
(* The publisher's side does not change under a reader.                     *)
LEMMA PublisherKept ==
    ASSUME IInv, UNCHANGED publisherVars
    PROVE  Mapping' /\ PublishInStep' /\ \A s \in 1..MaxStarts : SegmentInStep(s)'
<1>1. UNCHANGED <<shm, linked, mapped, counter, periods, ppc, unwritten>>
  BY DEF publisherVars
<1>2. Current' = Current
  BY <1>1 DEF Current
<1>3. Mapping'
  BY <1>1 DEF IInv, Mapping
<1>4. PublishInStep'
  BY <1>1, <1>2 DEF IInv, PublishInStep
<1>5. ASSUME NEW s \in 1..MaxStarts PROVE SegmentInStep(s)'
  BY <1>1, <1>2 DEF IInv, SegmentInStep
<1> QED
  BY <1>3, <1>4, <1>5

(* Another reader's step changes nothing a reader sees.                     *)
LEMMA OtherReaderKept ==
    ASSUME IInv, UNCHANGED <<shm, periods>>, NEW r \in Readers,
           seg'[r] = seg[r], size'[r] = size[r], rpc'[r] = rpc[r],
           seen'[r] = seen[r], newest'[r] = newest[r],
           disturbed'[r] = disturbed[r]
    PROVE  ReaderInStep(r)'
<1>1. ReaderInStep(r) /\ Current' = Current
  BY DEF IInv, Current
<1> QED
  BY <1>1 DEF ReaderInStep

(* TypeOK after a step of a reader.                                         *)
LEMMA ReaderTypes ==
    ASSUME IInv, UNCHANGED publisherVars,
           seg' \in [Readers -> 0..MaxStarts],
           size' \in [Readers -> {Unread, 0, Words}],
           last' \in [Readers -> 0..MaxPeriods],
           newest' \in [Readers -> 0..MaxPeriods],
           rpc' \in [Readers -> {"poll", "stamp", "data"}],
           disturbed' \in [Readers -> BOOLEAN],
           seen' \in [Readers -> Seen],
           \A r \in Readers : Len(seen'[r].data) <= Words
    PROVE  TypeOK' /\ seen' \in [Readers -> Seen]
<1>1. \A r \in Readers : seen'[r].data \in Seq(0..MaxPeriods)
  BY DEF Seen
<1>2. Current' = Current
  BY DEF publisherVars, Current
<1> QED
  BY <1>1, <1>2 DEF IInv, TypeOK, publisherVars

(* A reader maps the segment.                                               *)
LEMMA AttachStep ==
    ASSUME IInv, NEW r \in Readers, Attach(r), UNCHANGED publisherVars
    PROVE  IInv'
<1>1. /\ UNCHANGED <<size, last, rpc, seen, newest, disturbed, shm, periods>>
      /\ seg[r] = 0 /\ linked # 0 /\ seg' = [seg EXCEPT ![r] = linked]
  BY DEF Attach, publisherVars
<1>2. seg' \in [Readers -> 0..MaxStarts] /\ seg'[r] = linked
  BY <1>1, Types
<1>3. TypeOK' /\ seen' \in [Readers -> Seen]
  <2>1. /\ last' \in [Readers -> 0..MaxPeriods]
        /\ newest' \in [Readers -> 0..MaxPeriods]
        /\ size' \in [Readers -> {Unread, 0, Words}]
        /\ rpc' \in [Readers -> {"poll", "stamp", "data"}]
        /\ disturbed' \in [Readers -> BOOLEAN]
        /\ \A q \in Readers : Len(seen'[q].data) <= Words
    BY <1>1 DEF IInv, TypeOK
  <2> QED
    BY <1>1, <1>2, <2>1, Types, ReaderTypes
<1>4. ReaderInStep(r)'
  <2>1. rpc[r] = "poll" /\ seen[r].period = 0 /\ newest[r] = 0
    BY <1>1 DEF IInv, ReaderInStep
  <2>2. Current' \in Nat
    BY <1>1, Types DEF Current
  <2> QED
    BY <1>1, <1>2, <2>1, <2>2 DEF ReaderInStep
<1>5. ASSUME NEW q \in Readers, q # r PROVE ReaderInStep(q)'
  <2>1. seg'[q] = seg[q]
    BY <1>1, <1>5, Types
  <2> QED
    BY <1>1, <2>1, OtherReaderKept
<1> QED
  BY <1>3, <1>4, <1>5, PublisherKept DEF IInv

(* It takes the size of a period, or finds none there yet.                  *)
LEMMA ReadSizeStep ==
    ASSUME IInv, NEW r \in Readers, ReadSize(r), UNCHANGED publisherVars
    PROVE  IInv'
<1>1. /\ UNCHANGED <<seg, last, rpc, seen, newest, disturbed, shm, periods>>
      /\ seg[r] # 0 /\ size[r] = Unread
      /\ size' = [size EXCEPT ![r] = shm[seg[r]].frames]
  BY DEF ReadSize, publisherVars
<1>2. shm[seg[r]].frames \in {0, Words}
  <2>1. seg[r] \in 1..MaxStarts /\ shm \in [1..MaxStarts -> Segment]
    BY <1>1, Types
  <2> QED
    BY <2>1 DEF Segment
<1>3. size' \in [Readers -> {Unread, 0, Words}] /\ size'[r] # Unread
  BY <1>1, <1>2, Types
<1>4. TypeOK' /\ seen' \in [Readers -> Seen]
  <2>1. /\ last' \in [Readers -> 0..MaxPeriods]
        /\ newest' \in [Readers -> 0..MaxPeriods]
        /\ seg' \in [Readers -> 0..MaxStarts]
        /\ rpc' \in [Readers -> {"poll", "stamp", "data"}]
        /\ disturbed' \in [Readers -> BOOLEAN]
        /\ \A q \in Readers : Len(seen'[q].data) <= Words
    BY <1>1 DEF IInv, TypeOK
  <2> QED
    BY <1>1, <1>3, <2>1, Types, ReaderTypes
<1>5. ReaderInStep(r)'
  <2>1. rpc[r] = "poll" /\ seen[r].period = 0 /\ newest[r] = 0
    BY <1>1 DEF IInv, ReaderInStep
  <2>2. Current' \in Nat
    BY <1>1, Types DEF Current
  <2> QED
    BY <1>1, <1>3, <2>1, <2>2 DEF ReaderInStep
<1>6. ASSUME NEW q \in Readers, q # r PROVE ReaderInStep(q)'
  <2>1. size'[q] = size[q]
    BY <1>1, <1>6, Types
  <2> QED
    BY <1>1, <2>1, OtherReaderKept
<1> QED
  BY <1>4, <1>5, <1>6, PublisherKept DEF IInv

(* A reader sees a counter it has not seen: the period it names is in the   *)
(* segment, and alone there unless the timestamp is already a later one's.  *)
LEMMA PollStep ==
    ASSUME IInv, NEW r \in Readers, Poll(r), UNCHANGED publisherVars
    PROVE  IInv'
<1> DEFINE s == seg[r]
           h == shm[s].header
<1>1. /\ UNCHANGED <<seg, size, shm, periods>>
      /\ size[r] # Unread /\ rpc' = [rpc EXCEPT ![r] = "stamp"]
      /\ last' = [last EXCEPT ![r] = h.counter]
      /\ seen' = [seen EXCEPT ![r] = [Nothing EXCEPT !.period = h.period]]
      /\ newest' = [newest EXCEPT ![r] =
                      IF seen'[r].period = 0 THEN @ ELSE seen'[r].period]
      /\ disturbed' = [disturbed EXCEPT ![r] = h.stamp # h.period]
  BY DEF Poll, publisherVars
<1>2. /\ s \in 1..MaxStarts /\ shm[s] \in Segment /\ SegmentInStep(s)
      /\ seg \in [Readers -> 0..MaxStarts] /\ seen \in [Readers -> Seen]
      /\ Current \in Nat /\ Words \in Nat \ {0} /\ MaxPeriods \in Nat
      /\ rpc \in [Readers -> {"poll", "stamp", "data"}]
      /\ last \in [Readers -> 0..MaxPeriods]
      /\ newest \in [Readers -> 0..MaxPeriods]
      /\ disturbed \in [Readers -> BOOLEAN]
  <2>1. s \in 1..MaxStarts /\ shm[s] \in Segment
    <3>1. s # 0
      BY <1>1 DEF IInv, ReaderInStep
    <3> QED
      BY <3>1, Types
  <2>2. SegmentInStep(s)
    BY <2>1 DEF IInv
  <2>3. /\ rpc \in [Readers -> {"poll", "stamp", "data"}]
        /\ last \in [Readers -> 0..MaxPeriods]
        /\ newest \in [Readers -> 0..MaxPeriods]
        /\ disturbed \in [Readers -> BOOLEAN]
    BY DEF IInv, TypeOK
  <2> QED
    BY <2>1, <2>2, <2>3, Types
<1>3. /\ h.counter \in 0..MaxPeriods /\ h.period \in 0..MaxPeriods
      /\ h.stamp \in 0..MaxPeriods /\ \A w \in Area : shm[s].data[w] \in Nat
  BY <1>2, SegmentNumbers DEF Header
<1> HIDE DEF h
<1> DEFINE e == [Nothing EXCEPT !.period = h.period]
<1>4. /\ e \in Seen /\ e.period = h.period /\ e.stamp = 0
      /\ e.data = << >> /\ Len(e.data) = 0
  <2>1. << >> \in Seq(0..MaxPeriods) /\ Len(<< >>) = 0 /\ 0 \in 0..MaxPeriods
    BY <1>2
  <2>2. e = [period |-> h.period, stamp |-> 0, data |-> << >>]
    BY DEF Nothing
  <2> QED
    BY <1>3, <2>1, <2>2 DEF Seen
<1>5. seen' \in [Readers -> Seen] /\ seen'[r] = e
      /\ \A q \in Readers : q # r => seen'[q] = seen[q]
  BY <1>1, <1>2, <1>4
<1> HIDE DEF e
<1>6. TypeOK' /\ seen' \in [Readers -> Seen]
  <2>1. ASSUME NEW q \in Readers PROVE Len(seen'[q].data) <= Words
    <3>1. Len(seen[q].data) <= Words
      BY DEF IInv, TypeOK
    <3>2. Len(e.data) <= Words
      BY <1>2, <1>4
    <3>3. seen'[q] = e \/ seen'[q] = seen[q]
      BY <1>5
    <3> QED
      BY <3>1, <3>2, <3>3
  <2>2. /\ last' \in [Readers -> 0..MaxPeriods]
        /\ newest' \in [Readers -> 0..MaxPeriods]
        /\ size' \in [Readers -> {Unread, 0, Words}]
        /\ rpc' \in [Readers -> {"poll", "stamp", "data"}]
        /\ disturbed' \in [Readers -> BOOLEAN]
        /\ seg' \in [Readers -> 0..MaxStarts]
    <3>1. newest' \in [Readers -> 0..MaxPeriods]
      BY <1>1, <1>2, <1>3, <1>4, <1>5
    <3> QED
      BY <1>1, <1>2, <1>3, <3>1, Types
  <2> QED
    BY <1>5, <2>1, <2>2, ReaderTypes
<1>7. ReaderInStep(r)'
  <2> DEFINE p == h.period
             n == newest[r]
  <2>1. rpc'[r] = "stamp" /\ seen'[r].period = p /\ seen'[r].data = << >>
    BY <1>1, <1>2, <1>4, <1>5
  <2>2. /\ h.stamp >= p /\ p <= Current
        /\ p # 0 => Covers(shm[s].data, periods[p], p)
        /\ p # 0 /\ h.stamp = p => IsPeriod(shm[s].data, periods[p], p)
    BY <1>2, <1>3 DEF SegmentInStep, h
  <2>3. ~disturbed'[r] => h.stamp = p
    BY <1>1, <1>2
  <2>4. /\ Current' = Current /\ seg'[r] = s /\ shm'[s].header = h
        /\ shm'[s].data = shm[s].data /\ periods' = periods
        /\ size'[r] # Unread /\ s # 0
    BY <1>1, <1>2 DEF Current, h
  <2>5. newest'[r] = IF p = 0 THEN n ELSE p
    BY <1>1, <1>2, <2>1
  <2>6. /\ n <= Current
        /\ n # 0 => /\ h.stamp >= n \/ h.stamp = 0
                    /\ Covers(shm[s].data, periods[n], n)
    BY DEF IInv, ReaderInStep, h
  <2>7. Len(<< >>) = 0
    OBVIOUS
  <2> HIDE DEF p, n, s
  <2> QED
    BY <2>1, <2>2, <2>3, <2>4, <2>5, <2>6, <2>7 DEF ReaderInStep
<1>8. ASSUME NEW q \in Readers, q # r PROVE ReaderInStep(q)'
  BY <1>1, <1>2, <1>5, <1>8, OtherReaderKept
<1> QED
  BY <1>6, <1>7, <1>8, PublisherKept DEF IInv

(* A reader takes the timestamp.                                            *)
LEMMA ReadStampStep ==
    ASSUME IInv, NEW r \in Readers, ReadStamp(r), UNCHANGED publisherVars
    PROVE  IInv'
<1> DEFINE h == shm[seg[r]].header
<1>1. /\ UNCHANGED <<seg, size, last, newest, disturbed, shm, periods>>
      /\ rpc[r] = "stamp"
      /\ rpc' = [rpc EXCEPT ![r] = IF size[r] = 0 THEN "poll" ELSE "data"]
      /\ seen' = [seen EXCEPT ![r].stamp = h.stamp]
  BY DEF ReadStamp, publisherVars
<1>2. ReaderInStep(r) /\ seg[r] # 0 /\ seen[r].data = << >>
  BY <1>1 DEF IInv, ReaderInStep
<1>3. /\ seg[r] \in 1..MaxStarts /\ shm[seg[r]] \in Segment
      /\ seen \in [Readers -> Seen] /\ seen[r] \in Seen
      /\ Words \in Nat \ {0} /\ size[r] \in {0, Words}
      /\ rpc \in [Readers -> {"poll", "stamp", "data"}]
  <2>1. rpc \in [Readers -> {"poll", "stamp", "data"}]
    BY DEF IInv, TypeOK
  <2>2. size[r] \in {0, Words}
    BY <1>1, <1>2, Types DEF ReaderInStep
  <2> QED
    BY <1>2, <2>1, <2>2, Types
<1>4. h.stamp \in 0..MaxPeriods
  BY <1>3, SegmentNumbers DEF Header
<1> HIDE DEF h
<1> DEFINE e == [seen[r] EXCEPT !.stamp = h.stamp]
<1>5. /\ e \in Seen /\ e.period = seen[r].period /\ e.stamp = h.stamp
      /\ e.data = << >> /\ Len(e.data) = 0
  BY <1>2, <1>3, <1>4 DEF Seen
<1>6. seen' \in [Readers -> Seen] /\ seen'[r] = e
      /\ \A q \in Readers : q # r => seen'[q] = seen[q]
  BY <1>1, <1>3, <1>5
<1> HIDE DEF e
<1>7. TypeOK' /\ seen' \in [Readers -> Seen]
  <2>1. ASSUME NEW q \in Readers PROVE Len(seen'[q].data) <= Words
    <3>1. Len(seen[q].data) <= Words
      BY DEF IInv, TypeOK
    <3>2. Len(e.data) <= Words
      BY <1>3, <1>5
    <3>3. seen'[q] = e \/ seen'[q] = seen[q]
      BY <1>6
    <3> QED
      BY <3>1, <3>2, <3>3
  <2>2. /\ last' \in [Readers -> 0..MaxPeriods]
        /\ newest' \in [Readers -> 0..MaxPeriods]
        /\ size' \in [Readers -> {Unread, 0, Words}]
        /\ rpc' \in [Readers -> {"poll", "stamp", "data"}]
        /\ disturbed' \in [Readers -> BOOLEAN]
        /\ seg' \in [Readers -> 0..MaxStarts]
    BY <1>1, <1>3 DEF IInv, TypeOK
  <2> QED
    BY <1>6, <2>1, <2>2, ReaderTypes
<1>8. ReaderInStep(r)'
  <2> DEFINE p == seen[r].period
             n == newest[r]
             s == seg[r]
  <2>1. /\ rpc'[r] = (IF size[r] = 0 THEN "poll" ELSE "data")
        /\ seen'[r].period = p /\ seen'[r].stamp = h.stamp
        /\ seen'[r].data = << >>
    BY <1>1, <1>3, <1>5, <1>6
  <2>2. /\ n <= Current /\ (p # 0 => p = n)
        /\ n # 0 => /\ h.stamp >= n \/ h.stamp = 0
                    /\ Covers(shm[s].data, periods[n], n)
        /\ p # 0 /\ ~disturbed[r] =>
             h.stamp = p /\ IsPeriod(shm[s].data, periods[p], p)
    BY <1>2 DEF ReaderInStep, h
  <2>3. Current' = Current /\ shm'[s].header = h
    BY <1>1 DEF Current, h
  <2>4. Len(<< >>) = 0 /\ size[r] # Unread /\ (size[r] # 0 => 0 < size[r])
    BY <1>3, Types
  <2> HIDE DEF p, n, s
  <2>5. seg'[r] = s /\ s # 0 /\ newest'[r] = n
    BY <1>1, <1>2 DEF s, n
  <2> QED
    BY <1>1, <2>1, <2>2, <2>3, <2>4, <2>5 DEF ReaderInStep
<1>9. ASSUME NEW q \in Readers, q # r PROVE ReaderInStep(q)'
  BY <1>1, <1>3, <1>6, <1>9, OtherReaderKept
<1> QED
  BY <1>7, <1>8, <1>9, PublisherKept DEF IInv

(* A reader takes the next word.                                            *)
LEMMA ReadWordStep ==
    ASSUME IInv, NEW r \in Readers, ReadWord(r), UNCHANGED publisherVars
    PROVE  IInv'
<1> DEFINE area == shm[seg[r]].data
           d == seen[r].data
           e == [seen[r] EXCEPT !.data = Append(d, area[Len(d) + 1])]
<1>1. /\ UNCHANGED <<seg, size, last, newest, disturbed, shm, periods>>
      /\ rpc[r] = "data"
      /\ seen' = [seen EXCEPT ![r].data =
                     Append(@, shm[seg[r]].data[Len(@) + 1])]
      /\ rpc' = [rpc EXCEPT ![r] =
                    IF Len(seen'[r].data) = size[r] THEN "poll" ELSE "data"]
  BY DEF ReadWord, publisherVars
<1>2. ReaderInStep(r) /\ seg[r] # 0 /\ Len(d) < Words /\ size[r] = Words
  <2>1. /\ ReaderInStep(r) /\ seg[r] # 0 /\ size[r] # Unread
        /\ Len(d) < size[r]
    BY <1>1 DEF IInv, ReaderInStep
  <2>2. size[r] \in {0, Words} /\ Len(d) \in Nat
    BY <2>1, Types DEF Seen
  <2> QED
    BY <2>1, <2>2
<1>3. /\ seg[r] \in 1..MaxStarts /\ shm[seg[r]] \in Segment
      /\ seen \in [Readers -> Seen] /\ seen[r] \in Seen
      /\ Words \in Nat \ {0} /\ d \in Seq(0..MaxPeriods)
      /\ rpc \in [Readers -> {"poll", "stamp", "data"}]
  <2>1. /\ seg[r] \in 1..MaxStarts /\ shm[seg[r]] \in Segment
        /\ seen \in [Readers -> Seen] /\ seen[r] \in Seen
        /\ Words \in Nat \ {0}
    BY <1>2, Types
  <2>2. rpc \in [Readers -> {"poll", "stamp", "data"}]
    BY DEF IInv, TypeOK
  <2>3. d \in Seq(0..MaxPeriods)
    BY <2>1 DEF Seen
  <2> QED
    BY <2>1, <2>2, <2>3
<1>4. /\ area \in [Area -> 0..MaxPeriods] /\ Len(d) \in Nat
      /\ Len(d) + 1 \in Area
  BY <1>2, <1>3 DEF Segment, Area
<1> DEFINE x == area[Len(d) + 1]
<1>5. x \in 0..MaxPeriods
  BY <1>4
<1>6. /\ Append(d, x) \in Seq(0..MaxPeriods)
      /\ Len(Append(d, x)) = Len(d) + 1 /\ Append(d, x)[Len(d) + 1] = x
      /\ \A w \in 1..Len(d) : Append(d, x)[w] = d[w]
  <2> HIDE DEF x, d
  <2> QED
    BY <1>3, <1>4, <1>5
<1>7. /\ e \in Seen /\ e.period = seen[r].period /\ e.stamp = seen[r].stamp
      /\ e.data = Append(d, x)
  <2>1. \A f \in Seq(0..MaxPeriods) :
            /\ [seen[r] EXCEPT !.data = f] \in Seen
            /\ [seen[r] EXCEPT !.data = f].period = seen[r].period
            /\ [seen[r] EXCEPT !.data = f].stamp = seen[r].stamp
            /\ [seen[r] EXCEPT !.data = f].data = f
    BY <1>3 DEF Seen
  <2> QED
    BY <1>6, <2>1
<1>8. seen' \in [Readers -> Seen] /\ seen'[r] = e
      /\ \A q \in Readers : q # r => seen'[q] = seen[q]
  <2>1. seen' = [seen EXCEPT ![r] = e]
    BY <1>1
  <2> HIDE DEF e
  <2> QED
    BY <1>3, <1>7, <2>1
<1> HIDE DEF e
<1>9. TypeOK' /\ seen' \in [Readers -> Seen]
  <2>1. ASSUME NEW q \in Readers PROVE Len(seen'[q].data) <= Words
    <3>1. Len(seen[q].data) <= Words
      BY DEF IInv, TypeOK
    <3>2. Len(e.data) <= Words
      BY <1>2, <1>3, <1>4, <1>6, <1>7
    <3>3. seen'[q] = e \/ seen'[q] = seen[q]
      BY <1>8
    <3> QED
      BY <3>1, <3>2, <3>3
  <2>2. /\ last' \in [Readers -> 0..MaxPeriods]
        /\ newest' \in [Readers -> 0..MaxPeriods]
        /\ size' \in [Readers -> {Unread, 0, Words}]
        /\ rpc' \in [Readers -> {"poll", "stamp", "data"}]
        /\ disturbed' \in [Readers -> BOOLEAN]
        /\ seg' \in [Readers -> 0..MaxStarts]
    BY <1>1, <1>3 DEF IInv, TypeOK
  <2> QED
    BY <1>8, <2>1, <2>2, ReaderTypes
<1>10. ReaderInStep(r)'
  <2> DEFINE p == seen[r].period
             n == newest[r]
             s == seg[r]
             c == seen'[r].data
  <2>1. /\ seen'[r].period = p /\ seen'[r].stamp = seen[r].stamp
        /\ Len(c) = Len(d) + 1 /\ c[Len(d) + 1] = x
        /\ \A w \in 1..Len(d) : c[w] = d[w]
    BY <1>6, <1>7, <1>8
  <2>2. /\ rpc'[r] \in {"poll", "data"}
        /\ rpc'[r] = "poll" => Len(c) = Words
        /\ rpc'[r] = "data" => Len(c) # Words
    BY <1>1, <1>2, <1>3
  <2>3. Len(c) <= Words
    BY <1>2, <1>3, <1>4, <2>1
  <2>4. /\ n <= Current /\ (p # 0 => p = n)
        /\ n # 0 =>
             /\ shm[s].header.stamp >= n \/ shm[s].header.stamp = 0
             /\ Covers(area, periods[n], n)
        /\ p # 0 =>
             /\ seen[r].stamp >= p \/ seen[r].stamp = 0
             /\ \A w \in 1..Len(d) : w <= periods[p] => d[w] >= p
        /\ p # 0 /\ ~disturbed[r] =>
             /\ shm[s].header.stamp = p /\ seen[r].stamp = p
             /\ IsPeriod(area, periods[p], p)
             /\ \A w \in 1..Len(d) : d[w] = area[w]
    BY <1>1, <1>2 DEF ReaderInStep
  <2>5. ASSUME p # 0, NEW w \in 1..Len(c), w <= periods[p] PROVE c[w] >= p
    <3>1. x >= p \/ w # Len(d) + 1
      BY <1>4, <2>4, <2>5 DEF Covers
    <3>2. w \in 1..Len(d) \/ w = Len(d) + 1
      BY <1>4, <2>1
    <3> QED
      BY <2>1, <2>4, <2>5, <3>1, <3>2
  <2>6. ASSUME p # 0, ~disturbed[r], NEW w \in 1..Len(c) PROVE c[w] = area[w]
    <3>1. w \in 1..Len(d) \/ w = Len(d) + 1
      BY <1>4, <2>1
    <3> QED
      BY <2>1, <2>4, <2>6, <3>1
  <2>7. Current' = Current /\ seg'[r] = s /\ shm' = shm /\ periods' = periods
        /\ disturbed' = disturbed /\ s # 0 /\ newest'[r] = n
        /\ size'[r] = Words /\ Words # Unread
    BY <1>1, <1>2, Types DEF Current
  <2>8. Len(c) \in Nat /\ Words \in Nat
    BY <1>3, <1>4, <2>1
  <2>9. area = shm[s].data
    OBVIOUS
  <2> HIDE DEF p, n, s, c, d, x, area
  <2> QED
    BY <2>1, <2>2, <2>3, <2>4, <2>5, <2>6, <2>7, <2>8, <2>9
       DEF ReaderInStep, c, p
<1>11. ASSUME NEW q \in Readers, q # r PROVE ReaderInStep(q)'
  BY <1>1, <1>3, <1>8, <1>11, OtherReaderKept
<1> QED
  BY <1>9, <1>10, <1>11, PublisherKept DEF IInv

(* IInv is inductive.                                                       *)
LEMMA Invariance == Spec => []IInv
<1>1. IInv /\ UNCHANGED vars => IInv'
  <2> SUFFICES ASSUME IInv, UNCHANGED vars PROVE IInv'
    OBVIOUS
  <2>1. UNCHANGED publisherVars /\ UNCHANGED <<own, disturbed>>
    BY DEF vars, readerVars, own
  <2>2. UNCHANGED <<shm, periods>>
    BY <2>1 DEF publisherVars
  <2>3. \A r \in Readers : ReaderInStep(r)'
    BY <2>1, <2>2, OtherReaderKept DEF own
  <2>4. TypeOK' /\ seen' \in [Readers -> Seen]
    <3>1. /\ seg' \in [Readers -> 0..MaxStarts]
          /\ size' \in [Readers -> {Unread, 0, Words}]
          /\ last' \in [Readers -> 0..MaxPeriods]
          /\ newest' \in [Readers -> 0..MaxPeriods]
          /\ rpc' \in [Readers -> {"poll", "stamp", "data"}]
          /\ disturbed' \in [Readers -> BOOLEAN]
          /\ seen' \in [Readers -> Seen]
          /\ \A r \in Readers : Len(seen'[r].data) <= Words
      BY <2>1 DEF IInv, TypeOK, own
    <3> QED
      BY <2>1, <3>1, ReaderTypes
  <2> QED
    BY <2>1, <2>3, <2>4, PublisherKept DEF IInv
<1>2. IInv /\ [Next]_vars => IInv'
  BY <1>1, PublisherIInv, AttachStep, ReadSizeStep, PollStep, ReadStampStep,
     ReadWordStep DEF Next, Reader
<1> QED
  BY InitIInv, <1>2, PTL DEF Spec

-----------------------------------------------------------------------------
(* The segments, the publisher and the readers keep to their types, in      *)
(* areas of every size and over any number of periods and runs.             *)
THEOREM TypeCorrect == Spec => []TypeOK
<1>1. IInv => TypeOK
  BY DEF IInv
<1> QED
  BY Invariance, <1>1, PTL

(* sample_publisher.cpp:74: the counter is written last, so whoever sees a  *)
(* counter copies that period's samples or later ones, also when the daemon *)
(* crashes and another run takes the segment over.                          *)
THEOREM CounterIsLast == Spec => []CounterCoversData
<1>1. IInv => CounterCoversData
  <2> SUFFICES ASSUME IInv, NEW r \in Readers, seen[r].period # 0
               PROVE  /\ rpc[r] # "stamp" => seen[r].stamp >= seen[r].period
                                             \/ seen[r].stamp = 0
                      /\ \A w \in DOMAIN seen[r].data :
                             w <= periods[seen[r].period] =>
                                 seen[r].data[w] >= seen[r].period
    BY DEF CounterCoversData
  <2>1. ReaderInStep(r)
    BY DEF IInv
  <2>2. DOMAIN seen[r].data = 1..Len(seen[r].data)
    BY Types DEF Seen
  <2> QED
    BY <2>1, <2>2 DEF ReaderInStep
<1> QED
  BY Invariance, <1>1, PTL

(* A copy nobody gets into is the one period its counter named, although    *)
(* neither the publisher nor the reader takes a lock.                       *)
THEOREM QuietCopies == Spec => []UndisturbedCopyIsThePeriod
<1>1. IInv => UndisturbedCopyIsThePeriod
  <2> SUFFICES ASSUME IInv, NEW r \in Readers, rpc[r] = "poll",
                      seen[r].period # 0, ~disturbed[r]
               PROVE  LET p == seen[r].period
                      IN /\ seen[r].stamp = p /\ Len(seen[r].data) = size[r]
                         /\ \A w \in 1..size[r] :
                               IF w <= periods[p] THEN seen[r].data[w] = p
                                                  ELSE seen[r].data[w] < p
    BY DEF UndisturbedCopyIsThePeriod
  <2>1. ReaderInStep(r)
    BY DEF IInv
  <2>2. Len(seen[r].data) = size[r] /\ seen[r].stamp = seen[r].period
    BY <2>1 DEF ReaderInStep
  <2>3. 1..size[r] \subseteq Area
    <3>1. size[r] \in {-1, 0, Words} /\ Words \in Nat
      BY Types
    <3> QED
      BY <3>1 DEF Area
  <2>4. \A w \in 1..size[r] : seen[r].data[w] = shm[seg[r]].data[w]
    BY <2>1, <2>2 DEF ReaderInStep
  <2>5. IsPeriod(shm[seg[r]].data, periods[seen[r].period], seen[r].period)
    BY <2>1 DEF ReaderInStep
  <2> QED
    BY <2>2, <2>3, <2>4, <2>5 DEF IsPeriod
<1> QED
  BY Invariance, <1>1, PTL

-----------------------------------------------------------------------------
(* The readers' stream.  A counter of 0 is no period, in a header and for a *)
(* reader; while a period is being written no header names it.              *)
HeadersInStream ==
    /\ ppc = "data" => counter > 0
    /\ \A s \in 1..MaxStarts :
         LET h == shm[s].header
         IN /\ h.period = 0 <=> h.counter = 0
            /\ ppc = "data" => h.period < Current

(* A segment that a run has created, or that one may still create, counts   *)
(* from 0: only what a crash left behind is cleared.                        *)
FreshInStream ==
    /\ linked <= starts
    /\ \A s \in 1..MaxStarts : s > starts => shm[s].header.counter = 0
    /\ ppc = "open" /\ mapped = starts => shm[mapped].header.counter = 0

(* The counter begins at 0 again with every run of the daemon, but a header *)
(* that names the newest period a reader has had still holds the counter it *)
(* kept, and every other one names a newer period or none.                  *)
ReaderInStream(r) ==
    LET p == seen[r].period
        n == newest[r]
        h == shm[seg[r]].header
    IN /\ p = 0 => last[r] = 0
       /\ ppc = "data" => n < Current
       /\ n # 0 /\ h.period # 0 =>
            /\ h.period >= n
            /\ h.period = n => p = n /\ h.counter = last[r]

StreamInv ==
    /\ HeadersInStream
    /\ FreshInStream
    /\ \A r \in Readers : ReaderInStream(r)

(* What a step of the publisher does to the header of s: nothing a reader   *)
(* polls, or it clears it, or it names the period that has been written.    *)
HeaderKept(s) ==
    /\ shm'[s].header.period = shm[s].header.period
    /\ shm'[s].header.counter = shm[s].header.counter

HeaderMoves(s) ==
    \/ HeaderKept(s)
    \/ shm'[s].header.period = 0 /\ shm'[s].header.counter = 0
    \/ /\ ppc = "data" /\ ppc' = "idle" /\ s = mapped
       /\ shm'[s].header.period = Current
       /\ shm'[s].header.counter = counter

Moves ==
    /\ \A s \in 1..MaxStarts : HeaderMoves(s)
    /\ ppc' = "data" =>
         /\ \A s \in 1..MaxStarts : HeaderKept(s)
         /\ \/ ppc = "data" /\ Current' = Current /\ counter' = counter
            \/ Current' = Current + 1 /\ counter' = counter + 1
    /\ \/ Open
       \/ starts' = starts /\ linked' \in {0, linked} /\ ppc' # "open"

LEMMA PublisherGrows ==
    ASSUME IInv, Publisher
    PROVE  Current <= Current' /\ Current' \in Nat
<1>1. Watched /\ UNCHANGED own
  BY DEF Publisher, Watched, own
<1>2. Grows
  BY <1>1, OpenStep, EndStep, HeaderStep, BeginStep, WordStep,
     EndOfPublishStep DEF Publisher, HeaderSteps
<1>3. Current' \in Nat
  BY PublisherIInv DEF IInv, TypeOK, Current
<1> QED
  BY <1>2, <1>3 DEF Grows

LEMMA PublisherMoves == IInv /\ Publisher => Moves
<1> SUFFICES ASSUME IInv, Publisher PROVE Moves
  OBVIOUS
<1>1. /\ shm \in [1..MaxStarts -> Segment] /\ Current \in Nat
      /\ periods \in Seq(Area) /\ Words \in Nat \ {0}
  BY Types
<1>2. \A s \in 1..MaxStarts :
          /\ shm[s] \in [magic : BOOLEAN, frames : {0, Words}, header : Header,
                         data : [Area -> 0..MaxPeriods]]
          /\ shm[s].header \in Header
  BY <1>1 DEF Segment
<1>3. CASE Open \/ Cleanup \/ Crash
  <2>1. /\ shm' = shm /\ ppc' # "data"
        /\ \/ Open
           \/ starts' = starts /\ linked' \in {0, linked} /\ ppc' # "open"
    BY <1>3 DEF Open, Cleanup, Crash
  <2> QED
    BY <2>1 DEF Moves, HeaderMoves, HeaderKept
<1>4. ASSUME ppc # "down"
      PROVE  mapped \in 1..MaxStarts
  BY <1>4, MappedSegment
<1>5. CASE HeaderSteps
  <2>1. /\ ppc' \notin {"data", "open"}
        /\ UNCHANGED <<starts, linked>>
        /\ shm'[mapped].header \in {Zeroed, shm[mapped].header}
        /\ \A s \in 1..MaxStarts : s # mapped => shm'[s] = shm[s]
    BY <1>5, HeaderChange
  <2>2. \A s \in 1..MaxStarts : HeaderMoves(s)
    BY <2>1 DEF HeaderMoves, HeaderKept, Zeroed
  <2> QED
    BY <2>1, <2>2 DEF Moves
<1>6. CASE \E n \in 1..(Words + 1) : PublishBegin(n)
  <2>1. PICK n \in 1..(Words + 1) : PublishBegin(n)
    BY <1>6
  <2>2. /\ mapped \in 1..MaxStarts /\ counter' = counter + 1
        /\ shm' = [shm EXCEPT ![mapped].header.stamp = Current + 1]
    BY <1>4, <2>1 DEF PublishBegin
  <2>3. shm'[mapped].header = [shm[mapped].header EXCEPT !.stamp = Current + 1]
    BY <1>1, <1>2, <2>2
  <2>4. \A s \in 1..MaxStarts : s # mapped => shm'[s] = shm[s]
    BY <1>1, <2>2
  <2>5. \A s \in 1..MaxStarts : HeaderKept(s)
    BY <1>2, <2>2, <2>3, <2>4 DEF HeaderKept, Header
  <2>6. Current' = Current + 1
    <3>1. periods' = Append(periods, IF n > Words THEN Words ELSE n)
      BY <2>1 DEF PublishBegin
    <3>2. (IF n > Words THEN Words ELSE n) \in Area
      BY <1>1 DEF Area
    <3> QED
      BY <1>1, <3>1, <3>2 DEF Current
  <2>7. UNCHANGED <<starts, linked>> /\ ppc' = "data"
    BY <2>1 DEF PublishBegin
  <2> QED
    BY <2>2, <2>5, <2>6, <2>7 DEF Moves, HeaderMoves
<1>7. CASE \E w \in Area : PublishWord(w)
  <2>1. PICK w \in Area : PublishWord(w)
    BY <1>7
  <2>2. /\ mapped \in 1..MaxStarts
        /\ UNCHANGED <<starts, linked, counter, periods, ppc>> /\ ppc = "data"
        /\ shm' = [shm EXCEPT ![mapped].data[w] = Current]
    BY <1>4, <2>1 DEF PublishWord
  <2>3. shm'[mapped].header = shm[mapped].header
    BY <1>1, <1>2, <2>2
  <2>4. \A s \in 1..MaxStarts : s # mapped => shm'[s] = shm[s]
    BY <1>1, <2>2
  <2>5. \A s \in 1..MaxStarts : HeaderKept(s)
    BY <2>3, <2>4 DEF HeaderKept
  <2> QED
    BY <2>2, <2>5 DEF Moves, HeaderMoves, Current
<1>8. CASE PublishEnd
  <2>1. /\ mapped \in 1..MaxStarts /\ ppc = "data" /\ ppc' = "idle"
        /\ UNCHANGED <<starts, linked>>
        /\ shm' = [shm EXCEPT ![mapped].header.counter = counter,
                              ![mapped].header.period = Current]
    BY <1>4, <1>8 DEF PublishEnd
  <2>2. shm'[mapped].header = [shm[mapped].header EXCEPT !.counter = counter,
                                                         !.period = Current]
    BY <1>1, <1>2, <2>1
  <2>3. /\ shm'[mapped].header.period = Current
        /\ shm'[mapped].header.counter = counter
    BY <1>2, <2>1, <2>2 DEF Header
  <2>4. \A s \in 1..MaxStarts : s # mapped => shm'[s] = shm[s]
    BY <1>1, <2>1
  <2>5. \A s \in 1..MaxStarts : HeaderMoves(s)
    BY <2>1, <2>3, <2>4 DEF HeaderMoves, HeaderKept
  <2> QED
    BY <2>1, <2>5 DEF Moves
<1> QED
  BY <1>3, <1>5, <1>6, <1>7, <1>8 DEF Publisher, HeaderSteps

(* A reader has only read what the publisher has begun, and no header names *)
(* a period that has not.                                                   *)
LEMMA StreamNumbers ==
    ASSUME IInv
    PROVE  /\ Current \in Nat /\ counter \in Nat
           /\ \A s \in 1..MaxStarts :
                /\ shm[s].header.period \in 0..Current
                /\ shm[s].header.counter \in Nat
           /\ \A r \in Readers :
                /\ newest[r] \in 0..Current /\ last[r] \in Nat
                /\ seen[r].period \in {0, newest[r]}
                /\ seg[r] \in 0..MaxStarts
                /\ size[r] # Unread \/ newest[r] # 0 => seg[r] # 0
<1>1. Current \in Nat /\ counter \in Nat
  BY Types
<1>2. ASSUME NEW s \in 1..MaxStarts
      PROVE  /\ shm[s].header.period \in 0..Current
             /\ shm[s].header.counter \in Nat
  <2>1. SegmentInStep(s) /\ shm[s] \in Segment
    BY Types DEF IInv
  <2> QED
    BY <1>1, <2>1, SegmentNumbers DEF SegmentInStep
<1>3. ASSUME NEW r \in Readers
      PROVE  /\ newest[r] \in 0..Current /\ last[r] \in Nat
             /\ seen[r].period \in {0, newest[r]} /\ seg[r] \in 0..MaxStarts
             /\ size[r] # Unread \/ newest[r] # 0 => seg[r] # 0
  <2>1. last[r] \in Nat
    BY PublisherAssumption DEF IInv, TypeOK
  <2>2. newest[r] \in Nat /\ seg[r] \in 0..MaxStarts
    BY Types
  <2>3. /\ newest[r] <= Current /\ seen[r].period \in {0, newest[r]}
        /\ size[r] # Unread \/ newest[r] # 0 => seg[r] # 0
    BY DEF IInv, ReaderInStep
  <2> QED
    BY <1>1, <2>1, <2>2, <2>3
<1> QED
  BY <1>1, <1>2, <1>3

(* Runs create segments in turn, and only the one in use counts.            *)
LEMMA PublisherFresh == IInv /\ StreamInv /\ Publisher => FreshInStream'
<1> SUFFICES ASSUME IInv, StreamInv, Publisher PROVE FreshInStream'
  OBVIOUS
<1>1. /\ linked \in 0..MaxStarts /\ mapped \in {0, linked} /\ starts \in Nat
      /\ linked <= starts /\ MaxStarts \in Nat
      /\ \A s \in 1..MaxStarts : s > starts => shm[s].header.counter = 0
  BY Types DEF IInv, TypeOK, StreamInv, FreshInStream
<1>2. Moves
  BY PublisherMoves
<1>3. CASE Open
  <2>1. /\ shm' = shm /\ starts' = starts + 1 /\ starts' \in 1..MaxStarts
        /\ mapped' = (IF linked = 0 THEN starts' ELSE linked)
        /\ linked' = mapped'
    BY <1>1, <1>3 DEF Open
  <2>2. linked' <= starts'
    BY <1>1, <2>1
  <2>3. \A s \in 1..MaxStarts : s > starts' => shm'[s].header.counter = 0
    BY <1>1, <2>1
  <2>4. mapped' = starts' => shm'[mapped'].header.counter = 0
    BY <1>1, <2>1
  <2> QED
    BY <2>2, <2>3, <2>4 DEF FreshInStream
<1>4. CASE starts' = starts /\ linked' \in {0, linked} /\ ppc' # "open"
  <2>1. ASSUME NEW s \in 1..MaxStarts, s > starts
        PROVE  shm'[s].header.counter = 0
    <3>1. s # mapped
      BY <1>1, <2>1
    <3> QED
      BY <1>1, <1>2, <2>1, <3>1 DEF Moves, HeaderMoves, HeaderKept
  <2> QED
    BY <1>1, <1>4, <2>1 DEF FreshInStream
<1> QED
  BY <1>2, <1>3, <1>4 DEF Moves

(* The publisher carries the stream on.                                     *)
LEMMA PublisherStream == IInv /\ StreamInv /\ Publisher => StreamInv'
<1> SUFFICES ASSUME IInv, StreamInv, Publisher PROVE StreamInv'
  OBVIOUS
<1>1. Moves /\ FreshInStream' /\ UNCHANGED <<seg, last, seen, newest>>
  BY PublisherMoves, PublisherFresh DEF Publisher
<1>2. HeadersInStream'
  <2>1. ppc' = "data" => counter' > 0
    BY <1>1, StreamNumbers DEF Moves, StreamInv, HeadersInStream
  <2>2. ASSUME NEW s \in 1..MaxStarts
        PROVE  shm'[s].header.period = 0 <=> shm'[s].header.counter = 0
    <3>1. HeaderMoves(s) /\ (ppc = "data" => counter > 0)
          /\ (shm[s].header.period = 0 <=> shm[s].header.counter = 0)
          /\ (ppc = "data" => shm[s].header.period < Current)
      BY <1>1 DEF Moves, StreamInv, HeadersInStream
    <3> QED
      BY <3>1, StreamNumbers DEF HeaderMoves, HeaderKept
  <2>3. ASSUME ppc' = "data", NEW s \in 1..MaxStarts
        PROVE  shm'[s].header.period < Current'
    <3>1. HeaderKept(s) /\ (ppc = "data" => shm[s].header.period < Current)
      BY <1>1, <2>3 DEF Moves, StreamInv, HeadersInStream
    <3> QED
      BY <1>1, <2>3, <3>1, StreamNumbers DEF Moves, HeaderKept
  <2> QED
    BY <2>1, <2>2, <2>3 DEF HeadersInStream
<1>3. ASSUME NEW r \in Readers PROVE ReaderInStream(r)'
  <2> DEFINE n == newest[r]
             s == seg[r]
  <2>1. /\ ppc = "data" => n < Current
        /\ n # 0 /\ shm[s].header.period # 0 =>
             /\ shm[s].header.period >= n
             /\ shm[s].header.period = n =>
                   seen[r].period = n /\ shm[s].header.counter = last[r]
    BY DEF StreamInv, ReaderInStream
  <2>2. n \in Nat /\ n <= Current /\ Current \in Nat
        /\ (n # 0 => s \in 1..MaxStarts)
    BY StreamNumbers, PublisherAssumption
  <2>3. ppc' = "data" => n < Current'
    <3>1. Current <= Current' /\ Current' \in Nat
      BY PublisherGrows
    <3> QED
      BY <1>1, <2>1, <2>2, <3>1 DEF Moves
  <2>4. n # 0 => HeaderMoves(s)
    BY <1>1, <2>2 DEF Moves
  <2>5. n # 0 /\ shm'[s].header.period # 0 =>
          /\ shm'[s].header.period >= n
          /\ shm'[s].header.period = n =>
                seen[r].period = n /\ shm'[s].header.counter = last[r]
    BY <2>1, <2>2, <2>4 DEF HeaderMoves, HeaderKept
  <2>6. seen[r].period = 0 => last[r] = 0
    BY DEF StreamInv, ReaderInStream
  <2> QED
    BY <1>1, <2>3, <2>5, <2>6 DEF ReaderInStream
<1> QED
  BY <1>1, <1>2, <1>3 DEF StreamInv

(* A reader takes a counter with the period it names, and keeps it until it *)
(* polls again.                                                             *)
LEMMA ReaderStream ==
    ASSUME IInv, StreamInv, NEW r \in Readers, Reader(r)
    PROVE  StreamInv'
<1>1. /\ UNCHANGED <<shm, linked, mapped, starts, ppc, counter, periods>>
      /\ Current' = Current
  BY DEF Reader, publisherVars, Current
<1>2. HeadersInStream' /\ FreshInStream'
  BY <1>1 DEF StreamInv, HeadersInStream, FreshInStream
<1>3. /\ seen \in [Readers -> Seen] /\ seg \in [Readers -> 0..MaxStarts]
      /\ last \in [Readers -> 0..MaxPeriods]
      /\ newest \in [Readers -> 0..MaxPeriods]
  BY Types DEF IInv, TypeOK
<1>4. ASSUME NEW q \in Readers, seen'[q].period = seen[q].period,
             last'[q] = last[q], newest'[q] = newest[q],
             seg'[q] = seg[q] \/ newest[q] = 0
      PROVE  ReaderInStream(q)'
  BY <1>1, <1>4 DEF StreamInv, ReaderInStream
<1>5. ASSUME NEW q \in Readers, q # r PROVE ReaderInStream(q)'
  <2>1. /\ seen'[q] = seen[q] /\ last'[q] = last[q] /\ seg'[q] = seg[q]
        /\ newest'[q] = newest[q]
    BY <1>3, <1>5 DEF Reader, Attach, ReadSize, Poll, ReadStamp, ReadWord
  <2> QED
    BY <1>4, <2>1
<1>6. ReaderInStream(r)'
  <2>1. CASE Attach(r)
    <3>1. newest[r] = 0
      BY <2>1, StreamNumbers DEF Attach
    <3> QED
      BY <1>4, <2>1, <3>1 DEF Attach
  <2>2. CASE Poll(r)
    <3> DEFINE h == shm[seg[r]].header
    <3>1. seg[r] \in 1..MaxStarts /\ UNCHANGED seg
      BY <2>2, StreamNumbers, PublisherAssumption DEF Poll
    <3>2. last'[r] = h.counter /\ seen'[r] = [Nothing EXCEPT !.period = h.period]
      BY <1>3, <2>2 DEF Poll
    <3>3. seen'[r].period = h.period
      BY <3>2 DEF Nothing
    <3>4. /\ h.period = 0 <=> h.counter = 0
          /\ ppc = "data" => h.period < Current
      BY <3>1 DEF StreamInv, HeadersInStream
    <3>5. /\ h.period \in 0..Current /\ Current \in Nat
          /\ shm'[seg'[r]].header = h /\ seg'[r] # 0
      BY <1>1, <3>1, StreamNumbers
    <3>6. newest'[r] = IF h.period = 0 THEN newest[r] ELSE h.period
      BY <1>3, <2>2, <3>3 DEF Poll
    <3>7. ppc = "data" => newest[r] < Current
      BY DEF StreamInv, ReaderInStream
    <3> HIDE DEF h
    <3> QED
      BY <1>1, <3>2, <3>3, <3>4, <3>5, <3>6, <3>7 DEF ReaderInStream
  <2>3. CASE ReadSize(r) \/ ReadStamp(r) \/ ReadWord(r)
    <3>1. seen'[r].period = seen[r].period
      BY <1>3, <2>3 DEF ReadSize, ReadStamp, ReadWord, Seen
    <3> QED
      BY <1>4, <2>3, <3>1 DEF ReadSize, ReadStamp, ReadWord
  <2> QED
    BY <2>1, <2>2, <2>3 DEF Reader
<1> QED
  BY <1>2, <1>5, <1>6 DEF StreamInv

LEMMA StreamInvariance == Spec => []StreamInv
<1>1. Init => StreamInv
  <2> SUFFICES ASSUME Init PROVE StreamInv
    OBVIOUS
  <2>1. HeadersInStream
    BY DEF Init, HeadersInStream, Fresh, Zeroed
  <2>2. \A r \in Readers : ReaderInStream(r)
    BY DEF Init, ReaderInStream, Nothing, Current
  <2>3. FreshInStream
    BY DEF Init, FreshInStream, Fresh, Zeroed
  <2> QED
    BY <2>1, <2>2, <2>3 DEF StreamInv
<1>2. IInv /\ StreamInv /\ [Next]_vars => StreamInv'
  <2> SUFFICES ASSUME IInv, StreamInv, [Next]_vars PROVE StreamInv'
    OBVIOUS
  <2>1. CASE UNCHANGED vars
    BY <2>1 DEF vars, publisherVars, readerVars, StreamInv, HeadersInStream,
                FreshInStream, ReaderInStream, Current
  <2> QED
    BY <2>1, PublisherStream, ReaderStream DEF Next
<1> QED
  BY <1>1, <1>2, Invariance, PTL DEF Spec

-----------------------------------------------------------------------------
(* What the readers' counters say of a restart follows the counters of the  *)
(* segments.                                                                *)
LEMMA ClearedKept ==
    ASSUME IInv, UNCHANGED <<seg, last>>,
           \A s \in 1..MaxStarts :
               shm'[s].header.counter = shm[s].header.counter
    PROVE  Cleared' = Cleared
<1>1. \A r \in Readers : seg[r] # 0 => seg[r] \in 1..MaxStarts
  BY Types
<1> QED
  BY <1>1 DEF Cleared

(* The runs of the daemon are those of the stream.                          *)
LEMMA RunsImplement ==
    ASSUME IInv, StreamInv, Open \/ Cleanup \/ Crash, UNCHANGED own
    PROVE  Stream!Next
<1>1. /\ UNCHANGED <<shm, periods, seg, last, size, rpc, seen, newest>>
      /\ linked \in Nat /\ starts \in Nat /\ linked <= starts
      /\ ppc # "down" => mapped # 0 /\ mapped = linked
  BY Types DEF Open, Cleanup, Crash, own, StreamInv, FreshInStream, IInv,
               Mapping
<1>2. Cleared' = Cleared /\ UNCHANGED Stream!readerVars
  BY <1>1, ClearedKept DEF Stream!readerVars
<1>3. CASE Open
  <2>1. Run = IF linked = 0 THEN "ended" ELSE "crashed"
    BY <1>3 DEF Open, Run
  <2>2. Run' = IF linked = 0 THEN "up" ELSE "restarting"
    BY <1>1, <1>3 DEF Open, Run
  <2> QED
    BY <1>1, <1>2, <2>1, <2>2 DEF Stream!Next, Stream!Start
<1>4. CASE Cleanup
  <2>1. Run = "up" /\ Run' = "ended"
    BY <1>4 DEF Cleanup, Run
  <2> QED
    BY <1>1, <1>2, <2>1 DEF Stream!Next, Stream!End
<1>5. CASE Crash
  <2>1. Run \in {"up", "restarting"} /\ Run' = "crashed"
    BY <1>1, <1>5 DEF Crash, Run
  <2> QED
    BY <1>1, <1>2, <2>1 DEF Stream!Next, Stream!Crash
<1> QED
  BY <1>3, <1>4, <1>5

(* A restart clears the counter of a segment that a crash has left behind,  *)
(* under the readers that have seen it; a new one's is 0 already.           *)
LEMMA HeaderImplements ==
    ASSUME IInv, StreamInv, HeaderSteps, UNCHANGED own
    PROVE  Stream!Next \/ UNCHANGED Stream!vars
<1>1. /\ UNCHANGED <<seg, last, size, rpc, seen, newest, periods>>
      /\ UNCHANGED <<mapped, starts, linked>>
      /\ mapped \in 1..MaxStarts /\ Run' = "up"
      /\ \A s \in 1..MaxStarts : s # mapped => shm'[s] = shm[s]
  BY HeaderChange DEF own, Run
<1>2. \A r \in Readers : seg[r] # 0 => seg[r] \in 1..MaxStarts
  BY Types
<1>3. UNCHANGED Stream!readerVars
  BY <1>1 DEF Stream!readerVars
<1>4. CASE ClearHeader
  <2>1. shm'[mapped].header.counter = 0 /\ ppc = "open"
    BY <1>4, HeaderChange DEF Zeroed, ClearHeader
  <2>2. CASE mapped = starts
    <3>1. shm[mapped].header.counter = 0 /\ Run = "up"
      BY <2>1, <2>2 DEF StreamInv, FreshInStream, Run
    <3>2. Cleared' = Cleared
      BY <1>1, <2>1, <3>1, ClearedKept
    <3> QED
      BY <1>1, <1>3, <3>1, <3>2 DEF Stream!vars, Stream!streamVars
  <2>3. CASE mapped # starts
    <3> DEFINE readers == {r \in Readers : seg[r] = mapped /\ last[r] # 0}
    <3>1. Run = "restarting"
      BY <2>1, <2>3 DEF Run
    <3>2. ASSUME NEW r \in Readers
          PROVE  /\ seg'[r] # 0 /\ shm'[seg'[r]].header.counter = 0
                    /\ last'[r] # 0
                 <=> Cleared[r] \/ r \in readers
      <4>1. CASE seg[r] = mapped
        <5>1. /\ seg'[r] # 0 /\ shm'[seg'[r]].header.counter = 0
              /\ last'[r] = last[r]
          BY <1>1, <2>1, <4>1
        <5>2. Cleared[r] => last[r] # 0
          BY DEF Cleared
        <5>3. r \in readers <=> last[r] # 0
          BY <4>1
        <5> HIDE DEF readers
        <5> QED
          BY <5>1, <5>2, <5>3
      <4>2. CASE seg[r] # mapped
        <5>1. seg[r] # 0 => shm'[seg[r]] = shm[seg[r]]
          BY <1>1, <1>2, <4>2
        <5> QED
          BY <1>1, <4>2, <5>1 DEF Cleared
      <4> QED
        BY <4>1, <4>2
    <3>3. Cleared' = [r \in Readers |-> Cleared[r] \/ r \in readers]
      <4> HIDE DEF readers
      <4> QED
        BY <3>2 DEF Cleared
    <3>4. Stream!Clear(readers)
      BY <1>1, <1>3, <3>1, <3>3 DEF Stream!Clear
    <3>5. readers \in SUBSET Readers
      OBVIOUS
    <3> HIDE DEF readers
    <3> QED
      BY <3>4, <3>5 DEF Stream!Next
  <2> QED
    BY <2>2, <2>3
<1>5. CASE ~ClearHeader
  <2>1. Run = "up"
    BY <1>5 DEF HeaderSteps, WriteMagic, WriteFrames, Run
  <2>2. shm'[mapped].header = shm[mapped].header
    BY <1>5, HeaderChange
  <2>3. Cleared' = Cleared
    BY <1>1, <2>2, ClearedKept
  <2> QED
    BY <1>1, <1>3, <2>1, <2>3 DEF Stream!vars, Stream!streamVars
<1> QED
  BY <1>4, <1>5

(* A period begins, its words are copied unseen, and it is there.           *)
LEMMA PeriodImplements ==
    ASSUME IInv, StreamInv, UNCHANGED own, Moves,
           \/ \E n \in 1..(Words + 1) : PublishBegin(n)
           \/ \E w \in Area : PublishWord(w)
           \/ PublishEnd
    PROVE  Stream!Next \/ UNCHANGED Stream!vars
<1>1. UNCHANGED <<seg, last, size, rpc, seen, newest>>
  BY DEF own
<1>2. UNCHANGED Stream!readerVars
  BY <1>1 DEF Stream!readerVars
<1>3. Run = "up" /\ Run' = "up"
  BY DEF PublishBegin, PublishWord, PublishEnd, Run
<1>4. CASE \E n \in 1..(Words + 1) : PublishBegin(n)
  <2>1. PICK n \in 1..(Words + 1) : PublishBegin(n)
    BY <1>4
  <2> DEFINE len == IF n > Words THEN Words ELSE n
  <2>2. len \in Stream!Area /\ periods' = Append(periods, len)
        /\ ppc' = "data"
    BY <2>1, PublisherAssumption DEF PublishBegin, Stream!Area
  <2>3. Cleared' = Cleared
    BY <1>1, <2>2, ClearedKept DEF Moves, HeaderKept
  <2>4. Stream!Begin(len)
    BY <1>2, <1>3, <2>2, <2>3 DEF Stream!Begin
  <2> QED
    BY <2>2, <2>4 DEF Stream!Next
<1>5. CASE \E w \in Area : PublishWord(w)
  <2>1. UNCHANGED periods /\ ppc' = "data"
    BY <1>5 DEF PublishWord
  <2>2. Cleared' = Cleared
    BY <1>1, <2>1, ClearedKept DEF Moves, HeaderKept
  <2> QED
    BY <1>2, <1>3, <2>1, <2>2 DEF Stream!vars, Stream!streamVars
<1>6. CASE PublishEnd
  <2> DEFINE readers == {r \in Readers : seg[r] = mapped}
  <2>1. /\ ppc = "data" /\ UNCHANGED periods
        /\ mapped \in 1..MaxStarts /\ shm[mapped] \in Segment
        /\ shm \in [1..MaxStarts -> Segment]
        /\ shm' = [shm EXCEPT ![mapped].header.counter = counter,
                              ![mapped].header.period = Current]
    BY <1>6, MappedSegment, Types DEF PublishEnd
  <2>2. counter > 0 /\ counter \in Nat
    BY <2>1, StreamNumbers DEF StreamInv, HeadersInStream
  <2>3. shm'[mapped].header.counter = counter
    <3>1. shm[mapped].header \in Header
      BY <2>1, SegmentNumbers
    <3>2. shm'[mapped].header = [shm[mapped].header EXCEPT
                                    !.counter = counter, !.period = Current]
      BY <2>1 DEF Segment
    <3> QED
      BY <3>1, <3>2 DEF Header
  <2>4. \A s \in 1..MaxStarts : s # mapped => shm'[s] = shm[s]
    BY <2>1
  <2>5. ASSUME NEW r \in Readers
        PROVE  /\ seg'[r] # 0 /\ shm'[seg'[r]].header.counter = 0
                  /\ last'[r] # 0
               <=> Cleared[r] /\ r \notin readers
    <3>1. CASE seg[r] = mapped
      BY <1>1, <2>2, <2>3, <3>1
    <3>2. CASE seg[r] # mapped
      <4>1. seg[r] # 0 => shm'[seg[r]] = shm[seg[r]]
        BY <2>4, <3>2, Types
      <4> QED
        BY <1>1, <3>2, <4>1 DEF Cleared
    <3> QED
      BY <3>1, <3>2
  <2>6. Cleared' = [r \in Readers |-> Cleared[r] /\ r \notin readers]
    <3> HIDE DEF readers
    <3> QED
      BY <2>5 DEF Cleared
  <2>7. Stream!Overtake(readers)
    BY <1>2, <1>3, <2>1, <2>6 DEF Stream!Overtake
  <2>8. readers \in SUBSET Readers
    OBVIOUS
  <2> HIDE DEF readers
  <2> QED
    BY <2>7, <2>8 DEF Stream!Next
<1> QED
  BY <1>4, <1>5, <1>6

(* The publisher's steps are those of the stream, or go unseen.             *)
LEMMA PublisherImplements ==
    IInv /\ StreamInv /\ Publisher => Stream!Next \/ UNCHANGED Stream!vars
<1> SUFFICES ASSUME IInv, StreamInv, Publisher
             PROVE  Stream!Next \/ UNCHANGED Stream!vars
  OBVIOUS
<1>1. UNCHANGED own /\ Moves
  BY PublisherMoves DEF Publisher, own
<1> QED
  BY <1>1, RunsImplement, HeaderImplements, PeriodImplements
     DEF Publisher, HeaderSteps

(* A counter that has changed names a newer period, or it is 0 and the      *)
(* reader had one that is not: a restart has cleared it.                    *)
LEMMA PollImplements ==
    ASSUME IInv, StreamInv, NEW r \in Readers, Poll(r), UNCHANGED publisherVars
    PROVE  Stream!Next
<1> DEFINE h == shm[seg[r]].header
           p == h.period
<1>1. /\ size[r] # Unread /\ rpc[r] = "poll" /\ h.counter # last[r]
      /\ UNCHANGED <<shm, linked, mapped, starts, ppc, periods, seg, size>>
      /\ last' = [last EXCEPT ![r] = h.counter]
      /\ seen' = [seen EXCEPT ![r] = [Nothing EXCEPT !.period = p]]
      /\ rpc' = [rpc EXCEPT ![r] = "stamp"]
      /\ newest' = [newest EXCEPT ![r] =
                      IF seen'[r].period = 0 THEN @ ELSE seen'[r].period]
  BY DEF Poll, publisherVars
<1>2. seg[r] \in 1..MaxStarts
  BY <1>1, StreamNumbers, PublisherAssumption
<1>3. p \in 0..Current /\ newest[r] \in Nat /\ Current \in Nat
  BY <1>2, StreamNumbers
<1>4. p = 0 <=> h.counter = 0
  BY <1>2 DEF StreamInv, HeadersInStream
<1>5. newest[r] # 0 /\ p # 0 =>
           p >= newest[r] /\ (p = newest[r] => h.counter = last[r])
  BY DEF StreamInv, ReaderInStream
<1>6. Cleared[r] <=> h.counter = 0 /\ last[r] # 0
  <2>1. seg[r] # 0
    BY <1>2
  <2>2. Cleared[r] = (seg[r] # 0 /\ h.counter = 0 /\ last[r] # 0)
    BY DEF Cleared
  <2> QED
    BY <2>1, <2>2, Zenon
<1>7. Cleared' = [Cleared EXCEPT ![r] = FALSE]
  <2>1. last \in [Readers -> 0..MaxPeriods]
    BY DEF IInv, TypeOK
  <2>2. \A q \in Readers : q # r => last'[q] = last[q]
    BY <1>1, <2>1
  <2>3. last'[r] = h.counter
    BY <1>1, <2>1
  <2>4. ~(shm'[seg'[r]].header.counter = 0 /\ last'[r] # 0)
    BY <1>1, <2>3
  <2> HIDE DEF h, p
  <2> QED
    BY <1>1, <2>2, <2>4 DEF Cleared
<1>8. Run' = Run
  BY <1>1 DEF Run
<1> HIDE DEF h, p
<1>9. newest' = [newest EXCEPT ![r] = IF p = 0 THEN @ ELSE p]
  <2>1. seen'[r].period = p
    BY <1>1, Types DEF Nothing
  <2> QED
    BY <1>1, <2>1
<1>10. Stream!Reads(r, p)
  BY <1>1, <1>8 DEF Stream!Reads, Stream!Nothing, Nothing, Stream!Unread, Unread
<1>11. CASE p # 0
  <2>1. p > newest[r]
    BY <1>1, <1>3, <1>5, <1>11
  <2>2. newest' = [newest EXCEPT ![r] = p]
    BY <1>9, <1>11
  <2>3. Cleared' = Cleared
    <3>1. Cleared[r] = FALSE
      BY <1>4, <1>6, <1>11 DEF Cleared
    <3> QED
      BY <1>7, <3>1 DEF Cleared
  <2> QED
    BY <1>3, <1>10, <2>1, <2>2, <2>3
       DEF Stream!Next, Stream!Learn, Stream!Current, Current
<1>12. CASE p = 0
  <2>1. Cleared[r]
    BY <1>1, <1>4, <1>6, <1>12
  <2>2. UNCHANGED newest
    BY <1>9, <1>12, Types
  <2> QED
    BY <1>7, <1>10, <1>12, <2>1, <2>2 DEF Stream!Next, Stream!LearnOfRestart
<1> QED
  BY <1>11, <1>12

(* A reader that maps a segment has seen no counter yet, and the size it    *)
(* then takes is that of a period or 0.                                     *)
LEMMA ArrivalImplements ==
    ASSUME IInv, StreamInv, NEW r \in Readers, Attach(r) \/ ReadSize(r),
           UNCHANGED publisherVars
    PROVE  Stream!Next \/ UNCHANGED Stream!vars
<1>1. /\ UNCHANGED <<shm, linked, mapped, starts, ppc, periods>>
      /\ UNCHANGED <<last, rpc, seen, newest>>
  BY DEF Attach, ReadSize, publisherVars
<1>2. Run' = Run
  BY <1>1 DEF Run
<1>3. CASE Attach(r)
  <2>1. last[r] = 0
    <3>1. seen[r].period = 0
      BY <1>3 DEF Attach, IInv, ReaderInStep
    <3> QED
      BY <3>1 DEF StreamInv, ReaderInStream
  <2>2. \A q \in Readers : q # r => seg'[q] = seg[q]
    BY <1>3, Types DEF Attach
  <2>3. Cleared' = Cleared
    BY <1>1, <2>1, <2>2 DEF Cleared
  <2> QED
    BY <1>1, <1>2, <1>3, <2>3
       DEF Attach, Stream!vars, Stream!streamVars, Stream!readerVars
<1>4. CASE ReadSize(r)
  <2>1. shm[seg[r]].frames \in {0, Words}
    <3>1. seg[r] \in 1..MaxStarts /\ shm \in [1..MaxStarts -> Segment]
      BY <1>4, Types DEF ReadSize
    <3> QED
      BY <3>1 DEF Segment
  <2>2. Cleared' = Cleared
    BY <1>1, <1>4 DEF Cleared, ReadSize
  <2>3. Stream!Attach(r, shm[seg[r]].frames)
    BY <1>1, <1>2, <1>4, <2>2
       DEF ReadSize, Stream!Attach, Stream!streamVars, Stream!Unread, Unread
  <2> QED
    BY <2>1, <2>3 DEF Stream!Next
<1> QED
  BY <1>3, <1>4

(* The timestamp and the samples in the segment are those of the newest     *)
(* period the reader has learned of or later ones, after a restart too.     *)
LEMMA CopyImplements ==
    ASSUME IInv, NEW r \in Readers, ReadStamp(r) \/ ReadWord(r),
           UNCHANGED publisherVars
    PROVE  Stream!Next
<1> DEFINE n == newest[r]
           g == shm[seg[r]]
           d == seen[r].data
<1>1. ReaderInStep(r) /\ seg[r] \in 1..MaxStarts
  <2>1. ReaderInStep(r) /\ rpc[r] # "poll"
    BY DEF IInv, ReadStamp, ReadWord
  <2> QED
    BY <2>1, Types DEF ReaderInStep
<1>2. SegmentInStep(seg[r]) /\ g \in Segment /\ Current \in Nat
      /\ n \in 0..Current /\ periods \in Seq(Area)
  BY <1>1, Types, StreamNumbers DEF IInv
<1>3. /\ g.header.stamp \in 0..Current
      /\ \A w \in Area : g.data[w] \in 0..Current
  BY <1>2, SegmentNumbers DEF SegmentInStep
<1>4. /\ UNCHANGED <<shm, linked, mapped, starts, ppc, periods>>
      /\ UNCHANGED <<seg, size, last, newest>>
  BY DEF publisherVars, ReadStamp, ReadWord
<1>5. UNCHANGED Stream!streamVars
  BY <1>4 DEF Stream!streamVars, Run, Cleared
<1>6. CASE ReadStamp(r)
  <2> DEFINE t == g.header.stamp
  <2>1. t = 0 \/ t >= n
    BY <1>1, <1>3 DEF ReaderInStep
  <2>2. Stream!Stamp(r, t)
    BY <1>4, <1>5, <1>6, <2>1 DEF ReadStamp, Stream!Stamp
  <2> QED
    BY <1>3, <2>2 DEF Stream!Next, Stream!Current, Current
<1>7. CASE ReadWord(r)
  <2> DEFINE v == g.data[Len(d) + 1]
  <2>1. Len(d) < Words /\ Len(d) \in Nat /\ rpc[r] = "data"
    <3>1. /\ rpc[r] = "data" /\ Len(d) < size[r] /\ size[r] # Unread
      BY <1>1, <1>7 DEF ReadWord, ReaderInStep
    <3>2. size[r] \in {0, Words} /\ Len(d) \in Nat
      BY <3>1, Types DEF Seen
    <3> QED
      BY <3>1, <3>2
  <2>2. Len(d) + 1 \in Area /\ v \in 0..Current
    BY <1>3, <2>1, PublisherAssumption DEF Area
  <2>3. n # 0 /\ Len(d) < periods[n] => v >= n
    <3>1. SUFFICES ASSUME n # 0, Len(d) < periods[n] PROVE v >= n
      OBVIOUS
    <3>2. n \in 1..Len(periods)
      BY <1>2, <3>1 DEF Current
    <3>3. periods[n] \in Area
      BY <1>2, <3>2
    <3>4. Len(d) + 1 <= periods[n]
      BY <2>1, <3>1, <3>3 DEF Area
    <3>5. Covers(g.data, periods[n], n)
      BY <1>1, <3>1 DEF ReaderInStep
    <3> QED
      BY <2>2, <3>4, <3>5 DEF Covers
  <2>4. Stream!Word(r, v)
    BY <1>4, <1>5, <1>7, <2>1, <2>3 DEF ReadWord, Stream!Word
  <2> QED
    BY <2>2, <2>4 DEF Stream!Next, Stream!Current, Current
<1> QED
  BY <1>6, <1>7

(* Seen through the segments a reader maps, across orderly ends, crashes    *)
(* and restarts of the daemon, the periods are one stream: a reader that    *)
(* finds the counter changed gets a period newer than any it has had,       *)
(* although each run counts from 0 again; or it finds a counter that a      *)
(* restart after a crash has cleared since it last looked, and is handed    *)
(* once more what is in the segment, which is then no older than what it    *)
(* has had.  A crash is the only way to that, and one gives it one read.    *)
THEOREM ImplementsStream == Spec => ReadsAreAStream
<1>1. Init => Stream!Init
  BY DEF Init, Nothing, Run, Cleared, Unread, Stream!Init, Stream!Nothing,
         Stream!Unread
<1>2. IInv /\ StreamInv /\ [Next]_vars => [Stream!Next]_(Stream!vars)
  <2> SUFFICES ASSUME IInv, StreamInv, [Next]_vars
               PROVE  Stream!Next \/ UNCHANGED Stream!vars
    OBVIOUS
  <2>1. CASE Publisher
    BY <2>1, PublisherImplements
  <2>2. ASSUME NEW r \in Readers, Reader(r)
        PROVE  Stream!Next \/ UNCHANGED Stream!vars
    <3>1. UNCHANGED publisherVars
      BY <2>2 DEF Reader
    <3> QED
      BY <2>2, <3>1, ArrivalImplements, PollImplements, CopyImplements
         DEF Reader
  <2>3. CASE UNCHANGED vars
    BY <2>3 DEF vars, publisherVars, readerVars, Stream!vars,
                Stream!streamVars, Stream!readerVars, Run, Cleared
  <2> QED
    BY <2>1, <2>2, <2>3 DEF Next
<1> QED
  BY <1>1, <1>2, Invariance, StreamInvariance, PTL
     DEF Spec, ReadsAreAStream, Stream!Spec
=============================================================================
