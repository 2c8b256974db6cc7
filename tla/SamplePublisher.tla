--------------------------- MODULE SamplePublisher ---------------------------
(***************************************************************************)
(* SamplePublisher (src/sharing/sample_publisher.cpp) and the readers of    *)
(* its shared memory (python/ws_audiod/__init__.py, examples/): the capture *)
(* thread overwrites one period of samples in place and then stores a       *)
(* counter; readers poll the counter and copy the samples without a lock    *)
(* and without looking at the counter again.                                *)
(*                                                                         *)
(* Periods are numbered 1, 2, ... over the runs of the daemon.  A word of   *)
(* the sample area, and the timestamp, hold the number of the period they   *)
(* were written by.  A daemon that ends unlinks the segment; one that       *)
(* crashes leaves it behind, and the next one maps it again.                *)
(***************************************************************************)
EXTENDS Integers, Sequences, FiniteSets

CONSTANTS Words,       \* words in the sample area: the nominal period
          Readers,     \* processes that map the segment
          MaxPeriods,  \* bound: periods published
          MaxStarts    \* bound: runs of the daemon

ASSUME PublisherAssumption ==
    Words \in Nat \ {0} /\ MaxPeriods \in Nat /\ MaxStarts \in Nat

VARIABLES
    shm,       \* the segments: magic, period_frames, counter, timestamp, data
    linked,    \* the segment shm_name_ refers to, 0 if none
    mapped,    \* the segment at shm_ptr_, 0 if none
    starts,    \* history: runs of the daemon so far
    counter,   \* write_counter_
    periods,   \* history: the length of each period published or begun
    ppc,       \* publisher: down, open, cleared, magic, idle, data
    unwritten, \* publish(): words still to be copied
    seg,       \* per reader: the segment it maps, 0 if none
    size,      \* per reader: period_frames as it has read it, in words
    last,      \* per reader: last_counter
    rpc,       \* per reader: poll, stamp, data
    seen,      \* per reader: what the read under way, or the last one, saw
    newest,    \* history, per reader: the newest period it has learned of
    disturbed  \* history, per reader: the segment has changed since the poll,
               \* or was half-written then

publisherVars == <<shm, linked, mapped, starts, counter, periods, ppc,
                   unwritten>>
readerVars == <<seg, size, last, rpc, seen, newest, disturbed>>
vars == <<publisherVars, readerVars>>

Area    == 1..Words
Zeroed  == [counter |-> 0, period |-> 0, stamp |-> 0]
Fresh   == [magic |-> FALSE, frames |-> 0, header |-> Zeroed,
            data |-> [w \in Area |-> 0]]
Unread  == -1
Nothing == [period |-> 0, stamp |-> 0, data |-> << >>]
Current == Len(periods)    \* the period being published, or the last one

-----------------------------------------------------------------------------
(* initialize(): shm_open and ftruncate create the segment, filled with     *)
(* zeros, or open the one a crashed daemon left behind; then the header is  *)
(* cleared and written, the magic first and period_frames last, and the     *)
(* samples are left as they are.                                            *)
Open ==
    /\ ppc = "down"
    /\ starts < MaxStarts
    /\ starts' = starts + 1
    /\ mapped' = IF linked = 0 THEN starts' ELSE linked
    /\ linked' = mapped'
    /\ counter' = 0
    /\ ppc' = "open"
    /\ UNCHANGED <<shm, periods, unwritten>>

ClearHeader ==
    /\ ppc = "open"
    /\ shm' = [shm EXCEPT ![mapped].magic = FALSE, ![mapped].frames = 0,
                          ![mapped].header = Zeroed]
    /\ ppc' = "cleared"
    /\ UNCHANGED <<linked, mapped, starts, counter, periods, unwritten>>

WriteMagic ==
    /\ ppc = "cleared"
    /\ shm' = [shm EXCEPT ![mapped].magic = TRUE]
    /\ ppc' = "magic"
    /\ UNCHANGED <<linked, mapped, starts, counter, periods, unwritten>>

WriteFrames ==
    /\ ppc = "magic"
    /\ shm' = [shm EXCEPT ![mapped].frames = Words]
    /\ ppc' = "idle"
    /\ UNCHANGED <<linked, mapped, starts, counter, periods, unwritten>>

(* publish(): the counter is taken and the timestamp stored; a period that  *)
(* is longer than the area is cut, a shorter one leaves the tail alone.     *)
(* Mutant: the counter goes out together with the timestamp.                *)
PublishCounterFirst(n) ==
    /\ ppc = "idle"
    /\ Current < MaxPeriods
    /\ counter' = counter + 1
    /\ periods' = Append(periods, IF n > Words THEN Words ELSE n)
    /\ unwritten' = 1..periods'[Current + 1]
    /\ shm' = [shm EXCEPT ![mapped].header =
                 [counter |-> counter', period |-> Current + 1,
                  stamp |-> Current + 1]]
    /\ ppc' = "data"
    /\ UNCHANGED <<linked, mapped, starts>>

(* Mutant: the last word of a period is not copied.                         *)
PublishShort(n) ==
    /\ ppc = "idle"
    /\ Current < MaxPeriods
    /\ counter' = counter + 1
    /\ periods' = Append(periods, IF n > Words THEN Words ELSE n)
    /\ unwritten' = 1..(periods'[Current + 1] - 1)
    /\ shm' = [shm EXCEPT ![mapped].header.stamp = Current + 1]
    /\ ppc' = "data"
    /\ UNCHANGED <<linked, mapped, starts>>

(* Mutant: a period longer than the area is not cut.                        *)
PublishUncut(n) ==
    /\ ppc = "idle"
    /\ Current < MaxPeriods
    /\ counter' = counter + 1
    /\ periods' = Append(periods, n)
    /\ unwritten' = 1..n
    /\ shm' = [shm EXCEPT ![mapped].header.stamp = Current + 1]
    /\ ppc' = "data"
    /\ UNCHANGED <<linked, mapped, starts>>

PublishBegin(n) ==
    /\ ppc = "idle"
    /\ Current < MaxPeriods
    /\ counter' = counter + 1
    /\ periods' = Append(periods, IF n > Words THEN Words ELSE n)
    /\ unwritten' = 1..periods'[Current + 1]
    /\ shm' = [shm EXCEPT ![mapped].header.stamp = Current + 1]
    /\ ppc' = "data"
    /\ UNCHANGED <<linked, mapped, starts>>

PublishWord(w) ==
    /\ ppc = "data"
    /\ w \in unwritten
    /\ shm' = [shm EXCEPT ![mapped].data[w] = Current]
    /\ unwritten' = unwritten \ {w}
    /\ UNCHANGED <<linked, mapped, starts, counter, periods, ppc>>

(* The counter goes last, behind the release fence.                         *)
PublishEnd ==
    /\ ppc = "data"
    /\ unwritten = {}
    /\ shm' = [shm EXCEPT ![mapped].header.counter = counter,
                          ![mapped].header.period = Current]
    /\ ppc' = "idle"
    /\ UNCHANGED <<linked, mapped, starts, counter, periods, unwritten>>

(* cleanup(), called when the capture thread has been joined.               *)
Cleanup ==
    /\ ppc = "idle"
    /\ linked' = 0 /\ mapped' = 0
    /\ ppc' = "down"
    /\ UNCHANGED <<shm, starts, counter, periods, unwritten>>

Crash ==
    /\ ppc # "down"
    /\ mapped' = 0
    /\ unwritten' = {}
    /\ ppc' = "down"
    /\ UNCHANGED <<shm, linked, starts, counter, periods>>

Publisher ==
    /\ \/ Open \/ ClearHeader \/ WriteMagic \/ WriteFrames
       \/ \E n \in 1..(Words + 1) : PublishBegin(n)
       \/ \E w \in Area : PublishWord(w)
       \/ PublishEnd \/ Cleanup \/ Crash
    /\ disturbed' = [r \in Readers |->
          disturbed[r] \/ (seg[r] # 0 /\ shm'[seg[r]] # shm[seg[r]])]
    /\ UNCHANGED <<seg, size, last, rpc, seen, newest>>

-----------------------------------------------------------------------------
(* The readers.  A process maps the segment once, if its magic is right,    *)
(* and then takes the size of a period from the header: 0 while the header  *)
(* is being written.                                                        *)
Attach(r) ==
    /\ seg[r] = 0
    /\ linked # 0
    /\ shm[linked].magic
    /\ seg' = [seg EXCEPT ![r] = linked]
    /\ UNCHANGED <<size, last, rpc, seen, newest, disturbed>>

ReadSize(r) ==
    /\ seg[r] # 0 /\ size[r] = Unread
    /\ size' = [size EXCEPT ![r] = shm[seg[r]].frames]
    /\ UNCHANGED <<seg, last, rpc, seen, newest, disturbed>>

(* Mutant: the reader does not keep the counter it has seen.               *)
PollForgetful(r) ==
    /\ size[r] # Unread /\ rpc[r] = "poll"
    /\ shm[seg[r]].header.counter # last[r]
    /\ seen' = [seen EXCEPT ![r] =
                  [Nothing EXCEPT !.period = shm[seg[r]].header.period]]
    /\ disturbed' = [disturbed EXCEPT ![r] =
                       shm[seg[r]].header.stamp # shm[seg[r]].header.period]
    /\ newest' = [newest EXCEPT ![r] =
                    IF seen'[r].period = 0 THEN @ ELSE seen'[r].period]
    /\ rpc' = [rpc EXCEPT ![r] = "stamp"]
    /\ UNCHANGED <<seg, size, last>>

Poll(r) ==
    /\ size[r] # Unread /\ rpc[r] = "poll"
    /\ shm[seg[r]].header.counter # last[r]
    /\ last' = [last EXCEPT ![r] = shm[seg[r]].header.counter]
    /\ seen' = [seen EXCEPT ![r] =
                  [Nothing EXCEPT !.period = shm[seg[r]].header.period]]
    /\ disturbed' = [disturbed EXCEPT ![r] =
                       shm[seg[r]].header.stamp # shm[seg[r]].header.period]
    /\ newest' = [newest EXCEPT ![r] =
                    IF seen'[r].period = 0 THEN @ ELSE seen'[r].period]
    /\ rpc' = [rpc EXCEPT ![r] = "stamp"]
    /\ UNCHANGED <<seg, size>>

ReadStamp(r) ==
    /\ rpc[r] = "stamp"
    /\ seen' = [seen EXCEPT ![r].stamp = shm[seg[r]].header.stamp]
    /\ rpc' = [rpc EXCEPT ![r] = IF size[r] = 0 THEN "poll" ELSE "data"]
    /\ UNCHANGED <<seg, size, last, newest, disturbed>>

ReadWord(r) ==
    /\ rpc[r] = "data"
    /\ seen' = [seen EXCEPT ![r].data =
                  Append(@, shm[seg[r]].data[Len(@) + 1])]
    /\ rpc' = [rpc EXCEPT ![r] =
                 IF Len(seen'[r].data) = size[r] THEN "poll" ELSE "data"]
    /\ UNCHANGED <<seg, size, last, newest, disturbed>>

Reader(r) ==
    /\ Attach(r) \/ ReadSize(r) \/ Poll(r) \/ ReadStamp(r) \/ ReadWord(r)
    /\ UNCHANGED publisherVars

-----------------------------------------------------------------------------
Init ==
    /\ shm = [s \in 1..MaxStarts |-> Fresh]
    /\ linked = 0 /\ mapped = 0 /\ starts = 0 /\ counter = 0
    /\ periods = << >> /\ ppc = "down" /\ unwritten = {}
    /\ seg = [r \in Readers |-> 0]
    /\ size = [r \in Readers |-> Unread]
    /\ last = [r \in Readers |-> 0]
    /\ rpc = [r \in Readers |-> "poll"]
    /\ seen = [r \in Readers |-> Nothing]
    /\ newest = [r \in Readers |-> 0]
    /\ disturbed = [r \in Readers |-> FALSE]

Next == Publisher \/ \E r \in Readers : Reader(r)

Spec == Init /\ [][Next]_vars

-----------------------------------------------------------------------------
(* Every variable holds a value of its kind.                                *)
TypeOK ==
    /\ shm \in [1..MaxStarts ->
                  [magic : BOOLEAN, frames : {0, Words},
                   header : [counter : 0..MaxPeriods, period : 0..MaxPeriods,
                             stamp : 0..MaxPeriods],
                   data : [Area -> 0..MaxPeriods]]]
    /\ linked \in 0..MaxStarts /\ mapped \in {0, linked}
    /\ starts \in 0..MaxStarts /\ counter \in 0..MaxPeriods
    /\ periods \in Seq(Area) /\ Current <= MaxPeriods
    /\ ppc \in {"down", "open", "cleared", "magic", "idle", "data"}
    /\ unwritten \subseteq Area
    /\ seg \in [Readers -> 0..MaxStarts]
    /\ size \in [Readers -> {Unread, 0, Words}]
    /\ last \in [Readers -> 0..MaxPeriods]
    /\ newest \in [Readers -> 0..MaxPeriods]
    /\ rpc \in [Readers -> {"poll", "stamp", "data"}]
    /\ disturbed \in [Readers -> BOOLEAN]
    /\ \A r \in Readers :
         seen[r].data \in Seq(0..MaxPeriods) /\ Len(seen[r].data) <= Words

(* sample_publisher.cpp:74, "it must be written LAST [...] so all preceding *)
(* stores (data) are visible": what a reader copies after it has seen the   *)
(* counter of a period is that period's or a later one's, as far as the     *)
(* period reaches, across crashes and restarts of the daemon too.           *)
CounterCoversData ==
    \A r \in Readers :
        seen[r].period # 0 =>
            /\ rpc[r] # "stamp" => seen[r].stamp >= seen[r].period
                                   \/ seen[r].stamp = 0
            /\ \A w \in DOMAIN seen[r].data :
                   w <= periods[seen[r].period] =>
                       seen[r].data[w] >= seen[r].period

(* A copy that no publish, restart or crash gets into is the period its     *)
(* counter named when it was polled, with what an earlier, longer period    *)
(* has left behind where this one is shorter than the area.  It is empty    *)
(* for a reader that has found no size in the header.                       *)
UndisturbedCopyIsThePeriod ==
    \A r \in Readers :
        LET p == seen[r].period
        IN rpc[r] = "poll" /\ p # 0 /\ ~disturbed[r] =>
               /\ seen[r].stamp = p /\ Len(seen[r].data) = size[r]
               /\ \A w \in 1..size[r] :
                      IF w <= periods[p] THEN seen[r].data[w] = p
                                         ELSE seen[r].data[w] < p

(* __init__.py:203, "Read the latest period of samples": what a read        *)
(* returns is the one period its counter names.                             *)
SamplesAreOnePeriod ==
    \A r \in Readers :
        rpc[r] = "poll" /\ seen[r].period # 0 =>
            \A w \in DOMAIN seen[r].data : seen[r].data[w] = seen[r].period

(* What the readers copy is one stream of periods, PeriodStream: over all   *)
(* the daemon's runs, each of which counts from 0 again, a reader that finds*)
(* the counter changed is handed newer and newer periods.  It is handed one *)
(* it has had, or the mixture it had, in one case only, and then once: a    *)
(* restart after a crash has cleared the counter and left the samples as    *)
(* they were, and the reader takes the 0 for news.  Even then no word is    *)
(* older than the last period it has learned of, as far as that reaches.    *)
Run ==
    IF ppc = "down" THEN IF linked = 0 THEN "ended" ELSE "crashed"
    ELSE IF ppc = "open" /\ mapped # starts THEN "restarting" ELSE "up"

Cleared ==
    [r \in Readers |->
        seg[r] # 0 /\ shm[seg[r]].header.counter = 0 /\ last[r] # 0]

Stream == INSTANCE PeriodStream WITH run <- Run, cleared <- Cleared

ReadsAreAStream == Stream!Spec

(* sample_publisher.hpp:18, "write_counter (monotonic, increments per       *)
(* period)", by which the readers tell news: a reader that finds the counter*)
(* changed has a period before it that it has not had.                      *)
NewsIsNew == [][\A r \in Readers : Poll(r) => newest'[r] > newest[r]]_vars
=============================================================================
