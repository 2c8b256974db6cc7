----------------------- MODULE ClipExtractor_proofs -----------------------
(***************************************************************************)
(* ClipExtractor, proved for every set of callers, offsets and ids, every   *)
(* length of the ring and any number of requests: the types, what a clip    *)
(* covers whose request was taken at once, captured or not, and that with   *)
(* one caller the extractor is the server of requests ClipServer specifies. *)
(*                                                                         *)
(* Two arguments carry it.  What the ring holds is what it held when a      *)
(* request was made and what has been captured since, up to its capacity,   *)
(* for every request under way; and neither moves between the extraction    *)
(* and the publication.  And no two requests under way, nor a result, have  *)
(* the same id: a lone caller waits for the last request made, so that its  *)
(* result is there only when nothing is left to serve.                      *)
(***************************************************************************)
EXTENDS ClipExtractor, TLAPS

AtWork  == wpc \in {"sleeping", "publish", "threw"}
Pending == Len(queue) + (IF job = NoJob THEN 0 ELSE 1)

(* The main thread starts the worker once, and running_ is up until stop(). *)
MainInStep ==
    /\ spc = "new" <=> wpc = "none"
    /\ spc = "up" => running

(* The worker sleeps as long as the clip reaches into the future, and what  *)
(* it extracted is the end of what the ring holds.                          *)
Newly(length) ==
    length > 0 /\ clip.hi = job.heard /\ clip.lo = job.heard - length
WorkerInStep ==
    /\ AtWork <=> job # NoJob
    /\ AtWork => left + job.age = taken + SleepFor(job)
    /\ wpc = "publish" => left = 0
    /\ wpc = "publish" /\ clip.path => Newly(Least(ClipSpan(job), held))

(* The ring holds what it held when r was made, and what came since.        *)
Since(r) == held = Least(RingSeconds, r.had + r.heard)

RingInStep ==
    /\ AtWork => Since(job)
    /\ \A i \in 1..Len(queue) : Since(queue[i])

(* No id is in use twice.                                                   *)
IdsApart ==
    /\ \A i \in 1..Len(queue) : /\ queue[i].id \in Ids \ DOMAIN results
                                /\ queue[i].id # job.id
    /\ \A i, j \in 1..Len(queue) : queue[i].id = queue[j].id => i = j
    /\ job # NoJob => job.id \in Ids
    /\ job.id \notin DOMAIN results

(* A lone caller waits for the last request made.                           *)
LastId == IF queue = << >> THEN job.id ELSE queue[Len(queue)].id
LastAsked(c) ==
    cpc[c] # "idle" => IF Pending = 0 THEN asked[c] \in DOMAIN results
                                      ELSE asked[c] = LastId

IInv == TypeOK /\ MainInStep /\ WorkerInStep /\ RingInStep /\ IdsApart

OneCaller == \A c, d \in Callers : c = d

-----------------------------------------------------------------------------
LEMMA RequestTypes ==
  ASSUME NEW r \in RequestType
  PROVE  /\ r.id \in Ids \cup {0} /\ r.from \in Int /\ r.to \in Int
         /\ r.age \in Nat /\ r.heard \in Nat /\ r.had \in 0..RingSeconds
<1>1. /\ r.id \in Ids \cup {0} /\ r.from \in Offsets \cup {0}
      /\ r.to \in Offsets \cup {0} /\ r.age \in Nat /\ r.heard \in Nat
      /\ r.had \in 0..RingSeconds
  BY DEF RequestType
<1>2. Offsets \cup {0} \subseteq Int
  BY ClipAssumption
<1> QED BY <1>1, <1>2

LEMMA NoJobType == NoJob \in RequestType /\ NoJob.id = 0 /\ 0 \notin Ids
BY ClipAssumption DEF NoJob, RequestType

LEMMA FailedType == Failed \in ClipType
BY ClipAssumption DEF Failed, ClipType

(* The clip extracted: of what has been captured, never longer than what    *)
(* was asked for nor than what the ring holds.                              *)
LEMMA ExtractedClip ==
  ASSUME TypeOK
  PROVE  /\ Extracted \in ClipType
         /\ Extracted.path =>
              /\ Least(ClipSpan(job), held) > 0 /\ Extracted.hi = job.heard
              /\ Extracted.lo = job.heard - Least(ClipSpan(job), held)
<1> DEFINE length == Least(ClipSpan(job), held)
           new == [path |-> TRUE, lo |-> job.heard - length, hi |-> job.heard,
                   written |-> length]
<1>1. /\ job.from \in Int /\ job.to \in Int /\ job.heard \in Nat
      /\ held \in 0..RingSeconds /\ RingSeconds \in Nat
  BY RequestTypes, ClipAssumption DEF TypeOK
<1>2. length \in Int /\ length <= RingSeconds
  BY <1>1 DEF Least, ClipSpan
<1>3. Extracted = IF length <= 0 THEN Failed ELSE new
  BY DEF Extracted, Newest
<1> HIDE DEF length
<1>4. CASE length <= 0
  BY <1>3, <1>4, FailedType DEF Failed
<1>5. CASE ~(length <= 0)
  <2>1. Extracted = new
    BY <1>3, <1>5
  <2>2. job.heard - length \in Int /\ length \in 0..RingSeconds /\ length > 0
    BY <1>1, <1>2, <1>5
  <2>3. new \in ClipType
    BY <1>1, <2>2 DEF ClipType
  <2> QED BY <2>1, <2>2, <2>3 DEF length
<1> QED BY <1>4, <1>5

(* A clip of which only some samples could be written covers no less.       *)
LEMMA ShortClip ==
  ASSUME NEW c \in ClipType, NEW n \in 0..c.written
  PROVE  /\ [c EXCEPT !.written = n] \in ClipType
         /\ [c EXCEPT !.written = n].path = c.path
         /\ [c EXCEPT !.written = n].lo = c.lo
         /\ [c EXCEPT !.written = n].hi = c.hi
BY ClipAssumption DEF ClipType

(* What a second makes of a request.                                        *)
LEMMA OlderRequest ==
  ASSUME NEW r \in RequestType, NEW captured \in BOOLEAN
  PROVE  LET o == Older(r, captured)
         IN  /\ o \in RequestType /\ o.id = r.id /\ o.from = r.from /\ o.to = r.to
             /\ o.had = r.had /\ o.age = r.age + 1 /\ o # NoJob
             /\ o.heard = IF captured THEN r.heard + 1 ELSE r.heard
<1> DEFINE o == Older(r, captured)
<1>1. PICK h \in Nat : h = IF captured THEN r.heard + 1 ELSE r.heard
  BY RequestTypes
<1>2. o = [r EXCEPT !.age = r.age + 1, !.heard = h]
  BY <1>1 DEF Older, RequestType
<1> DEFINE n == [id |-> r.id, from |-> r.from, to |-> r.to, age |-> r.age + 1,
                 heard |-> h, had |-> r.had]
<1>2a. o = n
  BY <1>2 DEF RequestType
<1>2b. n \in RequestType
  BY <1>1 DEF RequestType
<1>3. /\ o.id = r.id /\ o.from = r.from /\ o.to = r.to /\ o.had = r.had
      /\ o.age = r.age + 1 /\ o.heard = h /\ o \in RequestType
  BY <1>2a, <1>2b
<1>4. o # NoJob
  BY <1>3, RequestTypes DEF NoJob
<1> QED BY <1>1, <1>3, <1>4

(* What a second makes of the queue.                                        *)
LEMMA OlderQueue ==
  ASSUME TypeOK, NEW captured \in BOOLEAN, Tick(captured)
  PROVE  /\ queue' \in Seq(RequestType) /\ Len(queue') = Len(queue)
         /\ \A i \in 1..Len(queue) : /\ queue[i] \in RequestType
                                     /\ queue'[i] = Older(queue[i], captured)
<1>1. /\ DOMAIN queue = 1..Len(queue) /\ Len(queue) \in Nat
      /\ \A i \in 1..Len(queue) : queue[i] \in RequestType
  BY DEF TypeOK
<1>2. queue' = [i \in 1..Len(queue) |-> Older(queue[i], captured)]
  BY <1>1 DEF Tick
<1>3. \A i \in 1..Len(queue) : Older(queue[i], captured) \in RequestType
  BY <1>1, OlderRequest
<1>4. queue' \in [1..Len(queue) -> RequestType]
  BY <1>2, <1>3
<1> QED BY <1>1, <1>2, <1>4

(* The id a request is given.                                               *)
LEMMA FreshOne ==
  ASSUME TypeOK, Ids \ InUse # {}
  PROVE  /\ FreshId \in Ids \ DOMAIN results /\ FreshId # job.id
         /\ \A i \in 1..Len(queue) : queue[i].id # FreshId
<1>1. FreshId \in Ids /\ FreshId \notin InUse
  BY DEF FreshId
<1>2. DOMAIN queue = 1..Len(queue)
  BY DEF TypeOK
<1> QED BY <1>1, <1>2 DEF InUse

(* What Request makes of the queue.                                         *)
LEMMA Requested ==
  ASSUME TypeOK, NEW c \in Callers, NEW from \in Offsets, NEW to \in Offsets,
         Request(c, from, to)
  PROVE  LET r == NewRequest(FreshId, from, to)
         IN  /\ r \in RequestType /\ r.id = FreshId /\ r.had = held /\ r.heard = 0
             /\ queue' = Append(queue, r) /\ queue' \in Seq(RequestType)
             /\ Len(queue') = Len(queue) + 1 /\ queue'[Len(queue) + 1] = r
             /\ \A i \in 1..Len(queue) : queue'[i] = queue[i]
             /\ FreshId \in Ids
<1> DEFINE r == NewRequest(FreshId, from, to)
<1>1. FreshId \in Ids
  BY FreshOne DEF Request
<1>2. /\ r \in RequestType /\ r.id = FreshId /\ r.had = held /\ r.heard = 0
  BY <1>1, ClipAssumption DEF NewRequest, RequestType, TypeOK
<1>3. queue' = Append(queue, r) /\ queue \in Seq(RequestType)
  BY DEF Request, TypeOK
<1> HIDE DEF r
<1>4. /\ queue' \in Seq(RequestType) /\ Len(queue') = Len(queue) + 1
      /\ queue'[Len(queue) + 1] = r
      /\ \A i \in 1..Len(queue) : queue'[i] = queue[i]
  BY <1>2, <1>3
<1> QED BY <1>1, <1>2, <1>3, <1>4 DEF r

(* What TakeOldest makes of it.                                             *)
LEMMA Took ==
  ASSUME TypeOK, TakeOldest
  PROVE  /\ job' = queue[1] /\ job' \in RequestType /\ 1 \in 1..Len(queue)
         /\ queue' \in Seq(RequestType) /\ Len(queue') = Len(queue) - 1
         /\ \A i \in 1..Len(queue') : queue'[i] = queue[i + 1] /\ i + 1 \in 1..Len(queue)
BY DEF TypeOK, TakeOldest

-----------------------------------------------------------------------------
LEMMA InitIInv == Init => IInv
<1> SUFFICES ASSUME Init PROVE IInv
  OBVIOUS
<1>1. TypeOK
  <2>1. queue \in Seq(RequestType) /\ job \in RequestType /\ clip \in ClipType
    BY NoJobType, FailedType DEF Init
  <2>2. DOMAIN results = {} /\ asked \in [Callers -> Ids \cup {0}]
    BY DEF Init
  <2>3. cpc \in [Callers -> {"idle", "check", "asleep"}] /\ held \in 0..RingSeconds
    BY ClipAssumption DEF Init
  <2> QED BY <2>1, <2>2, <2>3 DEF Init, TypeOK
<1>2. MainInStep /\ WorkerInStep /\ RingInStep /\ IdsApart
  BY DEF Init, MainInStep, WorkerInStep, RingInStep, IdsApart, AtWork
<1> QED BY <1>1, <1>2 DEF IInv

(* The types.                                                               *)
LEMMA StepTypes ==
  ASSUME IInv, Next
  PROVE  TypeOK'
<1> USE DEF IInv
<1>1. CASE Start \/ Stop \/ StopJoin
  BY <1>1 DEF TypeOK, Start, Stop, StopJoin, NotifyWorker, workerVars
<1>2. ASSUME NEW c \in Callers, NEW from \in Offsets, NEW to \in Offsets,
             Request(c, from, to)
      PROVE  TypeOK'
  <2>1. queue' \in Seq(RequestType) /\ FreshId \in Ids
    BY <1>2, Requested
  <2>2. asked' \in [Callers -> Ids \cup {0}]
    BY <1>2, <2>1 DEF TypeOK, Request
  <2>3. cpc' \in [Callers -> {"idle", "check", "asleep"}]
    BY <1>2 DEF TypeOK, Request
  <2>4. wpc' \in {"none", "check", "asleep", "sleeping", "publish", "exited", "threw"}
    BY <1>2 DEF TypeOK, Request, NotifyWorker
  <2> QED BY <1>2, <2>1, <2>2, <2>3, <2>4 DEF TypeOK, Request, workerVars
<1>3. ASSUME NEW c \in Callers, Caller(c)
      PROVE  TypeOK'
  <2>1. CASE Return(c)
    <3>1. asked' \in [Callers -> Ids \cup {0}]
      BY <2>1 DEF TypeOK, Return
    <3>2. DOMAIN results' \subseteq Ids /\ \A i \in DOMAIN results' : results'[i] \in ClipType
      BY <2>1 DEF TypeOK, Return
    <3>3. cpc' \in [Callers -> {"idle", "check", "asleep"}]
      BY <2>1 DEF TypeOK, Return
    <3> QED BY <2>1, <3>1, <3>2, <3>3 DEF TypeOK, Return, workerVars
  <2>2. CASE CallerSleeps(c)
    BY <2>2 DEF TypeOK, CallerSleeps, workerVars
  <2> QED BY <1>3, <2>1, <2>2 DEF Caller
<1>4. CASE WaitForRequest \/ OutOfMemory
  BY <1>4 DEF TypeOK, WaitForRequest, OutOfMemory, workerVars
<1>5. CASE TakeOldest
  <2>1. job' \in RequestType /\ queue' \in Seq(RequestType)
    BY <1>5, Took
  <2>2. PICK t \in Int, a \in Nat : t = job'.to /\ a = job'.age
    BY <2>1, RequestTypes
  <2>3. taken' = a /\ left' = IF t > 0 THEN t ELSE 0
    BY <1>5, <2>2 DEF TakeOldest, SleepFor
  <2> QED BY <1>5, <2>1, <2>2, <2>3 DEF TypeOK, TakeOldest
<1>6. CASE Extract
  <2>1. clip' \in ClipType
    BY <1>6, ExtractedClip, FailedType, ShortClip DEF Extract
  <2> QED BY <1>6, <2>1 DEF TypeOK, Extract
<1>7. CASE Publish
  <2>1. job.id \in Ids
    BY <1>7 DEF Publish, WorkerInStep, IdsApart, AtWork
  <2>2. DOMAIN results' \subseteq Ids /\ \A i \in DOMAIN results' : results'[i] \in ClipType
    BY <1>7, <2>1 DEF TypeOK, Publish
  <2>3. job' \in RequestType /\ clip' \in ClipType
    BY <1>7, NoJobType, FailedType DEF Publish
  <2>4. cpc' \in [Callers -> {"idle", "check", "asleep"}]
    BY <1>7 DEF TypeOK, Publish, NotifyCallers
  <2> QED BY <1>7, <2>2, <2>3, <2>4 DEF TypeOK, Publish
<1>8. ASSUME NEW captured \in BOOLEAN, Tick(captured)
      PROVE  TypeOK'
  <2>1. queue' \in Seq(RequestType)
    BY <1>8, OlderQueue
  <2>2. job' \in RequestType
    BY <1>8, OlderRequest, NoJobType DEF TypeOK, Tick
  <2>3. held' \in 0..RingSeconds /\ left' \in Nat
    BY <1>8, ClipAssumption DEF TypeOK, Tick, Least
  <2> QED BY <1>8, <2>1, <2>2, <2>3 DEF TypeOK, Tick
<1> QED BY <1>1, <1>2, <1>3, <1>4, <1>5, <1>6, <1>7, <1>8
        DEF Next, Worker, Requests, Clock

LEMMA StepMain ==
  ASSUME IInv, Next
  PROVE  MainInStep'
<1> USE DEF IInv, MainInStep
<1>1. CASE Start \/ Stop \/ StopJoin
  BY <1>1 DEF Start, Stop, StopJoin, NotifyWorker
<1>2. ASSUME NEW c \in Callers, NEW from \in Offsets, NEW to \in Offsets,
             Request(c, from, to)
      PROVE  MainInStep'
  BY <1>2 DEF Request, NotifyWorker
<1>3. ASSUME NEW c \in Callers, Caller(c)
      PROVE  MainInStep'
  BY <1>3 DEF Caller, Return, CallerSleeps
<1>4. CASE Worker
  BY <1>4 DEF Worker, WaitForRequest, TakeOldest, Extract, OutOfMemory, Publish
<1>5. ASSUME NEW captured \in BOOLEAN, Tick(captured)
      PROVE  MainInStep'
  BY <1>5 DEF Tick
<1> QED BY <1>1, <1>2, <1>3, <1>4, <1>5 DEF Next, Requests, Clock

(* What the worker has extracted stays the end of what the ring holds:      *)
(* neither the clock nor the job moves before the publication.              *)
LEMMA StepWorker ==
  ASSUME IInv, Next
  PROVE  WorkerInStep'
<1> USE DEF IInv
<1>1. ASSUME UNCHANGED <<held, workerVars>>, wpc' = wpc \/ ~(AtWork \/ AtWork')
      PROVE  WorkerInStep'
  <2>1. AtWork' <=> AtWork
    BY <1>1 DEF AtWork
  <2> QED BY <1>1, <2>1 DEF WorkerInStep, workerVars, AtWork, Newly, ClipSpan, SleepFor
<1>2. CASE Start \/ Stop \/ StopJoin
  <2>1. wpc' = wpc \/ ~(AtWork \/ AtWork')
    BY <1>2 DEF Start, Stop, StopJoin, NotifyWorker, MainInStep, AtWork
  <2> QED BY <1>1, <1>2, <2>1 DEF Start, Stop, StopJoin
<1>3. ASSUME NEW c \in Callers, NEW from \in Offsets, NEW to \in Offsets,
             Request(c, from, to)
      PROVE  WorkerInStep'
  BY <1>1, <1>3 DEF Request, NotifyWorker, AtWork
<1>4. ASSUME NEW c \in Callers, Caller(c)
      PROVE  WorkerInStep'
  BY <1>1, <1>4 DEF Caller, Return, CallerSleeps
<1>5. CASE WaitForRequest
  BY <1>1, <1>5 DEF WaitForRequest, AtWork
<1>6. CASE TakeOldest
  <2>1. job' # NoJob
    <3>1. job'.id \in Ids
      BY <1>6, Took DEF IdsApart
    <3> QED BY <3>1, NoJobType
  <2>2. PICK t \in Int, a \in Nat : t = job'.to /\ a = job'.age
    BY <1>6, Took, RequestTypes
  <2>3. taken' = a /\ left' = (IF t > 0 THEN t ELSE 0) /\ wpc' = "sleeping"
    BY <1>6, <2>2 DEF TakeOldest, SleepFor
  <2>4. left' + job'.age = taken' + SleepFor(job')
    BY <2>2, <2>3 DEF SleepFor
  <2> QED BY <2>1, <2>3, <2>4 DEF WorkerInStep, AtWork, SleepFor
<1>7. CASE Extract
  <2>1. UNCHANGED <<job, taken, left, held>> /\ left = 0 /\ AtWork /\ AtWork'
    BY <1>7 DEF Extract, AtWork
  <2>2. clip'.path => /\ Least(ClipSpan(job), held) > 0 /\ clip'.hi = job.heard
                      /\ clip'.lo = job.heard - Least(ClipSpan(job), held)
    <3>1. CASE clip' = Extracted
      BY <3>1, ExtractedClip
    <3>2. CASE clip' = Failed
      BY <3>2 DEF Failed
    <3>3. ASSUME NEW n \in 0..Extracted.written, clip' = [Extracted EXCEPT !.written = n]
          PROVE  clip'.path => /\ Least(ClipSpan(job), held) > 0 /\ clip'.hi = job.heard
                               /\ clip'.lo = job.heard - Least(ClipSpan(job), held)
      <4>1. clip'.path = Extracted.path /\ clip'.lo = Extracted.lo /\ clip'.hi = Extracted.hi
        BY <3>3, ExtractedClip, ShortClip
      <4> QED BY <4>1, ExtractedClip
    <3> QED BY <1>7, <3>1, <3>2, <3>3 DEF Extract
  <2> QED BY <2>1, <2>2 DEF WorkerInStep, Newly, ClipSpan, SleepFor
<1>8. CASE OutOfMemory
  BY <1>8 DEF OutOfMemory, WorkerInStep, AtWork, SleepFor, workerVars
<1>9. CASE Publish
  BY <1>9 DEF Publish, WorkerInStep, AtWork
<1>10. ASSUME NEW captured \in BOOLEAN, Tick(captured)
       PROVE  WorkerInStep'
  <2>1. CASE wpc = "sleeping" /\ left > 0
    <3>1. job # NoJob /\ job \in RequestType /\ left \in Nat /\ taken' = taken
      BY <1>10, <2>1 DEF Tick, WorkerInStep, AtWork, TypeOK
    <3>2. job' # NoJob /\ job'.age = job.age + 1 /\ job'.to = job.to
      BY <1>10, <3>1, OlderRequest DEF Tick
    <3>3. left + job.age = taken + SleepFor(job) /\ left' = left - 1
      BY <1>10, <2>1 DEF Tick, WorkerInStep, AtWork
    <3>4. SleepFor(job') = SleepFor(job)
      BY <3>2 DEF SleepFor
    <3>5. left' + job'.age = left + job.age
      <4>1. job.age \in Nat
        BY <3>1, RequestTypes
      <4> QED BY <3>1, <3>2, <3>3, <4>1
    <3> QED BY <1>10, <2>1, <3>1, <3>2, <3>3, <3>4, <3>5 DEF Tick, WorkerInStep, AtWork
  <2>2. CASE wpc \in {"none", "asleep", "exited"}
    BY <1>10, <2>2 DEF Tick, WorkerInStep, AtWork
  <2> QED BY <1>10, <2>1, <2>2 DEF Tick
<1> QED BY <1>2, <1>3, <1>4, <1>5, <1>6, <1>7, <1>8, <1>9, <1>10
        DEF Next, Worker, Requests, Clock

(* The ring moves only with the clock, and with it every request under way. *)
LEMMA SinceTick ==
  ASSUME TypeOK, NEW captured \in BOOLEAN, Tick(captured), NEW r \in RequestType,
         Since(r), NEW s, s = Older(r, captured)
  PROVE  held' = Least(RingSeconds, s.had + s.heard)
<1>1. PICK had \in Nat, heard \in Nat : had = r.had /\ heard = r.heard
  BY RequestTypes, ClipAssumption
<1>2. s.had = had /\ s.heard = IF captured THEN heard + 1 ELSE heard
  BY <1>1, OlderRequest
<1>3. held = Least(RingSeconds, had + heard)
  BY <1>1 DEF Since
<1>4. held' = IF captured THEN Least(held + 1, RingSeconds) ELSE held
  BY DEF Tick
<1>5. RingSeconds \in Nat
  BY ClipAssumption
<1>6. CASE captured
  BY <1>1, <1>2, <1>3, <1>4, <1>5, <1>6 DEF Least
<1>7. CASE ~captured
  BY <1>1, <1>2, <1>3, <1>4, <1>5, <1>7 DEF Least
<1> QED BY <1>6, <1>7

LEMMA StepRing ==
  ASSUME IInv, Next
  PROVE  RingInStep'
<1> USE DEF IInv
<1>1. ASSUME UNCHANGED <<held, queue, job>>, AtWork' => AtWork
      PROVE  RingInStep'
  BY <1>1 DEF RingInStep, Since
<1>2. CASE Start \/ Stop \/ StopJoin
  BY <1>1, <1>2 DEF Start, Stop, StopJoin, NotifyWorker, AtWork, workerVars
<1>3. ASSUME NEW c \in Callers, NEW from \in Offsets, NEW to \in Offsets,
             Request(c, from, to)
      PROVE  RingInStep'
  <2> DEFINE r == NewRequest(FreshId, from, to)
  <2>1. /\ r.had = held /\ r.heard = 0 /\ Len(queue') = Len(queue) + 1
        /\ queue'[Len(queue) + 1] = r
        /\ \A i \in 1..Len(queue) : queue'[i] = queue[i]
    BY <1>3, Requested
  <2>2. held' = held /\ job' = job /\ (AtWork' => AtWork)
    BY <1>3 DEF Request, NotifyWorker, AtWork, workerVars
  <2>3. held = Least(RingSeconds, r.had + r.heard)
    <3>1. held \in 0..RingSeconds /\ RingSeconds \in Nat
      BY ClipAssumption DEF TypeOK
    <3> HIDE DEF r
    <3> QED BY <2>1, <3>1 DEF Least
  <2> HIDE DEF r
  <2>4. \A i \in 1..Len(queue') : held' = Least(RingSeconds, queue'[i].had + queue'[i].heard)
    <3> SUFFICES ASSUME NEW i \in 1..Len(queue')
                 PROVE  held' = Least(RingSeconds, queue'[i].had + queue'[i].heard)
      OBVIOUS
    <3>1. CASE i = Len(queue) + 1
      BY <2>1, <2>2, <2>3, <3>1
    <3>2. CASE i \in 1..Len(queue)
      BY <2>1, <2>2, <3>2 DEF RingInStep, Since
    <3>3. Len(queue) \in Nat
      BY DEF TypeOK
    <3> QED BY <2>1, <3>1, <3>2, <3>3
  <2> QED BY <2>2, <2>4 DEF RingInStep, Since
<1>4. ASSUME NEW c \in Callers, Caller(c)
      PROVE  RingInStep'
  BY <1>1, <1>4 DEF Caller, Return, CallerSleeps, AtWork, workerVars
<1>5. CASE WaitForRequest \/ Extract \/ OutOfMemory
  BY <1>1, <1>5 DEF WaitForRequest, Extract, OutOfMemory, AtWork, workerVars
<1>6. CASE TakeOldest
  <2>1. held' = held
    BY <1>6 DEF TakeOldest
  <2> QED BY <1>6, <2>1, Took DEF RingInStep, Since
<1>7. CASE Publish
  BY <1>7 DEF Publish, RingInStep, Since, AtWork
<1>8. ASSUME NEW captured \in BOOLEAN, Tick(captured)
      PROVE  RingInStep'
  <2>1. \A i \in 1..Len(queue') : held' = Least(RingSeconds, queue'[i].had + queue'[i].heard)
    BY <1>8, OlderQueue, SinceTick DEF RingInStep
  <2>2. AtWork' => held' = Least(RingSeconds, job'.had + job'.heard)
    <3> SUFFICES ASSUME AtWork' PROVE held' = Least(RingSeconds, job'.had + job'.heard)
      OBVIOUS
    <3>1. AtWork /\ job # NoJob /\ job \in RequestType
      BY <1>8 DEF Tick, AtWork, WorkerInStep, TypeOK
    <3>2. job' = Older(job, captured) /\ Since(job)
      BY <1>8, <3>1 DEF Tick, RingInStep
    <3> QED BY <1>8, <3>1, <3>2, SinceTick
  <2> QED BY <2>1, <2>2 DEF RingInStep, Since
<1> QED BY <1>2, <1>3, <1>4, <1>5, <1>6, <1>7, <1>8 DEF Next, Worker, Requests, Clock

LEMMA StepIds ==
  ASSUME IInv, Next
  PROVE  IdsApart'
<1> USE DEF IInv
<1>1. ASSUME UNCHANGED <<queue, job>>, DOMAIN results' \subseteq DOMAIN results
      PROVE  IdsApart'
  BY <1>1 DEF IdsApart
<1>2. CASE Start \/ Stop \/ StopJoin
  BY <1>1, <1>2 DEF Start, Stop, StopJoin, workerVars
<1>3. ASSUME NEW c \in Callers, NEW from \in Offsets, NEW to \in Offsets,
             Request(c, from, to)
      PROVE  IdsApart'
  <2>1. /\ Len(queue') = Len(queue) + 1 /\ Len(queue) \in Nat
        /\ queue'[Len(queue) + 1].id = FreshId
        /\ \A i \in 1..Len(queue) : queue'[i] = queue[i]
    BY <1>3, Requested DEF TypeOK
  <2>2. job' = job /\ results' = results
    BY <1>3 DEF Request, workerVars
  <2>3. /\ FreshId \in Ids \ DOMAIN results /\ FreshId # job.id
        /\ \A i \in 1..Len(queue) : queue[i].id # FreshId
    BY <1>3, FreshOne DEF Request
  <2>4. \A i \in 1..Len(queue') : i = Len(queue) + 1 \/ i \in 1..Len(queue)
    BY <2>1
  <2>5. \A i \in 1..Len(queue') :
          /\ queue'[i].id \in Ids \ DOMAIN results' /\ queue'[i].id # job'.id
          /\ \A j \in 1..Len(queue') : queue'[i].id = queue'[j].id => i = j
    BY <2>1, <2>2, <2>3, <2>4 DEF IdsApart
  <2> QED BY <2>2, <2>5 DEF IdsApart
<1>4. ASSUME NEW c \in Callers, Caller(c)
      PROVE  IdsApart'
  BY <1>1, <1>4 DEF Caller, Return, CallerSleeps, workerVars
<1>5. CASE WaitForRequest \/ Extract \/ OutOfMemory
  BY <1>1, <1>5 DEF WaitForRequest, Extract, OutOfMemory, workerVars
<1>6. CASE TakeOldest
  <2>1. results' = results
    BY <1>6 DEF TakeOldest
  <2>2. \A i \in 1..Len(queue') : queue'[i] = queue[i + 1] /\ i + 1 \in 1..Len(queue)
                                  /\ i + 1 # 1
    BY <1>6, Took DEF TypeOK
  <2>3. job' = queue[1] /\ 1 \in 1..Len(queue)
    BY <1>6, Took
  <2>4. \A i, j \in 1..Len(queue') : queue'[i].id = queue'[j].id => i = j
    <3> SUFFICES ASSUME NEW i \in 1..Len(queue'), NEW j \in 1..Len(queue'),
                        queue'[i].id = queue'[j].id
                 PROVE  i = j
      OBVIOUS
    <3>1. i + 1 = j + 1
      BY <2>2 DEF IdsApart
    <3> QED BY <3>1
  <2>5. \A i \in 1..Len(queue') : queue'[i].id \in Ids \ DOMAIN results'
                                  /\ queue'[i].id # job'.id
    BY <2>1, <2>2, <2>3 DEF IdsApart
  <2>6. job'.id \in Ids \ DOMAIN results'
    BY <2>1, <2>3 DEF IdsApart
  <2> QED BY <2>4, <2>5, <2>6 DEF IdsApart
<1>7. CASE Publish
  <2>1. /\ queue' = queue /\ job' = NoJob
        /\ DOMAIN results' \subseteq DOMAIN results \cup {job.id}
    BY <1>7 DEF Publish
  <2>2. job # NoJob /\ job.id \in Ids
    BY <1>7 DEF Publish, WorkerInStep, AtWork, IdsApart
  <2>3. \A i \in 1..Len(queue) : /\ queue[i].id \in Ids \ DOMAIN results'
                                 /\ queue[i].id # job'.id
    BY <2>1, <2>2, NoJobType DEF IdsApart
  <2>4. job'.id \notin DOMAIN results'
    BY <2>1, <2>2, NoJobType DEF TypeOK
  <2> QED BY <2>1, <2>3, <2>4 DEF IdsApart
<1>8. ASSUME NEW captured \in BOOLEAN, Tick(captured)
      PROVE  IdsApart'
  <2>1. results' = results /\ job'.id = job.id /\ (job' # NoJob => job # NoJob)
    BY <1>8, OlderRequest DEF Tick, TypeOK
  <2>2. Len(queue') = Len(queue) /\ \A i \in 1..Len(queue) : queue'[i].id = queue[i].id
    BY <1>8, OlderQueue, OlderRequest
  <2> QED BY <2>1, <2>2 DEF IdsApart
<1> QED BY <1>2, <1>3, <1>4, <1>5, <1>6, <1>7, <1>8 DEF Next, Worker, Requests, Clock

LEMMA StepIInv == IInv /\ [Next]_vars => IInv'
<1> SUFFICES ASSUME IInv, [Next]_vars PROVE IInv'
  OBVIOUS
<1>1. CASE Next
  BY <1>1, StepTypes, StepMain, StepWorker, StepRing, StepIds DEF IInv
<1>2. CASE UNCHANGED vars
  <2>1. TypeOK' /\ MainInStep' /\ IdsApart'
    BY <1>2 DEF IInv, TypeOK, MainInStep, IdsApart, vars, workerVars
  <2>2. WorkerInStep' /\ RingInStep'
    BY <1>2 DEF IInv, WorkerInStep, RingInStep, Since, Newly, AtWork, ClipSpan,
                SleepFor, vars, workerVars
  <2> QED BY <2>1, <2>2 DEF IInv
<1> QED BY <1>1, <1>2

LEMMA Invariance == Spec => []IInv
BY InitIInv, StepIInv, PTL DEF Spec

(* Every variable holds a value of its kind, and no clip filed is longer    *)
(* than the ring: request_clip_sync() and worker_func() of                  *)
(* clip_extractor.cpp.                                                      *)
THEOREM TypeCorrect == Spec => []TypeOK
<1>1. IInv => TypeOK
  BY DEF IInv
<1> QED BY <1>1, Invariance, PTL

-----------------------------------------------------------------------------
(* The latest of three moments, as Window chooses it.                       *)
LEMMA LatestOf ==
  ASSUME NEW a \in Int, NEW b \in Int, NEW d \in Int, NEW n \in {a, b, d},
         a <= n, b <= n, d <= n
  PROVE  (CHOOSE l \in {a, b, d} : \A m \in {a, b, d} : m <= l) = n
<1> DEFINE best == CHOOSE l \in {a, b, d} : \A m \in {a, b, d} : m <= l
<1>1. \A m \in {a, b, d} : m <= n
  OBVIOUS
<1>2. best \in {a, b, d} /\ \A m \in {a, b, d} : m <= best
  BY <1>1
<1>3. best <= n /\ n <= best /\ best \in Int
  BY <1>1, <1>2
<1> HIDE DEF best
<1> QED BY <1>3 DEF best

LEMMA PublishedWindow == IInv => PromptClipIsTheWindow
<1> SUFFICES ASSUME IInv, wpc = "publish", clip.path, taken = 0, job.to >= 0
             PROVE  Covered(clip) = Window(job, job.age - job.heard)
  BY DEF PromptClipIsTheWindow
<1> USE DEF IInv
<1> DEFINE from == job.from  to == job.to  age == job.age  heard == job.heard
           had == job.had
<1>1. /\ from \in Int /\ to \in Int /\ age \in Nat /\ heard \in Nat
      /\ had \in 0..RingSeconds
  BY RequestTypes DEF TypeOK
<1>2. RingSeconds \in Nat /\ had \in Nat
  BY <1>1, ClipAssumption
<1>3. age = to
  BY <1>1 DEF WorkerInStep, AtWork, SleepFor
<1>4. held = Least(RingSeconds, had + heard)
  BY <1>1 DEF RingInStep, Since, AtWork
<1> DEFINE missed == age - heard
           lo == heard - Least(to - from, held)
<1>5. clip.hi = heard /\ clip.lo = lo
  BY <1>1 DEF WorkerInStep, Newly, ClipSpan
<1>6. to - missed = heard /\ missed \in Int
  BY <1>1, <1>3
<1>7. /\ lo \in {from - missed, heard - RingSeconds, -had}
      /\ from - missed <= lo /\ heard - RingSeconds <= lo /\ -had <= lo
  BY <1>1, <1>2, <1>3, <1>4 DEF Least
<1> HIDE DEF missed, lo
<1>8. (CHOOSE l \in {from - missed, heard - RingSeconds, -had} :
         \A m \in {from - missed, heard - RingSeconds, -had} : m <= l) = lo
  BY <1>1, <1>2, <1>6, <1>7, LatestOf
<1>9. Window(job, missed) = [lo |-> lo, hi |-> heard]
  BY <1>1, <1>6, <1>8 DEF Window
<1> QED BY <1>1, <1>5, <1>9 DEF Covered, missed

(* A request that the worker takes in the second it was made, and whose     *)
(* window does not end in the past, gets the window it asked for, cut at    *)
(* the start of the history and at the length of the ring, and moved back   *)
(* by exactly the seconds that were not captured since the request: by none *)
(* while the capture thread keeps up, by as many as the worker slept when   *)
(* capture has been stopped or has died.  It is the sleep and the offset 0  *)
(* of extract_clip() together.                                              *)
THEOREM PromptClip == Spec => []PromptClipIsTheWindow
BY Invariance, PublishedWindow, PTL

-----------------------------------------------------------------------------
(* ClipExtractor with one caller is ClipServer.  The caller waits for the   *)
(* last request made.                                                       *)
WaitsForTheLast == \A c \in Callers : LastAsked(c)

(* How many requests are not served yet.                                    *)
LEMMA PendingCount ==
  ASSUME TypeOK
  PROVE  /\ Len(queue) \in Nat /\ Pending \in Nat
         /\ job = NoJob => Pending = Len(queue)
         /\ job # NoJob => Pending = Len(queue) + 1
BY DEF TypeOK, Pending

LEMMA LastInLine ==
  ASSUME TypeOK
  PROVE  /\ Len(queue) = 0 => LastId = job.id
         /\ Len(queue) > 0 => LastId = queue[Len(queue)].id
BY DEF TypeOK, LastId

LEMMA StepWaits ==
  ASSUME OneCaller, IInv, IInv', WaitsForTheLast, [Next]_vars
  PROVE  WaitsForTheLast'
<1> SUFFICES ASSUME NEW d \in Callers PROVE LastAsked(d)'
  BY DEF WaitsForTheLast
<1> USE DEF IInv
<1>0. LastAsked(d)
  BY DEF WaitsForTheLast
<1>1. ASSUME UNCHANGED <<queue, job, results, asked>>, cpc'[d] # "idle" => cpc[d] # "idle"
      PROVE  LastAsked(d)'
  BY <1>0, <1>1 DEF LastAsked, LastId, Pending
<1>2. CASE Start \/ Stop \/ StopJoin \/ WaitForRequest \/ Extract \/ OutOfMemory
  BY <1>1, <1>2 DEF Start, Stop, StopJoin, WaitForRequest, Extract, OutOfMemory, workerVars
<1>3. ASSUME NEW c \in Callers, NEW from \in Offsets, NEW to \in Offsets,
             Request(c, from, to)
      PROVE  LastAsked(d)'
  <2>1. c = d
    BY DEF OneCaller
  <2>2. asked'[d] = FreshId
    BY <1>3, <2>1 DEF Request, TypeOK
  <2>3. Len(queue') = Len(queue) + 1 /\ queue'[Len(queue')].id = FreshId
    BY <1>3, Requested
  <2>4. Pending' # 0 /\ LastId' = FreshId
    <3>1. Len(queue') > 0 /\ Len(queue') \in Nat
      BY <2>3, PendingCount
    <3>2. LastId' = FreshId
      BY <2>3, <3>1 DEF LastId, TypeOK
    <3> QED BY <3>1, <3>2 DEF Pending
  <2> QED BY <2>2, <2>4 DEF LastAsked
<1>4. ASSUME NEW c \in Callers, Return(c)
      PROVE  LastAsked(d)'
  <2>1. cpc'[d] = "idle"
    BY <1>4 DEF Return, OneCaller, TypeOK
  <2> QED BY <2>1 DEF LastAsked
<1>5. ASSUME NEW c \in Callers, CallerSleeps(c)
      PROVE  LastAsked(d)'
  <2>1. cpc'[d] # "idle" => cpc[d] # "idle"
    BY <1>5 DEF CallerSleeps, OneCaller, TypeOK
  <2> QED BY <1>1, <1>5, <2>1 DEF CallerSleeps, workerVars
<1>6. CASE TakeOldest
  <2>1. UNCHANGED <<asked, cpc, results>> /\ job = NoJob /\ job' # NoJob
    BY <1>6 DEF TakeOldest, WorkerInStep, AtWork
  <2>2. /\ job' = queue[1] /\ Len(queue') = Len(queue) - 1 /\ 1 \in 1..Len(queue)
        /\ \A i \in 1..Len(queue') : queue'[i] = queue[i + 1] /\ i + 1 \in 1..Len(queue)
    BY <1>6, Took
  <2>3. Pending # 0 /\ Pending' # 0
    BY <2>1, <2>2, PendingCount DEF Pending
  <2>4. LastId' = LastId
    <3>1. LastId = queue[Len(queue)].id
      BY <2>2, LastInLine, PendingCount
    <3>2. CASE Len(queue) = 1
      <4>1. LastId' = job'.id
        BY <2>2, <3>2 DEF LastId, TypeOK
      <4> QED BY <2>2, <3>1, <3>2, <4>1
    <3>3. CASE Len(queue) # 1
      <4>1. Len(queue') \in 1..Len(queue') /\ Len(queue') + 1 = Len(queue) /\ queue' # << >>
        BY <2>2, <3>3, PendingCount DEF TypeOK
      <4>2. LastId' = queue'[Len(queue')].id
        BY <4>1 DEF LastId
      <4> QED BY <2>2, <3>1, <4>1, <4>2
    <3> QED BY <3>2, <3>3
  <2> QED BY <1>0, <2>1, <2>3, <2>4 DEF LastAsked
<1>7. CASE Publish
  <2>1. cpc'[d] # "idle" => cpc[d] # "idle"
    BY <1>7 DEF Publish, NotifyCallers
  <2>2. UNCHANGED <<queue, asked>> /\ job # NoJob /\ job' = NoJob
    BY <1>7 DEF Publish, WorkerInStep, AtWork
  <2>3. Pending # 0
    BY <2>2, PendingCount
  <2>4. CASE Len(queue) = 0
    <3>1. LastId = job.id /\ Pending' = 0
      BY <2>2, <2>4, LastInLine DEF Pending
    <3>2. asked[d] = job.id => asked'[d] \in DOMAIN results'
      BY <1>7, <2>2 DEF Publish
    <3> QED BY <1>0, <2>1, <2>3, <3>1, <3>2 DEF LastAsked
  <2>5. CASE Len(queue) # 0
    <3>1. LastId' = LastId /\ Pending' # 0
      BY <2>2, <2>5 DEF LastId, Pending, TypeOK
    <3> QED BY <1>0, <2>1, <2>2, <2>3, <3>1 DEF LastAsked
  <2> QED BY <2>4, <2>5
<1>8. ASSUME NEW captured \in BOOLEAN, Tick(captured)
      PROVE  LastAsked(d)'
  <2>1. /\ UNCHANGED <<asked, cpc, results>> /\ job'.id = job.id
        /\ (job' = NoJob <=> job = NoJob)
    BY <1>8, OlderRequest DEF Tick, TypeOK
  <2>2. /\ Len(queue') = Len(queue) /\ Len(queue) \in Nat
        /\ \A i \in 1..Len(queue) : queue'[i].id = queue[i].id
    <3>1. \A i \in 1..Len(queue) : queue'[i].id = queue[i].id
      BY <1>8, OlderQueue, OlderRequest
    <3> QED BY <1>8, <3>1, OlderQueue, PendingCount
  <2>3. Pending' = Pending
    BY <2>1, <2>2 DEF Pending
  <2>4. LastId' = LastId
    <3>1. CASE Len(queue) = 0
      BY <2>1, <2>2, <3>1 DEF LastId, TypeOK
    <3>2. CASE Len(queue) # 0
      <4>1. Len(queue) \in 1..Len(queue) /\ queue # << >> /\ queue' # << >>
        BY <2>2, <3>2 DEF TypeOK
      <4> QED BY <2>2, <4>1 DEF LastId
    <3> QED BY <3>1, <3>2
  <2> QED BY <1>0, <2>1, <2>3, <2>4 DEF LastAsked
<1>9. CASE UNCHANGED vars
  BY <1>1, <1>9 DEF vars, workerVars
<1> QED BY <1>2, <1>3, <1>4, <1>5, <1>6, <1>7, <1>8, <1>9
        DEF Next, Worker, Caller, Requests, Clock

LEMMA InitWaits == Init => WaitsForTheLast
BY DEF Init, WaitsForTheLast, LastAsked

(* The mapping: the worker's life, and whether a call is under way.         *)
Life == IF wpc \in {"none", "exited", "threw"} THEN wpc ELSE "up"
Call == IF \A c \in Callers : cpc[c] = "idle" THEN "idle" ELSE "waiting"

LEMMA ServerStep ==
  ASSUME Life' = Life, Pending' = Pending, Call' = Call, running' = running
  PROVE  UNCHANGED Server!vars
BY DEF Server!vars, Life, Pending, Call

LEMMA SameCall ==
  ASSUME \A c \in Callers : cpc'[c] = "idle" <=> cpc[c] = "idle"
  PROVE  Call' = Call
<1>1. (\A c \in Callers : cpc'[c] = "idle") <=> (\A c \in Callers : cpc[c] = "idle")
  OBVIOUS
<1> QED BY <1>1 DEF Call

LEMMA SamePending ==
  ASSUME UNCHANGED <<queue, job>>
  PROVE  Pending' = Pending
BY DEF Pending

LEMMA CallOf ==
  ASSUME OneCaller, NEW c \in Callers
  PROVE  /\ Call = IF cpc[c] = "idle" THEN "idle" ELSE "waiting"
         /\ Call' = IF cpc'[c] = "idle" THEN "idle" ELSE "waiting"
BY DEF OneCaller, Call

(* Each step of a thread is a step of the server or none.                   *)
LEMMA MainServes ==
  ASSUME IInv, Start \/ Stop \/ StopJoin
  PROVE  [Server!Next]_Server!vars
<1> USE DEF IInv, MainInStep
<1>0. Call' = Call /\ Pending' = Pending
  BY SameCall, SamePending DEF Start, Stop, StopJoin, workerVars
<1>1. CASE Start
  <2>1. Life = "none" /\ Life' = "up" /\ running' = TRUE
    BY <1>1 DEF Start, Life
  <2>2. Server!Start
    BY <1>0, <2>1 DEF Server!Start, Life, Pending, Call
  <2> QED BY <2>2 DEF Server!Next
<1>2. CASE Stop
  <2>1. Life' = Life /\ running /\ running' = FALSE
    BY <1>2 DEF Stop, Life, NotifyWorker
  <2>2. Server!Stop
    BY <1>0, <2>1 DEF Server!Stop, Life, Pending, Call
  <2> QED BY <2>2 DEF Server!Next
<1>3. CASE StopJoin
  <2>1. Life' = Life /\ running' = running
    BY <1>3 DEF StopJoin, Life
  <2> QED BY <1>0, <2>1, ServerStep
<1> QED BY <1>1, <1>2, <1>3

LEMMA RequestServes ==
  ASSUME OneCaller, IInv, NEW c \in Callers, NEW from \in Offsets,
         NEW to \in Offsets, Request(c, from, to)
  PROVE  [Server!Next]_Server!vars
<1> USE DEF IInv
<1>1. Call = "idle" /\ Call' = "waiting"
  BY CallOf DEF Request, TypeOK
<1>2. Life' = Life /\ running' = running
  BY DEF Request, NotifyWorker, Life
<1>3. Pending' = Pending + 1
  <2>1. Len(queue') = Len(queue) + 1 /\ job' = job
    BY Requested DEF Request, workerVars
  <2> QED BY <2>1, PendingCount DEF Pending
<1>4. Server!Ask
  BY <1>1, <1>2, <1>3 DEF Server!Ask, Life, Pending, Call
<1> QED BY <1>4 DEF Server!Next

(* A call comes back for the last request, of which there is a result only  *)
(* when nothing is left to serve.                                           *)
LEMMA CallerServes ==
  ASSUME OneCaller, IInv, WaitsForTheLast, NEW c \in Callers, Caller(c)
  PROVE  [Server!Next]_Server!vars
<1> USE DEF IInv
<1>1. Pending' = Pending /\ Life' = Life /\ running' = running
  BY SamePending DEF Caller, Return, CallerSleeps, workerVars, Life
<1>2. CASE Return(c)
  <2>1. Call = "waiting" /\ Call' = "idle"
    BY <1>2, CallOf DEF Return, TypeOK
  <2>2. Pending = 0 \/ ~running
    <3>1. CASE asked[c] \in DOMAIN results /\ Pending # 0
      <4>1. asked[c] = LastId
        BY <1>2, <3>1 DEF Return, WaitsForTheLast, LastAsked
      <4>2. LastId \notin DOMAIN results
        <5>1. CASE Len(queue) = 0
          BY <5>1, LastInLine DEF IdsApart
        <5>2. CASE Len(queue) > 0
          BY <5>2, LastInLine DEF IdsApart, TypeOK
        <5> QED BY <5>1, <5>2, PendingCount
      <4> QED BY <3>1, <4>1, <4>2
    <3> QED BY <1>2, <3>1 DEF Return
  <2>3. Server!Return
    BY <1>1, <2>1, <2>2 DEF Server!Return, Life, Pending, Call
  <2> QED BY <2>3 DEF Server!Next
<1>3. CASE CallerSleeps(c)
  <2>1. Call' = Call
    BY <1>3, CallOf DEF CallerSleeps, TypeOK
  <2> QED BY <1>1, <2>1, ServerStep
<1> QED BY <1>2, <1>3 DEF Caller

LEMMA WorkerServes ==
  ASSUME IInv, Worker, WorkerInStep'
  PROVE  [Server!Next]_Server!vars
<1> USE DEF IInv
<1>1. CASE WaitForRequest
  <2>1. Call' = Call /\ Pending' = Pending /\ running' = running
    BY <1>1, SameCall, SamePending DEF WaitForRequest, workerVars
  <2>2. Life = "up"
    BY <1>1 DEF WaitForRequest, Life
  <2>3. CASE running
    <3>1. Life' = Life
      BY <1>1, <2>2, <2>3 DEF WaitForRequest, Life
    <3> QED BY <2>1, <3>1, ServerStep
  <2>4. CASE ~running
    <3>1. Life' = "exited"
      BY <1>1, <2>4 DEF WaitForRequest, Life
    <3>2. Pending = 0
      <4>1. job = NoJob /\ Len(queue) = 0
        BY <1>1 DEF WaitForRequest, WorkerInStep, AtWork
      <4> QED BY <4>1, PendingCount
    <3>3. Server!Leave
      BY <2>1, <2>2, <2>4, <3>1, <3>2 DEF Server!Leave, Life, Pending, Call
    <3> QED BY <3>3 DEF Server!Next
  <2> QED BY <2>3, <2>4
<1>2. CASE TakeOldest
  <2>1. Call' = Call /\ Life' = Life /\ running' = running
    BY <1>2, SameCall DEF TakeOldest, Life
  <2>2. Pending' = Pending
    <3>1. Len(queue') = Len(queue) - 1
      BY <1>2 DEF TakeOldest, TypeOK
    <3>2. job = NoJob /\ job' # NoJob
      BY <1>2 DEF TakeOldest, WorkerInStep, AtWork
    <3> QED BY <3>1, <3>2, PendingCount DEF Pending
  <2> QED BY <2>1, <2>2, ServerStep
<1>3. CASE Extract
  <2>1. Call' = Call /\ Pending' = Pending /\ Life' = Life /\ running' = running
    BY <1>3, SameCall, SamePending DEF Extract, Life
  <2> QED BY <2>1, ServerStep
<1>4. CASE Publish
  <2>1. Call' = Call
    BY <1>4, SameCall DEF Publish, NotifyCallers
  <2>2. Life = "up" /\ Life' = "up" /\ running' = running
    BY <1>4 DEF Publish, Life
  <2>3. Pending > 0 /\ Pending' = Pending - 1
    <3>1. job # NoJob /\ job' = NoJob /\ queue' = queue
      BY <1>4 DEF Publish, WorkerInStep, AtWork
    <3> QED BY <3>1, PendingCount DEF Pending
  <2>4. Server!Serve
    BY <2>1, <2>2, <2>3 DEF Server!Serve, Life, Pending, Call
  <2> QED BY <2>4 DEF Server!Next
<1>5. CASE OutOfMemory
  <2>1. Call' = Call /\ Pending' = Pending /\ running' = running
    BY <1>5, SameCall, SamePending DEF OutOfMemory, workerVars
  <2>2. Life = "up" /\ Life' = "threw"
    BY <1>5 DEF OutOfMemory, Life
  <2>3. Pending > 0
    BY <1>5, PendingCount DEF OutOfMemory, WorkerInStep, AtWork
  <2>4. Server!Throw
    BY <2>1, <2>2, <2>3 DEF Server!Throw, Life, Pending, Call
  <2> QED BY <2>4 DEF Server!Next
<1> QED BY <1>1, <1>2, <1>3, <1>4, <1>5 DEF Worker

LEMMA ServerNext ==
  ASSUME OneCaller, IInv, IInv', WaitsForTheLast, [Next]_vars
  PROVE  [Server!Next]_Server!vars
<1>1. ASSUME NEW captured \in BOOLEAN, Tick(captured)
      PROVE  [Server!Next]_Server!vars
  <2>1. Call' = Call /\ Life' = Life /\ running' = running
    BY <1>1, SameCall DEF Tick, Life
  <2>2. Len(queue') = Len(queue) /\ (job' = NoJob <=> job = NoJob)
    BY <1>1, OlderQueue, OlderRequest DEF Tick, TypeOK, IInv
  <2>3. Pending' = Pending
    BY <2>2 DEF Pending
  <2> QED BY <2>1, <2>3, ServerStep
<1>2. CASE UNCHANGED vars
  <2>1. Call' = Call /\ Pending' = Pending /\ Life' = Life /\ running' = running
    BY <1>2, SameCall, SamePending DEF vars, Life, workerVars
  <2> QED BY <2>1, ServerStep
<1> QED BY <1>1, <1>2, MainServes, RequestServes, CallerServes, WorkerServes
        DEF Next, IInv, Requests, Clock

LEMMA ServerInit == Init => Server!Init
BY DEF Init, Server!Init

(* With one caller, as the daemon has, the extractor is the server of       *)
(* requests that ControlServer, ControlSocket and Daemon are built on: a    *)
(* call comes back with the result of its own request or because the        *)
(* extractor does not run, and a worker that is stopped serves what is      *)
(* queued before it leaves.                                                 *)
THEOREM ImplementsServer ==
  ASSUME OneCaller
  PROVE  Spec => Server!Spec
<1>1. Init => WaitsForTheLast
  BY InitWaits
<1>2. IInv /\ IInv' /\ WaitsForTheLast /\ [Next]_vars => WaitsForTheLast'
  BY StepWaits
<1>3. IInv /\ IInv' /\ WaitsForTheLast /\ [Next]_vars => [Server!Next]_Server!vars
  BY ServerNext
<1> QED BY <1>1, <1>2, <1>3, ServerInit, Invariance, PTL DEF Spec, Server!Spec
=============================================================================
