---------------------------- MODULE ClipExtractor ----------------------------
(***************************************************************************)
(* ClipExtractor (src/capture/clip_extractor.cpp): callers put requests on  *)
(* a queue and wait for their result; one worker takes the requests in      *)
(* order, sleeps until the end of the clip should have been captured and    *)
(* copies the newest seconds of the ring buffer into a file.                *)
(*                                                                         *)
(* Two things are counted in seconds: the time that passes, which is what   *)
(* the worker sleeps for, and the audio captured in it, which is what the   *)
(* ring holds.  A second passes without its audio before the capture thread *)
(* is started and after it is joined (capture_pipeline.cpp starts it after  *)
(* the clip extractor and stops it before), when it has died of an error,   *)
(* and in an overrun.  Both are kept relative to the requests under way, so *)
(* that neither is bounded: a request has its age and the seconds heard     *)
(* since it was made, and a clip covers seconds counted from its request.   *)
(* The steps of a thread take no time: the clock moves when all wait.       *)
(***************************************************************************)
EXTENDS Integers, Sequences, FiniteSets

CONSTANTS Callers,      \* threads that call request_clip_sync()
          Offsets,      \* the offsets, in seconds, a request may name
          Ids,          \* request ids; as many as there may be requests at once
          RingSeconds,  \* what the ring buffer holds
          DiskFails,    \* whether sf_open and sf_write may fail
          MemoryFails,  \* whether the samples may find no memory
          MaxAge        \* bound: age of a request that nobody is there to serve

ASSUME ClipAssumption ==
    /\ Offsets \subseteq Int /\ Ids \subseteq Nat \ {0}
    /\ RingSeconds \in Nat \ {0}
    /\ DiskFails \in BOOLEAN /\ MemoryFails \in BOOLEAN /\ MaxAge \in Nat

VARIABLES
    held,     \* seconds in the ring buffer
    running,  \* running_
    queue,    \* queue_: see NewRequest
    results,  \* results_: what became of the requests that callers wait for
    wpc,      \* worker: none, check, asleep, sleeping, publish, exited; threw
              \* when an exception has left the thread, and ended the process
    job,      \* worker: the request being served
    taken,    \* history: its age when the worker took it
    left,     \* worker: what is left of sleep_for
    clip,     \* worker: what extract_clip() returned
    cpc,      \* per caller: idle, check, asleep
    asked,    \* per caller: the request it waits for
    spc       \* the main thread: new, up, stopping, stopped

workerVars == <<job, taken, left, clip>>
vars == <<held, running, queue, results, wpc, workerVars, cpc, asked, spc>>

Failed == [path |-> FALSE, lo |-> 0, hi |-> 0, written |-> 0]
NoJob  == [id |-> 0, from |-> 0, to |-> 0, age |-> 0, heard |-> 0, had |-> 0]

(* A request, the seconds that have passed and that have been captured      *)
(* since it was made, and what the ring held then.                          *)
NewRequest(id, from, to) ==
    [id |-> id, from |-> from, to |-> to, age |-> 0, heard |-> 0, had |-> held]

Least(a, b) == IF a <= b THEN a ELSE b

Alive == wpc # "threw"

(* Mutant: the worker is not notified.                                      *)
NotifyNobody  == UNCHANGED wpc
NotifyWorker  == wpc' = IF wpc = "asleep" THEN "check" ELSE wpc
NotifyCallers == cpc' = [c \in Callers |->
                           IF cpc[c] = "asleep" THEN "check" ELSE cpc[c]]

-----------------------------------------------------------------------------
(* start(), and stop() of the main thread.                                  *)
Start ==
    /\ spc = "new"
    /\ running' = TRUE
    /\ wpc' = "check"
    /\ spc' = "up"
    /\ UNCHANGED <<held, queue, results, workerVars, cpc, asked>>

(* running_ is cleared under queue_mutex_, and queue_cv_ is notified:       *)
(* results_cv_, on which the callers wait, is not.                          *)
Stop ==
    /\ spc = "up" /\ Alive
    /\ running' = FALSE
    /\ NotifyWorker
    /\ spc' = "stopping"
    /\ UNCHANGED <<held, queue, results, workerVars, cpc, asked>>

StopJoin ==
    /\ spc = "stopping" /\ wpc = "exited"
    /\ spc' = "stopped"
    /\ UNCHANGED <<held, running, queue, results, wpc, workerVars, cpc, asked>>

-----------------------------------------------------------------------------
(* request_clip_sync(): the request is queued, running or not, and then the *)
(* caller waits for its result for as long as the extractor runs.  next_id_ *)
(* never gives out an id twice; here one that is of no use to anybody any   *)
(* more is given out again.                                                 *)
InUse == {queue[i].id : i \in DOMAIN queue} \cup {job.id} \cup DOMAIN results
         \cup {asked[c] : c \in Callers}
FreshId == CHOOSE i \in Ids : i \notin InUse

Request(c, from, to) ==
    /\ cpc[c] = "idle" /\ Alive
    /\ Ids \ InUse # {}
    /\ asked' = [asked EXCEPT ![c] = FreshId]
    /\ queue' = Append(queue, NewRequest(FreshId, from, to))
    /\ NotifyWorker
    /\ cpc' = [cpc EXCEPT ![c] = "check"]
    /\ UNCHANGED <<held, running, results, workerVars, spc>>

(* Mutant: the caller does not wait for its result.                         *)
ReturnAny(c) ==
    /\ cpc[c] = "check"
    /\ results' = [i \in DOMAIN results \ {asked[c]} |-> results[i]]
    /\ cpc' = [cpc EXCEPT ![c] = "idle"]
    /\ asked' = [asked EXCEPT ![c] = 0]
    /\ UNCHANGED <<held, running, queue, wpc, workerVars, spc>>

Return(c) ==
    /\ cpc[c] = "check"
    /\ asked[c] \in DOMAIN results \/ ~running
    /\ results' = [i \in DOMAIN results \ {asked[c]} |-> results[i]]
    /\ cpc' = [cpc EXCEPT ![c] = "idle"]
    /\ asked' = [asked EXCEPT ![c] = 0]
    /\ UNCHANGED <<held, running, queue, wpc, workerVars, spc>>

CallerSleeps(c) ==
    /\ cpc[c] = "check"
    /\ asked[c] \notin DOMAIN results /\ running
    /\ cpc' = [cpc EXCEPT ![c] = "asleep"]
    /\ UNCHANGED <<held, running, queue, results, wpc, workerVars, asked, spc>>

Caller(c) == Alive /\ (Return(c) \/ CallerSleeps(c))

-----------------------------------------------------------------------------
(* The worker.  Checking and falling asleep are one step: both Request and  *)
(* Stop change what it checks under the mutex it holds.                     *)
WaitForRequest ==
    /\ wpc = "check" /\ queue = << >>
    /\ wpc' = IF running THEN "asleep" ELSE "exited"
    /\ UNCHANGED <<held, running, queue, results, workerVars, cpc, asked, spc>>

SleepFor(request) == IF request.to > 0 THEN request.to ELSE 0

(* Mutant: the worker leaves requests behind when it is stopped.            *)
TakeUnlessStopped ==
    /\ wpc = "check"
    /\ UNCHANGED <<held, running, results, clip, cpc, asked, spc>>
    /\ IF ~running
       THEN wpc' = "exited" /\ UNCHANGED <<queue, job, taken, left>>
       ELSE IF queue = << >>
       THEN wpc' = "asleep" /\ UNCHANGED <<queue, job, taken, left>>
       ELSE /\ job' = Head(queue) /\ queue' = Tail(queue)
            /\ taken' = job'.age /\ left' = SleepFor(job')
            /\ wpc' = "sleeping"

(* The front request is taken; a clip that ends in the future is slept for. *)
TakeOldest ==
    /\ wpc = "check" /\ queue # << >>
    /\ job' = Head(queue) /\ queue' = Tail(queue)
    /\ taken' = job'.age /\ left' = SleepFor(job')
    /\ wpc' = "sleeping"
    /\ UNCHANGED <<held, running, results, clip, cpc, asked, spc>>

(* The clip is the newest seconds of the ring, as many as the request spans *)
(* and the ring has; the ring is read after the sleep, at offset 0.         *)
(* Mutant: the span is measured from the request's start to now.            *)
SpanFromStart(request) == -request.from
ClipSpan(request) == request.to - request.from

Newest(length) ==
    IF length <= 0 THEN Failed
    ELSE [path |-> TRUE, lo |-> job.heard - length, hi |-> job.heard,
          written |-> length]

(* Mutant: the ring is taken to hold all that is asked for.                 *)
ExtractedUnchecked == Newest(ClipSpan(job))
Extracted == Newest(Least(ClipSpan(job), held))

(* A file that cannot be opened gives no path; one that takes only some of  *)
(* the samples does, with a warning in the log.                             *)
Extract ==
    /\ wpc = "sleeping" /\ left = 0
    /\ \/ clip' = Extracted
       \/ DiskFails /\ clip' = Failed
       \/ DiskFails /\ \E n \in 0..Extracted.written :
                          clip' = [Extracted EXCEPT !.written = n]
    /\ wpc' = "publish"
    /\ UNCHANGED <<held, running, queue, results, job, taken, left, cpc, asked,
                   spc>>

(* The buffer for the samples is as long as the request spans, whatever the *)
(* ring holds; nobody catches what its allocation throws.                   *)
OutOfMemory ==
    /\ wpc = "sleeping" /\ left = 0
    /\ MemoryFails /\ ClipSpan(job) > 0
    /\ wpc' = "threw"
    /\ UNCHANGED <<held, running, queue, results, workerVars, cpc, asked, spc>>

(* results_ keeps also what nobody waits for any more, and nobody will ever *)
(* look it up: it is left out.                                              *)
Publish ==
    /\ wpc = "publish"
    /\ results' = IF \E c \in Callers : asked[c] = job.id
                  THEN [i \in DOMAIN results \cup {job.id} |->
                          IF i = job.id THEN clip ELSE results[i]]
                  ELSE results
    /\ NotifyCallers
    /\ job' = NoJob /\ taken' = 0 /\ left' = 0 /\ clip' = Failed
    /\ wpc' = "check"
    /\ UNCHANGED <<held, running, queue, asked, spc>>

Worker == WaitForRequest \/ TakeOldest \/ Extract \/ OutOfMemory \/ Publish

-----------------------------------------------------------------------------
(* A second passes while the threads sleep, and its audio is captured or    *)
(* not: the capture thread runs at most while the extractor does.           *)
Older(request, captured) ==
    [request EXCEPT !.age = @ + 1, !.heard = IF captured THEN @ + 1 ELSE @]

Tick(captured) ==
    /\ \/ wpc = "asleep"
       \/ wpc = "sleeping" /\ left > 0
       \/ wpc \in {"none", "exited"} /\ \A i \in DOMAIN queue : queue[i].age < MaxAge
    /\ \A c \in Callers : cpc[c] # "check"
    /\ captured => spc = "up"
    /\ held' = IF captured THEN Least(held + 1, RingSeconds) ELSE held
    /\ queue' = [i \in DOMAIN queue |-> Older(queue[i], captured)]
    /\ job' = IF job = NoJob THEN NoJob ELSE Older(job, captured)
    /\ left' = IF left > 0 THEN left - 1 ELSE 0
    /\ UNCHANGED <<running, results, wpc, taken, clip, cpc, asked, spc>>

Clock == \E captured \in BOOLEAN : Tick(captured)

-----------------------------------------------------------------------------
Init ==
    /\ held = 0 /\ running = FALSE /\ queue = << >>
    /\ results = [i \in {} |-> Failed]
    /\ wpc = "none" /\ job = NoJob /\ taken = 0 /\ left = 0 /\ clip = Failed
    /\ cpc = [c \in Callers |-> "idle"]
    /\ asked = [c \in Callers |-> 0]
    /\ spc = "new"

Requests == \E c \in Callers, from, to \in Offsets : Request(c, from, to)

Next ==
    \/ Start \/ Stop \/ StopJoin
    \/ Requests
    \/ \E c \in Callers : Caller(c)
    \/ Worker
    \/ Clock

Spec == Init /\ [][Next]_vars

FairSpec ==
    /\ Spec
    /\ WF_vars(Worker) /\ WF_vars(Clock) /\ WF_vars(StopJoin)
    /\ \A c \in Callers : WF_vars(Caller(c))

-----------------------------------------------------------------------------
RequestType == [id : Ids \cup {0}, from : Offsets \cup {0}, to : Offsets \cup {0},
                age : Nat, heard : Nat, had : 0..RingSeconds]
ClipType    == [path : BOOLEAN, lo : Int, hi : Nat, written : 0..RingSeconds]

(* Every variable holds a value of its kind; no clip is longer than the     *)
(* ring.                                                                    *)
TypeOK ==
    /\ held \in 0..RingSeconds /\ running \in BOOLEAN
    /\ queue \in Seq(RequestType)
    /\ DOMAIN results \subseteq Ids
    /\ \A i \in DOMAIN results : results[i] \in ClipType
    /\ wpc \in {"none", "check", "asleep", "sleeping", "publish", "exited", "threw"}
    /\ job \in RequestType /\ taken \in Nat /\ left \in Nat
    /\ clip \in ClipType
    /\ cpc \in [Callers -> {"idle", "check", "asleep"}]
    /\ asked \in [Callers -> Ids \cup {0}]
    /\ spc \in {"new", "up", "stopping", "stopped"}

(* The window of request r, counted from it in captured seconds, when some  *)
(* were missed before its end: from the first second asked for that was     *)
(* captured at all and that the ring still holds when the last one is.      *)
Window(r, missed) ==
    LET hi == r.to - missed
        lo == CHOOSE l \in {r.from - missed, hi - RingSeconds, -r.had} :
                \A m \in {r.from - missed, hi - RingSeconds, -r.had} : m <= l
    IN [lo |-> lo, hi |-> hi]

Covered(c) == [lo |-> c.lo, hi |-> c.hi]

(* README.md:151, "CLIP -5 5 -- 10-second clip spanning 5 seconds before    *)
(* and 5 seconds after now": if the worker takes the request at once and    *)
(* the window does not end in the past, the worker's sleep and the ring's   *)
(* offset 0 together give the window asked for, moved back by the seconds   *)
(* that were not captured since the request and by no more.  With a capture *)
(* thread that is up and loses nothing this is the window asked for; with   *)
(* one that has been stopped or has died it is an earlier one, and it is    *)
(* returned as a success all the same.                                      *)
PromptClipIsTheWindow ==
    wpc = "publish" /\ clip.path /\ taken = 0 /\ job.to >= 0
        => Covered(clip) = Window(job, job.age - job.heard)

(* clip_extractor.hpp:32, "seconds relative to request time": every clip    *)
(* is the window asked for, if no second was missed.                        *)
ClipIsTheWindow ==
    wpc = "publish" /\ clip.path /\ job.heard = job.age
        => Covered(clip) = Window(job, 0)

(* Every call returns if the process lives: the worker serves its request   *)
(* even when it is being stopped, which is why stop() need not notify the   *)
(* callers.                                                                 *)
CallReturns == \A c \in Callers : cpc[c] # "idle" ~> cpc[c] = "idle" \/ ~Alive

(* stop() returns once the worker has served what was queued.  What is      *)
(* asked for after running_ is cleared is queued and slept for like the     *)
(* rest, so that only callers who go on asking for ever can hold it up.     *)
StopReturns ==
    \/ spc = "stopping" ~> spc = "stopped" \/ ~Alive
    \/ []<><<Requests>>_vars

(* With one caller, as in the daemon, this is the server of requests that   *)
(* ControlServer and Daemon are built on: a request counts until its result *)
(* is there, and a call comes back for a result of its own, not for one of  *)
(* an earlier call, unless the extractor is not running.                    *)
Server == INSTANCE ClipServer WITH
    worker  <- IF wpc \in {"none", "exited", "threw"} THEN wpc ELSE "up",
    pending <- Len(queue) + (IF job = NoJob THEN 0 ELSE 1),
    call    <- IF \A c \in Callers : cpc[c] = "idle" THEN "idle" ELSE "waiting"

ServesItsCaller == Server!Promise
=============================================================================
