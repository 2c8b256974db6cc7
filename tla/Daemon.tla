------------------------------- MODULE Daemon -------------------------------
(***************************************************************************)
(* The life of the daemon: once main() has made it (Startup), Daemon::run() *)
(* (src/main.cpp) starts and stops the control socket and the pipeline      *)
(* (src/pipeline/capture_pipeline.cpp) with its capture thread              *)
(* (src/capture/alsa_capture.cpp), clip worker and block recorder.          *)
(*                                                                         *)
(* Here are the flags, the threads and the order in which they start, stop  *)
(* and are joined; what each part does with the data is in its own module.  *)
(* The control thread is ControlServer and the clip worker ClipServer, what *)
(* ControlSocket and ClipExtractor are for the others.  BlockRecorder::stop *)
(* is taken to return.                                                      *)
(***************************************************************************)
EXTENDS Startup, ControlServer

CONSTANTS DeviceFails,  \* whether ALSA may fail beyond recovery
          MaxPending,   \* bound: clips still owed when one more is asked for
          MaxSignals    \* bound: SIGINT and SIGTERM received

ASSUME DaemonAssumption ==
    DeviceFails \in BOOLEAN /\ MaxPending \in Nat \ {0} /\ MaxSignals \in Nat

VARIABLES
    up,         \* the flags that are set, see Flags
    signals,    \* history: signals received
    lateSignal, \* history: a signal came when run() had begun to wait
    capture     \* capture thread: none, check, readi, ring, block, shm, exited

signalVars  == <<signals, lateSignal>>
controlVars == <<control, listening>>
threadVars  == <<capture, clipVars, controlVars>>
vars        == <<main, startupVars, up, signalVars, threadVars>>

(* The signal handlers are installed, and running_ of the Daemon, the       *)
(* CapturePipeline, AlsaCapture and BlockRecorder (recording_);             *)
(* SamplePublisher has its segment mapped.                                  *)
Flags == {"handlers", "daemon", "pipeline", "alsa", "recorder", "shm"}

-----------------------------------------------------------------------------
(* The main thread.  From(a, b) takes run() from one place to the next.     *)
From(a, b) == main = a /\ main' = b
Set(f)     == up' = up \cup {f}
Clear(f)   == up' = up \ {f}

(* Daemon::initialize().  An exception, a failure and exit() end main().    *)
Begin ==
    /\ Initialize
    /\ up' = IF main' = "begin" /\ settings.enable_sample_sharing
             THEN {"shm"} ELSE up
    /\ UNCHANGED threadVars

(* What the rest of the program does not depend on is dropped here.         *)
Forget ==
    /\ input' = << >> /\ sizes' = << >> /\ next' = 0
    /\ settings' = [f \in {"enabled", "enable_sample_sharing"} |-> settings[f]]

InstallHandlers ==
    From("begin", "socket") /\ Set("handlers") /\ Forget /\ UNCHANGED threadVars

(* ControlSocket::start(): the control thread serves from here on.          *)
Listen ==
    From("socket", "startClips") /\ StartSocket /\ UNCHANGED <<up, capture>>

SocketFails == From("socket", "failed") /\ UNCHANGED <<up, threadVars>>

(* CapturePipeline::start().                                                *)
StartClips ==
    /\ From("startClips", "startRecorder")
    /\ UNCHANGED <<up, capture, controlVars>> /\ Clips!Start

StartRecorder ==
    /\ From("startRecorder", "startCapture")
    /\ IF settings.enabled THEN Set("recorder") ELSE UNCHANGED up
    /\ UNCHANGED threadVars

StartCapture ==
    /\ From("startCapture", "started") /\ Set("alsa")
    /\ capture' = "check"
    /\ UNCHANGED <<clipVars, controlVars>>

PipelineStarted ==
    From("started", "up") /\ Set("pipeline") /\ UNCHANGED threadVars

(* running_ = true, whatever a signal has made of it since.                 *)
SetRunning == From("up", "wait") /\ Set("daemon") /\ UNCHANGED threadVars

(* CapturePipeline::stop().                                                 *)
StopPipeline ==
    /\ From("wait", "stopCapture") /\ "daemon" \notin up
    /\ Clear("pipeline")
    /\ UNCHANGED threadVars

(* Mutant: the stream is dropped and running_ stays as it is.               *)
DropOnly ==
    From("stopCapture", "joinCapture") /\ UNCHANGED <<up, threadVars>>

StopCapture ==
    From("stopCapture", "joinCapture") /\ Clear("alsa") /\ UNCHANGED threadVars

(* Mutant: AlsaCapture::stop() does not wait for the capture thread.        *)
JoinNothing ==
    From("joinCapture", "stopClips") /\ UNCHANGED <<up, threadVars>>

JoinCapture ==
    /\ From("joinCapture", "stopClips") /\ capture = "exited"
    /\ UNCHANGED <<up, threadVars>>

StopClips ==
    /\ From("stopClips", "joinClips")
    /\ UNCHANGED <<up, capture, controlVars>> /\ Clips!Stop

JoinClips ==
    /\ From("joinClips", "stopRecorder") /\ worker = "exited"
    /\ UNCHANGED <<up, threadVars>>

StopRecorder ==
    From("stopRecorder", "cleanup") /\ Clear("recorder") /\ UNCHANGED threadVars

Cleanup ==
    From("cleanup", "stopSocket") /\ Clear("shm") /\ UNCHANGED threadVars

(* ControlSocket::stop().                                                   *)
Unlisten ==
    From("stopSocket", "joinSocket") /\ StopSocket /\ UNCHANGED <<up, capture>>

JoinSocket ==
    /\ From("joinSocket", "exited") /\ control = "exited"
    /\ UNCHANGED <<up, threadVars>>

Run ==
    \/ Listen \/ SocketFails \/ StartClips
    \/ StartRecorder \/ StartCapture \/ PipelineStarted \/ SetRunning
    \/ StopPipeline \/ StopCapture \/ JoinCapture \/ StopClips \/ JoinClips
    \/ StopRecorder \/ Cleanup \/ Unlisten \/ JoinSocket

Ended == main \in {"usage", "failed", "exited", "killed"} \/ ~Alive

Main ==
    /\ Begin \/ InstallHandlers \/ (Run /\ UNCHANGED startupVars)
    /\ ~Ended
    /\ UNCHANGED signalVars

(* SIGINT or SIGTERM: the handler clears running_; before it is installed   *)
(* the signal ends the process.                                             *)
Signal ==
    /\ ~Ended
    /\ signals < MaxSignals
    /\ signals' = signals + 1
    /\ IF "handlers" \in up THEN Clear("daemon") /\ UNCHANGED main
                             ELSE main' = "killed" /\ UNCHANGED up
    /\ lateSignal' = (lateSignal \/ main = "wait")
    /\ UNCHANGED <<startupVars, threadVars>>

-----------------------------------------------------------------------------
(* The capture thread.                                                      *)
CheckRunning ==
    /\ capture = "check"
    /\ capture' = IF "alsa" \in up THEN "readi" ELSE "exited"

(* snd_pcm_readi returns a period, or an overrun that prepare() mends, or   *)
(* an error that recover() does not: that of the dropped stream, or one of  *)
(* the device, after which running_ stays true.                             *)
ReadPeriod == capture = "readi" /\ capture' = "ring"
Overrun    == capture = "readi" /\ capture' = "check"

ReadError ==
    /\ capture = "readi"
    /\ DeviceFails \/ "alsa" \notin up
    /\ capture' = "exited"

(* on_audio_chunk(): the ring buffer, then push(), then publish().          *)
WriteRing == capture = "ring" /\ capture' = "block"
Push      == capture = "block" /\ capture' = "shm"
Publish   == capture = "shm" /\ capture' = "check"

CaptureThread ==
    /\ CheckRunning \/ ReadPeriod \/ Overrun \/ ReadError
       \/ WriteRing \/ Push \/ Publish
    /\ ~Ended
    /\ UNCHANGED <<main, startupVars, up, signalVars, clipVars, controlVars>>

ClipThread ==
    /\ ~Ended
    /\ UNCHANGED <<main, startupVars, up, signalVars, capture, controlVars>>
    /\ ClipStep

ControlRest == ~Ended /\ UNCHANGED <<main, startupVars, up, signalVars, capture>>

AcceptOne == Accept /\ ControlRest

ControlThread ==
    /\ ControlStep /\ ControlRest
    /\ ClipCommand => pending < MaxPending

-----------------------------------------------------------------------------
Init ==
    /\ StartupInit /\ ControlInit
    /\ up = {}
    /\ signals = 0 /\ lateSignal = FALSE
    /\ capture = "none"

Next == Main \/ Signal \/ CaptureThread \/ ClipThread \/ AcceptOne \/ ControlThread

Spec == Init /\ [][Next]_vars

(* Every thread that can step does; signals and clients come as they like.  *)
FairSpec ==
    /\ Spec
    /\ WF_vars(Main) /\ WF_vars(CaptureThread) /\ WF_vars(ClipThread)
    /\ WF_vars(ControlThread)

-----------------------------------------------------------------------------
(* Every variable holds a value of its kind.                                *)
TypeOK ==
    /\ main \in {"args", "file", "again", "device", "pipeline", "begin", "socket",
                 "startClips", "startRecorder", "startCapture", "started", "up",
                 "wait", "stopCapture", "joinCapture", "stopClips", "joinClips",
                 "stopRecorder", "cleanup", "stopSocket", "joinSocket",
                 "usage", "failed", "exited", "killed"}
    /\ settings.enabled \in BOOLEAN /\ settings.enable_sample_sharing \in BOOLEAN
    /\ up \subseteq Flags
    /\ lateSignal \in BOOLEAN
    /\ signals \in 0..MaxSignals
    /\ capture \in {"none", "check", "readi", "ring", "block", "shm", "exited"}
    /\ ControlTypes /\ pending <= MaxPending

(* The callback never meets a part that is not there yet or no longer: what *)
(* it pushes is recorded, and what it publishes goes to mapped memory.      *)
CallbackMeetsLiveParts ==
    /\ capture = "block" /\ settings.enabled => "recorder" \in up
    /\ capture = "shm" /\ settings.enable_sample_sharing => "shm" \in up

(* A signal that finds run() waiting ends the daemon, whatever the clients, *)
(* the device and the clip worker are doing, with one exception: the socket *)
(* takes commands until the pipeline has stopped, and clients that go on    *)
(* asking for clips keep the clip worker, and so the main thread that joins *)
(* it, from ever coming to an end.                                          *)
ClipsForEver == []<><<ClipCommand>>_vars /\ <>[](main = "joinClips")

ShutdownCompletes ==
    \/ lateSignal ~> (main = "exited" \/ ~Alive)
    \/ ClipsForEver

(* A client is let go, with an answer or by the timeout, before, during and *)
(* after the start and the shutdown of the pipeline.                        *)
ClientsAreServed ==
    control \in {"recv", "clip", "reply"} ~>
        (control \in {"accept", "exited"} \/ Ended)

(* main.cpp:66, "Press Ctrl+C to stop", with the handlers of main.cpp:50:   *)
(* a signal the handler has taken stops the daemon, if clients leave it to. *)
SignalStops ==
    \/ ("handlers" \in up /\ signals > 0) ~> Ended
    \/ ClipsForEver
=============================================================================
