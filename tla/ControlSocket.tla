---------------------------- MODULE ControlSocket ----------------------------
(***************************************************************************)
(* The control protocol: clients (python/ws_audiod, examples/) that connect,*)
(* send a line and wait; ControlServer's thread, which takes what one       *)
(* recv() returns for one command (src/utils/control_socket.cpp); the       *)
(* handlers of the daemon (src/main.cpp, src/pipeline/); and the monitor    *)
(* (examples/audiod-mon.cpp), which keeps a gain of its own and sets the    *)
(* daemon's to it.                                                          *)
(*                                                                         *)
(* A segment is what one send() delivers, as words: a newline separates     *)
(* words for parse_command() as a blank does.  The case of words, lines     *)
(* longer than the 1023 bytes of the buffer and the numbers of CLIP are left*)
(* out.  A gain is a whole number of dB.                                    *)
(***************************************************************************)
EXTENDS ControlServer, Integers, Sequences, Functions

CONSTANTS Links,       \* the connections of the other clients
          Monitor,     \* the connection of the monitor
          Scripts,     \* the segments a client may send, one after the other
          GainWord,    \* per gain, the word it is written as
          MaxGain,     \* bound: the gains, in dB
          MaxPending   \* bound: clip requests left over when a client comes

AllLinks == Links \cup {Monitor}
Gains    == -MaxGain..MaxGain

ASSUME ControlAssumption ==
    /\ Monitor \notin Links
    /\ MaxGain \in Nat \ {0} /\ MaxPending \in Nat \ {0}
    /\ \A g, h \in Gains : GainWord[g] = GainWord[h] => g = h

VARIABLES
    backlog,   \* connections in the order they came; from recv to reply the
               \* first is the one being served
    link,      \* per connection: free, open, left by its client
    inbox,     \* per connection: the words that have arrived
    rest,      \* per connection: the segments to be sent
    gain,      \* gain_db_
    dcRemove,  \* dc_remove_
    reply,     \* the Response: ok, and the gain if it is that of STATUS
    monitor,   \* off, asking (GET STATUS), idle, setting
    shown,     \* gain_db of the monitor
    answered,  \* history: the monitor's last command was answered
    foreign    \* history: somebody else has set the gain since

linkVars    == <<backlog, link, inbox, rest>>
paramVars   == <<gain, dcRemove>>
monitorVars == <<monitor, shown, answered>>
serverVars  == <<control, listening, clipVars>>
vars == <<serverVars, linkVars, paramVars, reply, monitorVars, foreign>>

NoReply    == [ok |-> FALSE, gain |-> {}]
Ok         == [ok |-> TRUE, gain |-> {}]
Refused    == [ok |-> FALSE, gain |-> {}]
Status     == [ok |-> TRUE, gain |-> {gain}]

-----------------------------------------------------------------------------
(* The clients.  A client may leave at any time: AudioClient after thirty   *)
(* seconds, can_access_socket() of the monitor at once.                     *)
Reachable == Alive /\ listening

Opened(l, script) ==
    /\ Reachable /\ link[l] = "free"
    /\ backlog' = Append(backlog, l)
    /\ link' = [link EXCEPT ![l] = "open"]
    /\ inbox' = [inbox EXCEPT ![l] = << >>]
    /\ rest' = [rest EXCEPT ![l] = script]

Connect(l, script) ==
    /\ pending < MaxPending
    /\ Opened(l, script)
    /\ UNCHANGED <<serverVars, paramVars, reply, monitorVars, foreign>>

Send(l) ==
    /\ link[l] = "open" /\ rest[l] # << >>
    /\ inbox' = [inbox EXCEPT ![l] = @ \o Head(rest[l])]
    /\ rest' = [rest EXCEPT ![l] = Tail(@)]
    /\ UNCHANGED <<serverVars, backlog, link, paramVars, reply, monitorVars,
                   foreign>>

Leave(l) ==
    /\ link[l] = "open"
    /\ link' = [link EXCEPT ![l] = "left"]
    /\ rest' = [rest EXCEPT ![l] = << >>]
    /\ UNCHANGED <<serverVars, backlog, inbox, paramVars, reply, monitorVars,
                   foreign>>

(* The monitor's send_command(), which returns "" when it cannot connect.   *)
MonitorSends(command, state) ==
    /\ \/ Opened(Monitor, <<command>>) /\ monitor' = state /\ UNCHANGED answered
       \/ /\ ~Reachable
          /\ monitor' = "idle" /\ answered' = FALSE
          /\ UNCHANGED linkVars
    /\ UNCHANGED <<serverVars, paramVars, reply, foreign>>

MonitorStarts ==
    /\ monitor = "off"
    /\ shown' = 0
    /\ MonitorSends(<<"GET", "STATUS">>, "asking")

(* Mutant: the gain is sent before the step is added to it.                 *)
SendThenStep(step) ==
    /\ monitor = "idle"
    /\ shown' = shown + step /\ shown' \in Gains
    /\ MonitorSends(<<"SET", "gain_db", GainWord[shown]>>, "setting")

KeyPress(step) ==
    /\ monitor = "idle"
    /\ shown' = shown + step /\ shown' \in Gains
    /\ MonitorSends(<<"SET", "gain_db", GainWord[shown']>>, "setting")

MonitorQuits ==
    /\ monitor = "idle" /\ monitor' = "off"
    /\ shown' = 0 /\ answered' = FALSE
    /\ UNCHANGED <<serverVars, linkVars, paramVars, reply, foreign>>

Client ==
    \/ \E l \in Links : (\E script \in Scripts : Connect(l, script)) \/ Leave(l)
    \/ \E l \in AllLinks : Send(l)
    \/ MonitorStarts \/ MonitorQuits
    \/ \E step \in {-1, 1} : KeyPress(step)

-----------------------------------------------------------------------------
(* The daemon closes the connections but those in left.  The monitor, if it *)
(* is among them, has read what was sent: nothing, or the reply.            *)
Closed(left, sent) ==
    LET kept == Range(left)
    IN
    /\ backlog' = left
    /\ link' = [l \in AllLinks |-> IF l \in kept THEN link[l] ELSE "free"]
    /\ inbox' = [l \in AllLinks |-> IF l \in kept THEN inbox[l] ELSE << >>]
    /\ rest' = [l \in AllLinks |-> IF l \in kept THEN rest[l] ELSE << >>]
    /\ IF Monitor \notin kept /\ link[Monitor] = "open"
       THEN /\ monitor' = "idle" /\ answered' = (sent # {})
            /\ shown' = IF monitor = "asking" /\ \E r \in sent : r.gain # {}
                        THEN CHOOSE g \in Gains : \E r \in sent : g \in r.gain
                        ELSE shown
       ELSE UNCHANGED monitorVars

Served == Head(backlog)
Line   == inbox[Served]

(* parse_command(): the words by position, empty when they are missing.     *)
WordAt(i) == IF i <= Len(Line) THEN Line[i] ELSE ""
Verb      == WordAt(1)
Key       == WordAt(2)
Value     == WordAt(3)

IsNumber(word) == \E n \in Gains : word = GainWord[n]
Number(word)   == CHOOSE n \in Gains : word = GainWord[n]

Received == control = "recv" /\ Line # << >>

Answer(response) ==
    Received /\ Handle /\ reply' = response
    /\ UNCHANGED <<linkVars, monitorVars>>

AcceptClient ==
    /\ backlog # << >> /\ Accept
    /\ UNCHANGED <<linkVars, paramVars, reply, monitorVars, foreign>>

AcceptFails ==
    /\ AcceptEnds
    /\ UNCHANGED <<linkVars, paramVars, reply, monitorVars, foreign>>

(* Mutant: a client that says nothing is waited for.                        *)
WaitForLine ==
    /\ RecvNothing /\ Line = << >> /\ link[Served] = "left"
    /\ Closed(Tail(backlog), {})
    /\ UNCHANGED <<paramVars, reply, foreign>>

(* Mutant: the early return of handle_client() leaves the connection open.  *)
LeaveOpen ==
    /\ RecvNothing /\ Line = << >>
    /\ backlog' = Tail(backlog)
    /\ UNCHANGED <<link, inbox, rest, monitorVars, paramVars, reply, foreign>>

(* The client has left, or says nothing for five seconds.                   *)
CloseSilent ==
    /\ RecvNothing /\ Line = << >>
    /\ Closed(Tail(backlog), {})
    /\ UNCHANGED <<paramVars, reply, foreign>>

(* set_parameter(): std::stod throws on a word that is no number, and the   *)
(* exception, which nothing catches, ends the daemon.                       *)
IsGain == Verb = "SET" /\ Key \in {"gain_db", "gain"}

SetGain ==
    /\ Answer(Ok) /\ IsGain /\ IsNumber(Value)
    /\ gain' = Number(Value) /\ foreign' = (Served # Monitor)
    /\ UNCHANGED dcRemove

SetGainThrows ==
    /\ Received /\ IsGain /\ ~IsNumber(Value)
    /\ Throw
    /\ Closed(<< >>, {})
    /\ UNCHANGED <<paramVars, reply, foreign>>

SetDcRemove ==
    /\ Answer(Ok) /\ Verb = "SET" /\ Key = "dc_remove"
    /\ dcRemove' = (Value \in {"true", "1"})
    /\ UNCHANGED <<gain, foreign>>

SetUnknown ==
    /\ Answer(Refused) /\ Verb = "SET" /\ ~IsGain /\ Key # "dc_remove"
    /\ UNCHANGED <<paramVars, foreign>>

GetStatus ==
    /\ Answer(Status) /\ Verb = "GET" /\ Key = "STATUS"
    /\ foreign' = (foreign /\ Served # Monitor)
    /\ UNCHANGED paramVars

GetOther ==
    /\ Answer(IF Key \in {"LEVEL", "LEVELS"} THEN Ok ELSE Refused)
    /\ Verb = "GET" /\ Key # "STATUS"
    /\ UNCHANGED <<paramVars, foreign>>

InvalidCommand ==
    /\ Answer(Refused) /\ Verb \notin {"CLIP", "SET", "GET"}
    /\ UNCHANGED <<paramVars, foreign>>

AskForClip ==
    /\ Received /\ Verb = "CLIP"
    /\ ClipCommand
    /\ UNCHANGED <<linkVars, paramVars, reply, monitorVars, foreign>>

(* A clip, or the empty path of a request that failed or was not served.    *)
GetClip ==
    /\ ClipAnswered
    /\ reply' \in IF pending = 0 THEN {Ok, Refused} ELSE {Refused}
    /\ UNCHANGED <<linkVars, paramVars, monitorVars, foreign>>

SendReply ==
    /\ Reply
    /\ Closed(Tail(backlog), {reply})
    /\ reply' = NoReply
    /\ UNCHANGED <<paramVars, foreign>>

ControlThread ==
    /\ Alive
    /\ \/ AcceptClient \/ AcceptFails \/ CloseSilent
       \/ SetGain \/ SetGainThrows \/ SetDcRemove \/ SetUnknown
       \/ GetStatus \/ GetOther \/ InvalidCommand
       \/ AskForClip \/ GetClip \/ SendReply

-----------------------------------------------------------------------------
(* The rest of the daemon, in the order of Daemon::run().  Connections that *)
(* are not accepted yet are reset with the listening socket.                *)
DaemonStarts ==
    \/ StartSocket
    \/ listening /\ UNCHANGED <<control, listening>> /\ Clips!Start

DaemonStops == UNCHANGED <<control, listening>> /\ Clips!Stop

SocketStops ==
    /\ worker = "exited" /\ StopSocket
    /\ Closed(IF control \in {"recv", "clip", "reply"} THEN <<Served>> ELSE << >>,
              {})
    /\ UNCHANGED <<paramVars, reply, foreign>>

(* The clip worker; when an exception leaves it, the process ends.          *)
ClipWorker ==
    /\ Alive
    /\ UNCHANGED <<control, listening>> /\ ClipStep
    /\ IF worker' = "threw" THEN Closed(<< >>, {})
                            ELSE UNCHANGED <<linkVars, monitorVars>>
    /\ UNCHANGED <<paramVars, reply, foreign>>

Rest ==
    /\ Alive
    /\ \/ /\ DaemonStarts \/ DaemonStops
          /\ UNCHANGED <<linkVars, paramVars, reply, monitorVars, foreign>>
       \/ SocketStops

Init ==
    /\ ControlInit
    /\ backlog = << >> /\ link = [l \in AllLinks |-> "free"]
    /\ inbox = [l \in AllLinks |-> << >>] /\ rest = [l \in AllLinks |-> << >>]
    /\ gain \in Gains /\ dcRemove = FALSE /\ reply = NoReply
    /\ monitor = "off" /\ shown = 0 /\ answered = FALSE /\ foreign = FALSE

Next == Client \/ ControlThread \/ ClipWorker \/ Rest

Spec == Init /\ [][Next]_vars

(* The daemon's threads run; no client has to do anything.                  *)
FairSpec == Spec /\ WF_vars(ControlThread) /\ WF_vars(ClipWorker)

-----------------------------------------------------------------------------
(* Every variable holds a value of its kind, every connection that is open  *)
(* is in the daemon's hands, and the monitor waits on its own.              *)
TypeOK ==
    /\ ControlTypes
    /\ link \in [AllLinks -> {"free", "open", "left"}]
    /\ {l \in AllLinks : link[l] # "free"} = Range(backlog)
    /\ Alive /\ control \in {"recv", "clip", "reply"} => backlog # << >>
    /\ gain \in Gains /\ dcRemove \in BOOLEAN
    /\ reply \in [ok : BOOLEAN, gain : SUBSET Gains]
    /\ monitor \in {"off", "asking", "idle", "setting"}
    /\ shown \in Gains /\ answered \in BOOLEAN /\ foreign \in BOOLEAN
    /\ monitor \in {"asking", "setting"} <=> link[Monitor] = "open"

(* A client is let go, with an answer or without, behind clients that say   *)
(* nothing, that leave or that wait for a clip, and when the daemon stops.  *)
ClientsAreLetGo == \A l \in AllLinks : link[l] = "open" ~> link[l] # "open"

(* The gain the monitor shows is the daemon's once its command has been     *)
(* answered, until somebody else sets it: the two are exchanged by value    *)
(* over connections that time out, are reset and queue behind others.       *)
MonitorInStep ==
    Alive /\ monitor = "idle" /\ answered /\ ~foreign => shown = gain

(* control_socket.hpp:40, "Accepts newline-delimited text commands and      *)
(* returns single-line JSON responses", README.md:153-161 with an error     *)
(* response for a command that is none: no command ends the daemon.         *)
SurvivesCommands == control # "threw"

(* README.md:194, the monitor's gain in "1 dB steps": a key press moves the *)
(* daemon's gain by one.                                                    *)
GainMovesByOne ==
    [][gain' # gain /\ Served = Monitor => gain' - gain \in {-1, 1}]_vars
=============================================================================
