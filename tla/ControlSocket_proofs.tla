------------------------- MODULE ControlSocket_proofs -------------------------
(***************************************************************************)
(* ControlSocket, proved for every set of connections, every set of scripts *)
(* and every range of gains: the types, and that the gain the monitor shows *)
(* is the daemon's as long as nobody else sets it.                          *)
(*                                                                         *)
(* The argument: a connection waits in the backlog once, so that the one    *)
(* being served is not behind itself; what the monitor has sent arrives as  *)
(* the one command it waits for; and between the handler and the reply the  *)
(* control thread can serve nobody else, so that what the reply says is     *)
(* still true when the monitor reads it.                                    *)
(***************************************************************************)
EXTENDS ControlSocket, SequenceTheorems, TLAPS

NoRepeats(queue) ==
    \A i, j \in DOMAIN queue : queue[i] = queue[j] => i = j

(* Connections are in the backlog from connect() until they are closed.     *)
LinksInStep ==
    /\ link \in [AllLinks -> {"free", "open", "left"}]
    /\ {l \in AllLinks : link[l] # "free"} = Range(backlog)
    /\ backlog \in Seq(AllLinks) /\ NoRepeats(backlog)
    /\ DOMAIN inbox = AllLinks /\ DOMAIN rest = AllLinks

(* What the monitor waits for an answer to is in one piece.                 *)
Command == IF monitor = "asking" THEN <<"GET", "STATUS">>
           ELSE <<"SET", "gain_db", GainWord[shown]>>

CommandOnItsWay ==
    link[Monitor] = "open" =>
        \/ inbox[Monitor] = << >> /\ rest[Monitor] = <<Command>>
        \/ inbox[Monitor] = Command /\ rest[Monitor] = << >>

(* The reply to the monitor is about the gain as it is.                     *)
ReplyInStep ==
    /\ Alive /\ control = "clip" => Served # Monitor
    /\ Alive /\ control = "reply" /\ Served = Monitor =>
         /\ ~foreign
         /\ monitor = "asking" => reply.gain = {gain}
         /\ monitor = "setting" => shown = gain

GainInv == CommandOnItsWay /\ ReplyInStep /\ MonitorInStep

-----------------------------------------------------------------------------
(* The backlog.                                                             *)
LEMMA Appending ==
  ASSUME NEW S, NEW queue \in Seq(S), NEW e \in S, e \notin Range(queue),
         NoRepeats(queue)
  PROVE  /\ Append(queue, e) \in Seq(S) /\ Append(queue, e) # << >>
         /\ Range(Append(queue, e)) = Range(queue) \cup {e}
         /\ NoRepeats(Append(queue, e))
         /\ queue # << >> => Head(Append(queue, e)) = Head(queue)
<1> DEFINE longer == Append(queue, e)
<1>1. /\ longer \in Seq(S) /\ longer # << >>
      /\ Len(longer) = Len(queue) + 1
      /\ \A i \in 1..Len(queue) : longer[i] = queue[i]
      /\ longer[Len(queue) + 1] = e
  BY AppendProperties
<1>2. Len(queue) \in Nat /\ DOMAIN queue = 1..Len(queue)
      /\ DOMAIN longer = 1..(Len(queue) + 1)
  BY <1>1, LenProperties
<1>3. \A i \in DOMAIN longer : i = Len(queue) + 1 \/ i \in DOMAIN queue
  BY <1>2
<1>4. \A i \in DOMAIN queue : i \in DOMAIN longer /\ longer[i] = queue[i]
  BY <1>1, <1>2
<1>5. Len(queue) + 1 \in DOMAIN longer /\ Len(queue) + 1 \notin DOMAIN queue
  BY <1>2
<1>6. queue # << >> => Head(longer) = Head(queue)
  BY HeadTailAppend
<1> HIDE DEF longer
<1>7. Range(longer) = Range(queue) \cup {e}
  <2>1. \A x \in Range(longer) : x \in Range(queue) \cup {e}
    BY <1>1, <1>3, <1>4 DEF Range
  <2>2. \A x \in Range(queue) \cup {e} : x \in Range(longer)
    BY <1>1, <1>4, <1>5 DEF Range
  <2> QED BY <2>1, <2>2
<1>8. NoRepeats(longer)
  <2> SUFFICES ASSUME NEW i \in DOMAIN longer, NEW j \in DOMAIN longer,
                      longer[i] = longer[j]
               PROVE  i = j
    BY DEF NoRepeats
  <2>1. CASE i \in DOMAIN queue /\ j \in DOMAIN queue
    BY <2>1, <1>4 DEF NoRepeats
  <2>2. CASE i \in DOMAIN queue /\ j = Len(queue) + 1
    BY <2>2, <1>1, <1>4 DEF Range
  <2>3. CASE i = Len(queue) + 1 /\ j \in DOMAIN queue
    BY <2>3, <1>1, <1>4 DEF Range
  <2> QED BY <1>3, <2>1, <2>2, <2>3
<1> QED BY <1>1, <1>6, <1>7, <1>8 DEF longer

LEMMA Dropping ==
  ASSUME NEW S, NEW queue \in Seq(S), queue # << >>, NoRepeats(queue)
  PROVE  /\ Head(queue) \in Range(queue)
         /\ Tail(queue) \in Seq(S) /\ NoRepeats(Tail(queue))
         /\ Range(Tail(queue)) = Range(queue) \ {Head(queue)}
<1> DEFINE shorter == Tail(queue)
<1>1. /\ shorter \in Seq(S) /\ Len(shorter) = Len(queue) - 1
      /\ \A i \in 1..Len(shorter) : shorter[i] = queue[i + 1]
  BY HeadTailProperties
<1>2. Len(queue) \in Nat \ {0} /\ DOMAIN queue = 1..Len(queue)
      /\ DOMAIN shorter = 1..(Len(queue) - 1)
  BY <1>1, LenProperties, EmptySeq
<1>3. Head(queue) = queue[1] /\ 1 \in DOMAIN queue
  BY <1>2
<1>4. \A i \in DOMAIN shorter : /\ i + 1 \in DOMAIN queue /\ i + 1 # 1
                                /\ shorter[i] = queue[i + 1]
  BY <1>1, <1>2
<1>5. \A i \in DOMAIN queue : i # 1 =>
         \E k \in DOMAIN shorter : i = k + 1
  <2> SUFFICES ASSUME NEW i \in DOMAIN queue, i # 1
               PROVE  i - 1 \in DOMAIN shorter /\ i = (i - 1) + 1
    OBVIOUS
  <2> QED BY <1>2
<1> HIDE DEF shorter
<1>6. Range(shorter) = Range(queue) \ {Head(queue)}
  <2>1. \A x \in Range(shorter) : x \in Range(queue) /\ x # Head(queue)
    BY <1>3, <1>4 DEF Range, NoRepeats
  <2>2. ASSUME NEW x \in Range(queue), x # Head(queue)
        PROVE  x \in Range(shorter)
    <3>1. PICK i \in DOMAIN queue : x = queue[i]
      BY DEF Range
    <3>2. PICK k \in DOMAIN shorter : i = k + 1
      BY <1>3, <1>5, <2>2, <3>1
    <3> QED BY <1>4, <3>1, <3>2 DEF Range
  <2> QED BY <2>1, <2>2
<1>7. NoRepeats(shorter)
  <2> SUFFICES ASSUME NEW i \in DOMAIN shorter, NEW j \in DOMAIN shorter,
                      shorter[i] = shorter[j]
               PROVE  i = j
    BY DEF NoRepeats
  <2>1. i + 1 = j + 1
    BY <1>4 DEF NoRepeats
  <2> QED BY <1>2, <2>1
<1> QED BY <1>1, <1>3, <1>6, <1>7 DEF shorter, Range

LEMMA One ==
  ASSUME NEW S, NEW e \in S
  PROVE  /\ << >> \in Seq(S) /\ NoRepeats(<< >>) /\ Range(<< >>) = {}
         /\ <<e>> \in Seq(S) /\ NoRepeats(<<e>>) /\ Range(<<e>>) = {e}
         /\ <<e>> # << >> /\ Head(<<e>>) = e
BY DEF NoRepeats, Range

(* The one being served, and those behind it.                               *)
LEMMA ServedFirst ==
  ASSUME LinksInStep, backlog # << >>
  PROVE  /\ Served \in AllLinks /\ Served \in Range(backlog)
         /\ link[Served] # "free"
         /\ Tail(backlog) \in Seq(AllLinks) /\ NoRepeats(Tail(backlog))
         /\ Range(Tail(backlog)) = Range(backlog) \ {Served}
<1>1. backlog \in Seq(AllLinks) /\ NoRepeats(backlog)
  BY DEF LinksInStep
<1>2. /\ Served \in Range(backlog)
      /\ Tail(backlog) \in Seq(AllLinks) /\ NoRepeats(Tail(backlog))
      /\ Range(Tail(backlog)) = Range(backlog) \ {Served}
  BY <1>1, Dropping DEF Served
<1> QED BY <1>2 DEF LinksInStep

-----------------------------------------------------------------------------
(* connect() puts a connection behind those that are there.                 *)
LEMMA Opening ==
  ASSUME LinksInStep, NEW l \in AllLinks, NEW script, Opened(l, script)
  PROVE  /\ LinksInStep'
         /\ backlog' # << >> /\ (backlog # << >> => Served' = Served /\ Served # l)
         /\ link[l] = "free" /\ link'[l] = "open"
         /\ inbox'[l] = << >> /\ rest'[l] = script
         /\ \A k \in AllLinks \ {l} :
              link'[k] = link[k] /\ inbox'[k] = inbox[k] /\ rest'[k] = rest[k]
<1> DEFINE longer == Append(backlog, l)
<1>1. /\ link \in [AllLinks -> {"free", "open", "left"}]
      /\ {k \in AllLinks : link[k] # "free"} = Range(backlog)
      /\ backlog \in Seq(AllLinks) /\ NoRepeats(backlog)
      /\ DOMAIN inbox = AllLinks /\ DOMAIN rest = AllLinks
  BY DEF LinksInStep
<1>2. /\ link[l] = "free" /\ backlog' = longer
      /\ link' = [link EXCEPT ![l] = "open"]
      /\ inbox' = [inbox EXCEPT ![l] = << >>]
      /\ rest' = [rest EXCEPT ![l] = script]
  BY DEF Opened
<1>3. l \notin Range(backlog)
  BY <1>1, <1>2
<1>4. /\ longer \in Seq(AllLinks) /\ longer # << >>
      /\ Range(longer) = Range(backlog) \cup {l} /\ NoRepeats(longer)
      /\ backlog # << >> => Head(longer) = Head(backlog)
  BY <1>1, <1>3, Appending
<1> HIDE DEF longer
<1>5. /\ link' \in [AllLinks -> {"free", "open", "left"}]
      /\ DOMAIN inbox' = AllLinks /\ DOMAIN rest' = AllLinks
      /\ link'[l] = "open" /\ inbox'[l] = << >> /\ rest'[l] = script
      /\ \A k \in AllLinks \ {l} :
           link'[k] = link[k] /\ inbox'[k] = inbox[k] /\ rest'[k] = rest[k]
  BY <1>1, <1>2
<1>6. {k \in AllLinks : link'[k] # "free"} = Range(longer)
  BY <1>1, <1>4, <1>5
<1>7. LinksInStep'
  BY <1>2, <1>4, <1>5, <1>6 DEF LinksInStep
<1>8. backlog # << >> => Served' = Served /\ Served # l
  BY <1>1, <1>2, <1>3, <1>4, ServedFirst DEF Served
<1> QED BY <1>2, <1>4, <1>5, <1>7, <1>8

(* Closing connections leaves the others as they are.                       *)
LEMMA Closing ==
  ASSUME LinksInStep, NEW left \in Seq(AllLinks), NoRepeats(left),
         Range(left) \subseteq Range(backlog), NEW sent, Closed(left, sent)
  PROVE  /\ LinksInStep' /\ backlog' = left
         /\ \A k \in AllLinks :
              IF k \in Range(left)
              THEN link'[k] = link[k] /\ inbox'[k] = inbox[k] /\ rest'[k] = rest[k]
              ELSE link'[k] = "free"
<1>1. /\ link \in [AllLinks -> {"free", "open", "left"}]
      /\ {k \in AllLinks : link[k] # "free"} = Range(backlog)
  BY DEF LinksInStep
<1>2. /\ backlog' = left
      /\ link' = [l \in AllLinks |-> IF l \in Range(left) THEN link[l] ELSE "free"]
      /\ inbox' = [l \in AllLinks |-> IF l \in Range(left) THEN inbox[l] ELSE << >>]
      /\ rest' = [l \in AllLinks |-> IF l \in Range(left) THEN rest[l] ELSE << >>]
  BY DEF Closed
<1>3. /\ link' \in [AllLinks -> {"free", "open", "left"}]
      /\ DOMAIN inbox' = AllLinks /\ DOMAIN rest' = AllLinks
      /\ \A k \in AllLinks :
           IF k \in Range(left)
           THEN link'[k] = link[k] /\ inbox'[k] = inbox[k] /\ rest'[k] = rest[k]
           ELSE link'[k] = "free"
  BY <1>1, <1>2
<1>4. {k \in AllLinks : link'[k] # "free"} = Range(left)
  BY <1>1, <1>3
<1>5. LinksInStep'
  BY <1>2, <1>3, <1>4 DEF LinksInStep
<1> QED BY <1>2, <1>3, <1>5

(* The daemon's end of the connection the monitor waits on.                 *)
MonitorTypes ==
    /\ monitor \in {"off", "asking", "idle", "setting"}
    /\ shown \in Gains /\ answered \in BOOLEAN
    /\ monitor \in {"asking", "setting"} <=> link[Monitor] = "open"

LEMMA MonitorLetGo ==
  ASSUME LinksInStep, MonitorTypes, link[Monitor] # "left",
         NEW left \in Seq(AllLinks), NoRepeats(left),
         Range(left) \subseteq Range(backlog),
         NEW sent, \A r \in sent : r.gain \subseteq Gains, Closed(left, sent)
  PROVE  MonitorTypes' /\ link'[Monitor] # "left"
<1>1. Monitor \in AllLinks
  BY DEF AllLinks
<1>2. IF Monitor \in Range(left) THEN link'[Monitor] = link[Monitor]
      ELSE link'[Monitor] = "free"
  BY <1>1, Closing
<1>3. CASE Monitor \notin Range(left) /\ link[Monitor] = "open"
  <2>1. /\ monitor' = "idle" /\ answered' = (sent # {})
        /\ shown' = IF monitor = "asking" /\ \E r \in sent : r.gain # {}
                    THEN CHOOSE g \in Gains : \E r \in sent : g \in r.gain
                    ELSE shown
    BY <1>3 DEF Closed
  <2>2. (\E r \in sent : r.gain # {}) => \E g \in Gains : \E r \in sent : g \in r.gain
    OBVIOUS
  <2>3. shown' \in Gains
    BY <2>1, <2>2 DEF MonitorTypes
  <2> QED BY <1>2, <1>3, <2>1, <2>3 DEF MonitorTypes
<1>4. CASE ~(Monitor \notin Range(left) /\ link[Monitor] = "open")
  <2>1. UNCHANGED <<monitor, shown, answered>>
    BY <1>4 DEF Closed, monitorVars
  <2>2. link'[Monitor] = "open" <=> link[Monitor] = "open"
    BY <1>2, <1>4
  <2>3. link'[Monitor] # "left"
    BY <1>2
  <2> QED BY <2>1, <2>2, <2>3 DEF MonitorTypes
<1> QED BY <1>3, <1>4

-----------------------------------------------------------------------------
(* The type invariant, and what makes it inductive: the backlog holds what  *)
(* is not free, once, and the monitor does not leave.                       *)
Serving == Alive /\ control \in {"recv", "clip", "reply"}

DataTypes ==
    /\ gain \in Gains /\ dcRemove \in BOOLEAN /\ foreign \in BOOLEAN
    /\ reply \in [ok : BOOLEAN, gain : SUBSET Gains]

TypeInv ==
    /\ LinksInStep /\ link[Monitor] # "left"
    /\ ControlTypes /\ (Serving => backlog # << >>)
    /\ DataTypes /\ MonitorTypes

LEMMA TypeInvHasTypes == TypeInv => TypeOK
BY DEF TypeInv, TypeOK, LinksInStep, Serving, Alive, DataTypes, MonitorTypes

LEMMA ConstantTypes == Monitor \in AllLinks /\ 0 \in Gains /\ Monitor \notin Links
<1>1. MaxGain \in Nat /\ Monitor \notin Links
  BY ControlAssumption
<1> QED BY <1>1 DEF AllLinks, Gains

LEMMA TypeInvInit == Init => TypeInv
<1> SUFFICES ASSUME Init
             PROVE  TypeInv
  OBVIOUS
<1> USE DEF Init
<1>1. ControlTypes /\ ~Serving
  BY DEF ControlInit, ControlTypes, Serving, Alive
<1>2. LinksInStep /\ link[Monitor] = "free"
  <2>1. backlog \in Seq(AllLinks) /\ NoRepeats(backlog) /\ Range(backlog) = {}
    BY ConstantTypes, One
  <2> QED BY <2>1, ConstantTypes DEF LinksInStep
<1>3. DataTypes
  BY DEF DataTypes, NoReply
<1>4. MonitorTypes
  BY <1>2, ConstantTypes DEF MonitorTypes
<1> QED BY <1>1, <1>2, <1>3, <1>4 DEF TypeInv

(* The steps of the server thread keep its own types.                       *)
LEMMA ControlKeepsTypes ==
  ASSUME ControlTypes,
         \/ StartSocket \/ StopSocket \/ Accept \/ AcceptEnds \/ RecvNothing
         \/ Handle \/ Throw \/ ClipCommand \/ ClipAnswered \/ Reply
  PROVE  ControlTypes'
<1>1. CASE StartSocket \/ StopSocket
  BY <1>1 DEF ControlTypes, StartSocket, StopSocket, clipVars
<1>2. CASE Accept \/ AcceptEnds \/ RecvNothing \/ Handle \/ Throw \/ Reply
  BY <1>2 DEF ControlTypes, Accept, AcceptEnds, RecvNothing, Handle, Throw,
              Reply, Step, clipVars
<1>3. CASE ClipCommand
  BY <1>3 DEF ControlTypes, ClipCommand, Step, Clips!Ask
<1>4. CASE ClipAnswered
  BY <1>4 DEF ControlTypes, ClipAnswered, Step, Clips!Return
<1> QED BY <1>1, <1>2, <1>3, <1>4

LEMMA ClipsKeepTypes ==
  ASSUME ControlTypes, UNCHANGED <<control, listening>>,
         Clips!Start \/ Clips!Stop \/ ClipStep
  PROVE  ControlTypes'
<1>1. CASE Clips!Start \/ Clips!Stop
  BY <1>1 DEF ControlTypes, Clips!Start, Clips!Stop
<1>2. CASE ClipStep
  BY <1>2 DEF ControlTypes, ClipStep, Clips!Serve, Clips!Leave, Clips!Throw
<1> QED BY <1>1, <1>2

(* Connections come, send and leave.                                        *)
LEMMA TypesOpened ==
  ASSUME TypeInv, NEW l \in AllLinks, NEW script, Opened(l, script),
         UNCHANGED <<serverVars, paramVars, reply, foreign>>,
         shown' \in Gains, UNCHANGED answered,
         IF l = Monitor THEN monitor' \in {"asking", "setting"}
                        ELSE UNCHANGED monitor
  PROVE  TypeInv'
<1>1. /\ LinksInStep' /\ backlog' # << >> /\ link'[l] = "open"
      /\ \A k \in AllLinks \ {l} : link'[k] = link[k]
  BY Opening DEF TypeInv
<1>2. ControlTypes'
  BY DEF TypeInv, ControlTypes, serverVars, clipVars
<1>3. DataTypes'
  BY DEF TypeInv, DataTypes, paramVars
<1>4. MonitorTypes' /\ link'[Monitor] # "left"
  <2>1. CASE l = Monitor
    BY <2>1, <1>1 DEF TypeInv, MonitorTypes
  <2>2. CASE l # Monitor
    <3>1. link'[Monitor] = link[Monitor]
      BY <2>2, <1>1, ConstantTypes
    <3> QED BY <2>2, <3>1 DEF TypeInv, MonitorTypes
  <2> QED BY <2>1, <2>2
<1> QED BY <1>1, <1>2, <1>3, <1>4 DEF TypeInv

LEMMA TypesConnect ==
  ASSUME TypeInv, NEW l \in Links, NEW script, Connect(l, script)
  PROVE  TypeInv'
<1>1. l \in AllLinks /\ l # Monitor
  BY ConstantTypes DEF AllLinks
<1>2. /\ Opened(l, script)
      /\ UNCHANGED <<serverVars, paramVars, reply, monitorVars, foreign>>
  BY DEF Connect
<1>3. shown \in Gains
  BY DEF TypeInv, MonitorTypes
<1> QED BY <1>1, <1>2, <1>3, TypesOpened DEF monitorVars

LEMMA TypesMonitorSends ==
  ASSUME TypeInv, NEW command, NEW state \in {"asking", "setting"},
         monitor \in {"off", "idle"}, shown' \in Gains,
         MonitorSends(command, state)
  PROVE  TypeInv'
<1>1. UNCHANGED <<serverVars, paramVars, reply, foreign>>
  BY DEF MonitorSends
<1>2. CASE Opened(Monitor, <<command>>) /\ monitor' = state /\ UNCHANGED answered
  BY <1>1, <1>2, ConstantTypes, TypesOpened
<1>3. CASE /\ ~Reachable
           /\ monitor' = "idle" /\ answered' = FALSE
           /\ UNCHANGED linkVars
  <2>1. LinksInStep' /\ link'[Monitor] # "left" /\ UNCHANGED <<backlog, link>>
    BY <1>3 DEF TypeInv, LinksInStep, linkVars
  <2>2. ControlTypes' /\ UNCHANGED <<control, worker>>
    BY <1>1 DEF TypeInv, ControlTypes, serverVars, clipVars
  <2>3. DataTypes'
    BY <1>1 DEF TypeInv, DataTypes, paramVars
  <2>4. MonitorTypes'
    BY <1>3, <2>1 DEF TypeInv, MonitorTypes
  <2> QED BY <2>1, <2>2, <2>3, <2>4 DEF TypeInv, Serving, Alive
<1> QED BY <1>2, <1>3 DEF MonitorSends

LEMMA TypesSend ==
  ASSUME TypeInv, NEW l \in AllLinks, Send(l)
  PROVE  TypeInv'
<1>1. /\ UNCHANGED <<serverVars, backlog, link, paramVars, reply, monitorVars,
                     foreign>>
      /\ DOMAIN inbox' = DOMAIN inbox /\ DOMAIN rest' = DOMAIN rest
  BY DEF Send
<1>2. LinksInStep'
  BY <1>1 DEF TypeInv, LinksInStep
<1> QED BY <1>1, <1>2 DEF TypeInv, ControlTypes, Serving, Alive, DataTypes, MonitorTypes,
           serverVars, clipVars, paramVars, monitorVars

LEMMA TypesLeave ==
  ASSUME TypeInv, NEW l \in Links, Leave(l)
  PROVE  TypeInv'
<1>1. l \in AllLinks /\ l # Monitor /\ Monitor \in AllLinks
  BY ConstantTypes DEF AllLinks
<1>2. /\ UNCHANGED <<serverVars, backlog, inbox, paramVars, reply, monitorVars,
                     foreign>>
      /\ link[l] = "open" /\ link' = [link EXCEPT ![l] = "left"]
      /\ DOMAIN rest' = DOMAIN rest
  BY DEF Leave
<1>3. /\ link' \in [AllLinks -> {"free", "open", "left"}]
      /\ link'[Monitor] = link[Monitor]
      /\ \A k \in AllLinks : link'[k] # "free" <=> link[k] # "free"
  BY <1>1, <1>2 DEF TypeInv, LinksInStep
<1>4. LinksInStep'
  BY <1>2, <1>3 DEF TypeInv, LinksInStep
<1> QED BY <1>2, <1>3, <1>4 DEF TypeInv, ControlTypes, Serving, Alive, DataTypes,
           MonitorTypes, serverVars, clipVars, paramVars, monitorVars

LEMMA TypesClient ==
  ASSUME TypeInv, Client
  PROVE  TypeInv'
<1>1. ASSUME NEW l \in Links, (\E script \in Scripts : Connect(l, script)) \/ Leave(l)
      PROVE  TypeInv'
  BY <1>1, TypesConnect, TypesLeave
<1>2. ASSUME NEW l \in AllLinks, Send(l)
      PROVE  TypeInv'
  BY <1>2, TypesSend
<1>3. CASE MonitorStarts
  <2>1. /\ monitor = "off" /\ shown' \in Gains
        /\ MonitorSends(<<"GET", "STATUS">>, "asking")
    BY <1>3, ConstantTypes DEF MonitorStarts
  <2> QED BY <2>1, TypesMonitorSends
<1>4. CASE MonitorQuits
  <2>1. /\ monitor = "idle" /\ monitor' = "off" /\ shown' \in Gains
        /\ answered' \in BOOLEAN
        /\ UNCHANGED <<serverVars, linkVars, paramVars, reply, foreign>>
    BY <1>4, ConstantTypes DEF MonitorQuits
  <2>2. LinksInStep' /\ UNCHANGED <<link, backlog>>
    BY <2>1 DEF TypeInv, LinksInStep, linkVars
  <2>3. MonitorTypes'
    BY <2>1, <2>2 DEF TypeInv, MonitorTypes
  <2> QED BY <2>1, <2>2, <2>3 DEF TypeInv, ControlTypes, Serving, Alive, DataTypes,
             serverVars, clipVars, paramVars
<1>5. ASSUME NEW step \in {-1, 1}, KeyPress(step)
      PROVE  TypeInv'
  <2>1. /\ monitor = "idle" /\ shown' \in Gains
        /\ MonitorSends(<<"SET", "gain_db", GainWord[shown']>>, "setting")
    BY <1>5 DEF KeyPress
  <2> QED BY <2>1, TypesMonitorSends
<1> QED BY <1>1, <1>2, <1>3, <1>4, <1>5 DEF Client

(* The daemon closes connections: the one it has served, or all but it.     *)
LEMMA TypesClosed ==
  ASSUME TypeInv, NEW left \in Seq(AllLinks), NoRepeats(left),
         Range(left) \subseteq Range(backlog),
         NEW sent, \A r \in sent : r.gain \subseteq Gains, Closed(left, sent),
         ControlTypes', Serving' => left # << >>, DataTypes'
  PROVE  TypeInv'
<1>1. LinksInStep' /\ backlog' = left
  BY Closing DEF TypeInv
<1>2. MonitorTypes' /\ link'[Monitor] # "left"
  BY MonitorLetGo DEF TypeInv
<1> QED BY <1>1, <1>2 DEF TypeInv

LEMMA TypesCloseServed ==
  ASSUME TypeInv, Serving, NEW sent, \A r \in sent : r.gain \subseteq Gains,
         Closed(Tail(backlog), sent), ControlTypes', ~Serving', DataTypes'
  PROVE  TypeInv'
<1>1. /\ Tail(backlog) \in Seq(AllLinks) /\ NoRepeats(Tail(backlog))
      /\ Range(Tail(backlog)) \subseteq Range(backlog)
  BY ServedFirst DEF TypeInv
<1> QED BY <1>1, TypesClosed

LEMMA TypesCloseSilent ==
  ASSUME Alive, TypeInv, CloseSilent
  PROVE  TypeInv'
<1>1. RecvNothing /\ Closed(Tail(backlog), {}) /\ UNCHANGED <<paramVars, reply, foreign>>
  BY DEF CloseSilent
<1>2. ControlTypes' /\ Serving /\ ~Serving'
  BY <1>1, ControlKeepsTypes DEF TypeInv, RecvNothing, Step, Serving, Alive
<1>3. DataTypes'
  BY <1>1 DEF TypeInv, DataTypes, paramVars
<1> QED BY <1>1, <1>2, <1>3, TypesCloseServed

(* An exception has left a thread: the process ends, and with it every      *)
(* connection.                                                              *)
LEMMA TypesEnds ==
  ASSUME TypeInv, Closed(<< >>, {}), ControlTypes', ~Alive',
         UNCHANGED <<paramVars, reply, foreign>>
  PROVE  TypeInv'
<1>1. ~Serving' /\ DataTypes'
  BY DEF TypeInv, DataTypes, paramVars, Serving
<1>2. << >> \in Seq(AllLinks) /\ NoRepeats(<< >>) /\ Range(<< >>) = {}
  BY ConstantTypes, One
<1> QED BY <1>1, <1>2, TypesClosed

LEMMA TypesSetGainThrows ==
  ASSUME TypeInv, SetGainThrows
  PROVE  TypeInv'
<1>1. Throw /\ Closed(<< >>, {}) /\ UNCHANGED <<paramVars, reply, foreign>>
  BY DEF SetGainThrows
<1>2. ControlTypes' /\ ~Alive'
  BY <1>1, ControlKeepsTypes DEF TypeInv, Throw, Step, Alive
<1> QED BY <1>1, <1>2, TypesEnds

LEMMA TypesSendReply ==
  ASSUME Alive, TypeInv, SendReply
  PROVE  TypeInv'
<1>1. /\ Reply /\ Closed(Tail(backlog), {reply}) /\ reply' = NoReply
      /\ UNCHANGED <<paramVars, foreign>>
  BY DEF SendReply
<1>2. ControlTypes' /\ Serving /\ ~Serving'
  BY <1>1, ControlKeepsTypes DEF TypeInv, Reply, Step, Serving, Alive
<1>3. DataTypes'
  BY <1>1 DEF TypeInv, DataTypes, paramVars, NoReply
<1>4. \A r \in {reply} : r.gain \subseteq Gains
  BY DEF TypeInv, DataTypes
<1> QED BY <1>1, <1>2, <1>3, <1>4, TypesCloseServed

LEMMA TypesSocketStops ==
  ASSUME Alive, TypeInv, SocketStops
  PROVE  TypeInv'
<1> DEFINE left == IF control \in {"recv", "clip", "reply"} THEN <<Served>> ELSE << >>
<1>1. /\ StopSocket /\ Closed(left, {})
      /\ UNCHANGED <<paramVars, reply, foreign>>
  BY DEF SocketStops
<1>2. ControlTypes' /\ Serving' = Serving
  BY <1>1, ControlKeepsTypes DEF TypeInv, StopSocket, clipVars, Serving, Alive
<1>3. DataTypes'
  BY <1>1 DEF TypeInv, DataTypes, paramVars
<1>4. /\ left \in Seq(AllLinks) /\ NoRepeats(left)
      /\ Range(left) \subseteq Range(backlog) /\ (Serving => left # << >>)
  <2>1. CASE Serving
    <3>1. Served \in AllLinks /\ Served \in Range(backlog)
      BY <2>1, ServedFirst DEF TypeInv
    <3> QED BY <2>1, <3>1, One DEF Serving, Alive
  <2>2. CASE ~Serving
    BY <2>2, ConstantTypes, One DEF Serving, Alive
  <2> QED BY <2>1, <2>2
<1> HIDE DEF left
<1> QED BY <1>1, <1>2, <1>3, <1>4, TypesClosed

(* Steps that leave the connections and the monitor alone.                  *)
LEMMA TypesApart ==
  ASSUME TypeInv, UNCHANGED linkVars, UNCHANGED monitorVars,
         ControlTypes', DataTypes', Serving' => backlog # << >>
  PROVE  TypeInv'
<1>1. LinksInStep' /\ UNCHANGED <<backlog, link>>
  BY DEF TypeInv, LinksInStep, linkVars
<1>2. MonitorTypes'
  BY <1>1 DEF TypeInv, MonitorTypes, monitorVars
<1> QED BY <1>1, <1>2 DEF TypeInv

LEMMA TypesAnswer ==
  ASSUME Alive, TypeInv, NEW response \in [ok : BOOLEAN, gain : SUBSET Gains],
         Answer(response), gain' \in Gains, dcRemove' \in BOOLEAN,
         foreign' \in BOOLEAN
  PROVE  TypeInv'
<1>1. /\ Handle /\ reply' = response /\ UNCHANGED linkVars
      /\ UNCHANGED monitorVars
  BY DEF Answer
<1>2. ControlTypes' /\ Serving
  BY <1>1, ControlKeepsTypes DEF TypeInv, Handle, Step, Serving, Alive
<1>3. DataTypes'
  BY <1>1 DEF DataTypes
<1> QED BY <1>1, <1>2, <1>3, TypesApart DEF TypeInv

LEMMA NumberIsGain ==
  ASSUME NEW word, IsNumber(word)
  PROVE  Number(word) \in Gains /\ word = GainWord[Number(word)]
BY DEF IsNumber, Number

LEMMA TypesAnswers ==
  ASSUME Alive, TypeInv,
         SetGain \/ SetDcRemove \/ SetUnknown \/ GetStatus \/ GetOther
         \/ InvalidCommand
  PROVE  TypeInv'
<1>1. /\ Ok \in [ok : BOOLEAN, gain : SUBSET Gains]
      /\ Refused \in [ok : BOOLEAN, gain : SUBSET Gains]
  BY DEF Ok, Refused
<1>2. /\ gain \in Gains /\ dcRemove \in BOOLEAN /\ foreign \in BOOLEAN
  BY DEF TypeInv, DataTypes
<1>3. Status \in [ok : BOOLEAN, gain : SUBSET Gains]
  BY <1>2 DEF Status
<1>4. CASE SetGain
  <2>1. Answer(Ok) /\ IsNumber(Value) /\ gain' = Number(Value)
        /\ foreign' \in BOOLEAN /\ dcRemove' = dcRemove
    BY <1>4 DEF SetGain
  <2> QED BY <1>1, <1>2, <2>1, NumberIsGain, TypesAnswer
<1>5. CASE SetDcRemove
  <2>1. Answer(Ok) /\ dcRemove' \in BOOLEAN /\ UNCHANGED <<gain, foreign>>
    BY <1>5 DEF SetDcRemove
  <2> QED BY <1>1, <1>2, <2>1, TypesAnswer
<1>6. CASE SetUnknown \/ InvalidCommand
  <2>1. Answer(Refused) /\ UNCHANGED <<gain, dcRemove, foreign>>
    BY <1>6 DEF SetUnknown, InvalidCommand, paramVars
  <2> QED BY <1>1, <1>2, <2>1, TypesAnswer
<1>7. CASE GetStatus
  <2>1. Answer(Status) /\ foreign' \in BOOLEAN /\ UNCHANGED <<gain, dcRemove>>
    BY <1>2, <1>7 DEF GetStatus, paramVars
  <2> QED BY <1>2, <1>3, <2>1, TypesAnswer
<1>8. CASE GetOther
  <2>1. Answer(Ok) \/ Answer(Refused)
    BY <1>8 DEF GetOther
  <2>2. UNCHANGED <<gain, dcRemove, foreign>>
    BY <1>8 DEF GetOther, paramVars
  <2> QED BY <1>1, <1>2, <2>1, <2>2, TypesAnswer
<1> QED BY <1>4, <1>5, <1>6, <1>7, <1>8

LEMMA TypesThread ==
  ASSUME TypeInv, ControlThread
  PROVE  TypeInv'
<1>1. ControlTypes /\ DataTypes /\ (Serving => backlog # << >>) /\ Alive
  BY DEF TypeInv, ControlThread
<1>2. CASE AcceptClient
  <2>1. /\ backlog # << >> /\ Accept
        /\ UNCHANGED <<linkVars, paramVars, reply, monitorVars, foreign>>
    BY <1>2 DEF AcceptClient
  <2> QED BY <1>1, <2>1, ControlKeepsTypes, TypesApart DEF DataTypes, paramVars
<1>3. CASE AcceptFails
  <2>1. /\ AcceptEnds
        /\ UNCHANGED <<linkVars, paramVars, reply, monitorVars, foreign>>
    BY <1>3 DEF AcceptFails
  <2>2. ~Serving'
    BY <2>1 DEF AcceptEnds, Step, Serving, Alive
  <2> QED BY <1>1, <2>1, <2>2, ControlKeepsTypes, TypesApart DEF DataTypes, paramVars
<1>4. CASE AskForClip
  <2>1. /\ ClipCommand
        /\ UNCHANGED <<linkVars, paramVars, reply, monitorVars, foreign>>
    BY <1>4 DEF AskForClip
  <2>2. Serving
    BY <1>1, <2>1 DEF ClipCommand, Step, Serving
  <2> QED BY <1>1, <2>1, <2>2, ControlKeepsTypes, TypesApart DEF DataTypes, paramVars
<1>5. CASE GetClip
  <2>1. /\ ClipAnswered /\ reply' \in {Ok, Refused}
        /\ UNCHANGED <<linkVars, paramVars, monitorVars, foreign>>
    BY <1>5 DEF GetClip
  <2>2. Serving
    BY <1>1, <2>1 DEF ClipAnswered, Step, Serving
  <2>3. DataTypes'
    <3>1. /\ Ok \in [ok : BOOLEAN, gain : SUBSET Gains]
          /\ Refused \in [ok : BOOLEAN, gain : SUBSET Gains]
      BY DEF Ok, Refused
    <3>2. reply' \in [ok : BOOLEAN, gain : SUBSET Gains]
      BY <2>1, <3>1
    <3> QED BY <1>1, <2>1, <3>2 DEF DataTypes, paramVars
  <2> QED BY <1>1, <2>1, <2>2, <2>3, ControlKeepsTypes, TypesApart
<1> QED BY <1>1, <1>2, <1>3, <1>4, <1>5, TypesCloseSilent, TypesSetGainThrows,
           TypesSendReply, TypesAnswers DEF ControlThread

LEMMA TypesClipWorker ==
  ASSUME TypeInv, ClipWorker
  PROVE  TypeInv'
<1>1. /\ UNCHANGED <<control, listening>> /\ ClipStep
      /\ UNCHANGED <<paramVars, reply, foreign>>
      /\ IF worker' = "threw" THEN Closed(<< >>, {})
                              ELSE UNCHANGED <<linkVars, monitorVars>>
  BY DEF ClipWorker
<1>2. ControlTypes' /\ DataTypes'
  BY <1>1, ClipsKeepTypes DEF TypeInv, DataTypes, paramVars
<1>3. CASE worker' = "threw"
  BY <1>1, <1>2, <1>3, TypesEnds DEF Alive
<1>4. CASE worker' # "threw"
  <2>1. Serving' => backlog # << >>
    BY <1>1 DEF TypeInv, Serving, Alive, ClipWorker
  <2> QED BY <1>1, <1>2, <1>4, <2>1, TypesApart
<1> QED BY <1>3, <1>4

LEMMA TypesRest ==
  ASSUME TypeInv, Rest
  PROVE  TypeInv'
<1>1. ControlTypes /\ DataTypes /\ (Serving => backlog # << >>) /\ Alive
  BY DEF TypeInv, Rest
<1>2. CASE SocketStops
  BY <1>1, <1>2, TypesSocketStops
<1>3. CASE ~SocketStops
  <2>1. /\ UNCHANGED <<linkVars, paramVars, reply, monitorVars, foreign>>
        /\ DaemonStarts \/ DaemonStops
    BY <1>3 DEF Rest
  <2>2. \/ StartSocket
        \/ /\ UNCHANGED <<control, listening>>
           /\ Clips!Start \/ Clips!Stop
    BY <2>1 DEF DaemonStarts, DaemonStops
  <2>3. ControlTypes'
    BY <1>1, <2>2, ControlKeepsTypes, ClipsKeepTypes
  <2>4. Serving' => Serving
    BY <1>1, <2>2 DEF StartSocket, Serving
  <2>5. DataTypes'
    BY <1>1, <2>1 DEF DataTypes, paramVars
  <2> QED BY <1>1, <2>1, <2>3, <2>4, <2>5, TypesApart
<1> QED BY <1>2, <1>3

LEMMA TypeInvNext == TypeInv /\ [Next]_vars => TypeInv'
<1> SUFFICES ASSUME TypeInv, [Next]_vars
             PROVE  TypeInv'
  OBVIOUS
<1>1. CASE UNCHANGED vars
  <2>1. UNCHANGED <<serverVars, linkVars, paramVars, reply, monitorVars, foreign>>
    BY <1>1 DEF vars
  <2>2. ControlTypes' /\ DataTypes' /\ (Serving' => backlog # << >>)
    BY <2>1 DEF TypeInv, ControlTypes, DataTypes, Serving, Alive, serverVars, clipVars,
                paramVars
  <2> QED BY <2>1, <2>2, TypesApart
<1> QED BY <1>1, TypesClient, TypesThread, TypesClipWorker, TypesRest DEF Next

LEMMA TypeInvariant == Spec => []TypeInv
BY TypeInvInit, TypeInvNext, PTL DEF Spec

(* Every variable holds a value of its kind; every connection that is open  *)
(* waits in the backlog or is being served, and none does that is free; and *)
(* the monitor waits if, and only if, its connection is open, whatever has  *)
(* been sent, left behind, reset or answered (control_socket.cpp).          *)
THEOREM TypeCorrect == Spec => []TypeOK
BY TypeInvariant, TypeInvHasTypes, PTL

-----------------------------------------------------------------------------
(* While the monitor is served, it waits.                                   *)
LEMMA MonitorWaits ==
  ASSUME TypeInv, Serving, Served = Monitor
  PROVE  link[Monitor] = "open" /\ monitor \in {"asking", "setting"}
<1>1. link[Monitor] # "free" /\ link[Monitor] # "left"
  BY ServedFirst DEF TypeInv
<1>2. link[Monitor] = "open"
  BY <1>1, ConstantTypes DEF TypeInv, LinksInStep
<1> QED BY <1>2 DEF TypeInv, MonitorTypes

(* What is received from the monitor is the command it has sent.            *)
LEMMA MonitorLine ==
  ASSUME Alive, TypeInv, GainInv, Received, Served = Monitor
  PROVE  \/ monitor = "asking" /\ Verb = "GET" /\ Key = "STATUS"
         \/ /\ monitor = "setting" /\ Verb = "SET" /\ Key = "gain_db"
            /\ Value = GainWord[shown]
<1>1. link[Monitor] = "open" /\ monitor \in {"asking", "setting"}
  BY MonitorWaits DEF Received, Serving, Alive
<1>2. Line = Command
  BY <1>1 DEF Received, Line, GainInv, CommandOnItsWay
<1>3. CASE monitor = "asking"
  <2>1. Line = <<"GET", "STATUS">>
    BY <1>2, <1>3 DEF Command
  <2>2. Len(Line) = 2 /\ Line[1] = "GET" /\ Line[2] = "STATUS"
    BY <2>1
  <2> QED BY <1>3, <2>2 DEF Verb, Key, WordAt
<1>4. CASE monitor = "setting"
  <2>1. Line = <<"SET", "gain_db", GainWord[shown]>>
    BY <1>2, <1>4 DEF Command
  <2>2. /\ Len(Line) = 3 /\ Line[1] = "SET" /\ Line[2] = "gain_db"
        /\ Line[3] = GainWord[shown]
    BY <2>1
  <2> QED BY <1>4, <2>2 DEF Verb, Key, Value, WordAt
<1> QED BY <1>1, <1>3, <1>4

(* A gain is read as it was written.                                        *)
LEMMA GainReadBack ==
  ASSUME NEW g \in Gains
  PROVE  IsNumber(GainWord[g]) /\ Number(GainWord[g]) = g
<1>1. IsNumber(GainWord[g])
  BY DEF IsNumber
<1>2. /\ Number(GainWord[g]) \in Gains
      /\ GainWord[g] = GainWord[Number(GainWord[g])]
  BY <1>1, NumberIsGain
<1> QED BY <1>1, <1>2, ControlAssumption

LEMMA GainInit == Init => GainInv
<1> SUFFICES ASSUME Init
             PROVE  GainInv
  OBVIOUS
<1>1. link[Monitor] = "free"
  BY ConstantTypes DEF Init
<1>2. control = "none" /\ monitor = "off"
  BY DEF Init, ControlInit
<1> QED BY <1>1, <1>2 DEF GainInv, CommandOnItsWay, ReplyInStep, Alive, MonitorInStep

(* Clients.  Nobody who comes gets before the one that is served.           *)
LEMMA GainConnect ==
  ASSUME TypeInv, GainInv, NEW l \in Links, NEW script, Connect(l, script)
  PROVE  GainInv'
<1>1. l \in AllLinks /\ Monitor \in AllLinks \ {l}
  BY ConstantTypes DEF AllLinks
<1>2. /\ Opened(l, script)
      /\ UNCHANGED <<control, worker, gain, reply, monitor, shown, answered, foreign>>
  BY DEF Connect, serverVars, clipVars, paramVars, monitorVars
<1>3. /\ link'[Monitor] = link[Monitor] /\ inbox'[Monitor] = inbox[Monitor]
      /\ rest'[Monitor] = rest[Monitor]
      /\ backlog # << >> => Served' = Served
  BY <1>1, <1>2, Opening DEF TypeInv
<1>4. CommandOnItsWay'
  BY <1>2, <1>3 DEF GainInv, CommandOnItsWay, Command
<1>5. ReplyInStep'
  BY <1>2, <1>3 DEF GainInv, ReplyInStep, Alive, TypeInv, Serving
<1>6. MonitorInStep'
  BY <1>2 DEF GainInv, MonitorInStep, Alive
<1> QED BY <1>4, <1>5, <1>6 DEF GainInv

LEMMA GainMonitorSends ==
  ASSUME TypeInv, GainInv, NEW state \in {"asking", "setting"},
         monitor \in {"off", "idle"},
         NEW command, MonitorSends(command, state),
         monitor' = state => command = Command'
  PROVE  GainInv'
<1>1. UNCHANGED <<control, worker, gain, reply, foreign>>
  BY DEF MonitorSends, serverVars, clipVars, paramVars
<1>2. Serving => Served # Monitor
  BY MonitorWaits
<1>3. CASE Opened(Monitor, <<command>>) /\ monitor' = state /\ UNCHANGED answered
  <2>1. /\ inbox'[Monitor] = << >> /\ rest'[Monitor] = <<command>>
        /\ backlog # << >> => Served' = Served
    BY <1>3, ConstantTypes, Opening DEF TypeInv
  <2>2. CommandOnItsWay'
    BY <1>3, <2>1 DEF CommandOnItsWay
  <2>3. ReplyInStep'
    BY <1>1, <1>2, <2>1 DEF TypeInv, ReplyInStep, Alive, Serving
  <2>4. MonitorInStep'
    BY <1>3 DEF MonitorInStep, Alive
  <2> QED BY <2>2, <2>3, <2>4 DEF GainInv
<1>4. CASE /\ ~Reachable
           /\ monitor' = "idle" /\ answered' = FALSE
           /\ UNCHANGED linkVars
  <2>1. UNCHANGED <<backlog, link>> /\ link[Monitor] # "open"
    BY <1>4 DEF linkVars, TypeInv, MonitorTypes
  <2>2. CommandOnItsWay'
    BY <2>1 DEF CommandOnItsWay
  <2>3. ReplyInStep'
    BY <1>1, <1>2, <2>1 DEF ReplyInStep, Alive, Serving, Served
  <2>4. MonitorInStep'
    BY <1>4 DEF MonitorInStep, Alive
  <2> QED BY <2>2, <2>3, <2>4 DEF GainInv
<1> QED BY <1>3, <1>4 DEF MonitorSends

LEMMA GainSend ==
  ASSUME TypeInv, GainInv, NEW l \in AllLinks, Send(l)
  PROVE  GainInv'
<1>1. /\ UNCHANGED <<control, worker, backlog, link, gain, reply, monitor, shown, answered,
                     foreign>>
      /\ link[l] = "open" /\ rest[l] # << >>
      /\ inbox' = [inbox EXCEPT ![l] = @ \o Head(rest[l])]
      /\ rest' = [rest EXCEPT ![l] = Tail(@)]
  BY DEF Send, serverVars, clipVars, paramVars, monitorVars
<1>2. DOMAIN inbox = AllLinks /\ DOMAIN rest = AllLinks /\ Monitor \in AllLinks
  BY ConstantTypes DEF TypeInv, LinksInStep
<1>3. CommandOnItsWay'
  <2>1. Command' = Command
    BY <1>1 DEF Command
  <2>2. CASE l # Monitor
    BY <1>1, <1>2, <2>1, <2>2 DEF GainInv, CommandOnItsWay
  <2>3. CASE l = Monitor
    <3>1. inbox[Monitor] = << >> /\ rest[Monitor] = <<Command>>
      BY <1>1, <2>3 DEF GainInv, CommandOnItsWay
    <3>2. /\ inbox'[Monitor] = << >> \o Head(<<Command>>)
          /\ rest'[Monitor] = Tail(<<Command>>)
      BY <1>1, <1>2, <2>3, <3>1
    <3>3. Head(<<Command>>) = Command /\ Tail(<<Command>>) = << >>
      OBVIOUS
    <3> DEFINE words == {"GET", "STATUS", "SET", "gain_db", GainWord[shown]}
    <3>4. /\ <<"GET", "STATUS">> \in Seq(words)
          /\ <<"SET", "gain_db", GainWord[shown]>> \in Seq(words)
      OBVIOUS
    <3>5. << >> \o Command = Command
      <4> HIDE DEF words
      <4> QED BY <3>4, ConcatEmptySeq DEF Command
    <3> QED BY <2>1, <3>2, <3>3, <3>5 DEF CommandOnItsWay
  <2> QED BY <2>2, <2>3
<1>4. ReplyInStep' /\ MonitorInStep'
  BY <1>1 DEF GainInv, ReplyInStep, MonitorInStep, Served, Alive
<1> QED BY <1>3, <1>4 DEF GainInv

LEMMA GainLeave ==
  ASSUME TypeInv, GainInv, NEW l \in Links, Leave(l)
  PROVE  GainInv'
<1>1. l # Monitor /\ Monitor \in AllLinks
  BY ConstantTypes
<1>2. /\ UNCHANGED <<control, worker, backlog, inbox, gain, reply, monitor, shown, answered,
                     foreign>>
      /\ link' = [link EXCEPT ![l] = "left"] /\ rest' = [rest EXCEPT ![l] = << >>]
  BY DEF Leave, serverVars, clipVars, paramVars, monitorVars
<1>3. link'[Monitor] = link[Monitor] /\ rest'[Monitor] = rest[Monitor]
  BY <1>1, <1>2 DEF TypeInv, LinksInStep
<1>4. CommandOnItsWay'
  BY <1>2, <1>3 DEF GainInv, CommandOnItsWay, Command
<1>5. ReplyInStep' /\ MonitorInStep'
  BY <1>2 DEF GainInv, ReplyInStep, MonitorInStep, Served, Alive
<1> QED BY <1>4, <1>5 DEF GainInv

LEMMA GainClient ==
  ASSUME TypeInv, GainInv, Client
  PROVE  GainInv'
<1>1. ASSUME NEW l \in Links, (\E script \in Scripts : Connect(l, script)) \/ Leave(l)
      PROVE  GainInv'
  BY <1>1, GainConnect, GainLeave
<1>2. ASSUME NEW l \in AllLinks, Send(l)
      PROVE  GainInv'
  BY <1>2, GainSend
<1>3. CASE MonitorStarts
  <2>1. monitor = "off" /\ MonitorSends(<<"GET", "STATUS">>, "asking")
    BY <1>3 DEF MonitorStarts
  <2>2. monitor' = "asking" => <<"GET", "STATUS">> = Command'
    BY DEF Command
  <2> QED BY <2>1, <2>2, GainMonitorSends
<1>4. CASE MonitorQuits
  <2>1. /\ monitor = "idle" /\ monitor' = "off"
        /\ UNCHANGED <<control, worker, backlog, link>>
    BY <1>4 DEF MonitorQuits, serverVars, clipVars, linkVars
  <2>2. Serving => Served # Monitor
    BY <2>1, MonitorWaits
  <2>3. link[Monitor] # "open"
    BY <2>1 DEF TypeInv, MonitorTypes
  <2>4. CommandOnItsWay'
    BY <2>1, <2>3 DEF CommandOnItsWay
  <2>5. ReplyInStep'
    BY <2>1, <2>2 DEF ReplyInStep, Alive, Serving, Served
  <2>6. MonitorInStep'
    BY <2>1 DEF MonitorInStep, Alive
  <2> QED BY <2>4, <2>5, <2>6 DEF GainInv
<1>5. ASSUME NEW step \in {-1, 1}, KeyPress(step)
      PROVE  GainInv'
  <2>1. /\ monitor = "idle"
        /\ MonitorSends(<<"SET", "gain_db", GainWord[shown']>>, "setting")
    BY <1>5 DEF KeyPress
  <2>2. monitor' = "setting" => <<"SET", "gain_db", GainWord[shown']>> = Command'
    BY DEF Command
  <2> QED BY <2>1, <2>2, GainMonitorSends
<1> QED BY <1>1, <1>2, <1>3, <1>4, <1>5 DEF Client

(* The daemon closes connections.  The monitor is let go without an answer, *)
(* or with the reply to what it has sent.                                   *)
LEMMA GainClosed ==
  ASSUME TypeInv, GainInv, NEW left \in Seq(AllLinks), NoRepeats(left),
         Range(left) \subseteq Range(backlog), NEW sent, Closed(left, sent),
         sent = {} \/ (Monitor \in Range(left) <=> link[Monitor] = "open"),
         UNCHANGED <<gain, foreign>>, Alive' => Alive
  PROVE  /\ CommandOnItsWay' /\ MonitorInStep'
         /\ Monitor \in Range(left) => UNCHANGED monitorVars
<1>1. Monitor \in AllLinks
  BY ConstantTypes
<1>2. IF Monitor \in Range(left)
      THEN /\ link'[Monitor] = link[Monitor] /\ inbox'[Monitor] = inbox[Monitor]
           /\ rest'[Monitor] = rest[Monitor]
      ELSE link'[Monitor] = "free"
  BY <1>1, Closing DEF TypeInv
<1>3. IF Monitor \notin Range(left) /\ link[Monitor] = "open"
      THEN answered' = (sent # {})
      ELSE UNCHANGED <<monitor, shown, answered>>
  BY DEF Closed, monitorVars
<1>4. CommandOnItsWay'
  BY <1>2, <1>3 DEF GainInv, CommandOnItsWay, Command
<1>5. MonitorInStep'
  BY <1>3 DEF GainInv, MonitorInStep, Alive
<1> QED BY <1>3, <1>4, <1>5 DEF monitorVars

LEMMA GainSocketStops ==
  ASSUME Alive, TypeInv, GainInv, SocketStops
  PROVE  GainInv'
<1> DEFINE left == IF control \in {"recv", "clip", "reply"} THEN <<Served>> ELSE << >>
<1>1. Closed(left, {}) /\ UNCHANGED <<control, worker, gain, reply, foreign>>
  BY DEF SocketStops, StopSocket, clipVars, paramVars
<1>2. /\ left \in Seq(AllLinks) /\ NoRepeats(left)
      /\ Range(left) \subseteq Range(backlog)
      /\ Serving => Head(left) = Served /\ Served \in Range(left)
  <2>1. CASE Serving
    <3>1. Served \in AllLinks /\ Served \in Range(backlog)
      BY <2>1, ServedFirst DEF TypeInv
    <3>2. left = <<Served>>
      BY <2>1 DEF Serving, Alive
    <3> QED BY <3>1, <3>2, One
  <2>2. CASE ~Serving
    BY <2>2, ConstantTypes, One DEF Serving, Alive
  <2> QED BY <2>1, <2>2
<1> HIDE DEF left
<1>3. backlog' = left
  BY <1>1, <1>2, Closing DEF TypeInv
<1>4. /\ CommandOnItsWay' /\ MonitorInStep'
      /\ Monitor \in Range(left) => UNCHANGED monitorVars
  BY <1>1, <1>2, GainClosed DEF Alive
<1>5. ReplyInStep'
  <2>1. Serving => Served' = Served
    BY <1>2, <1>3 DEF Served
  <2>2. Serving /\ Served = Monitor => UNCHANGED <<monitor, shown>>
    BY <1>2, <1>4 DEF monitorVars
  <2> QED BY <1>1, <2>1, <2>2 DEF GainInv, ReplyInStep, Alive, Serving
<1> QED BY <1>4, <1>5 DEF GainInv

LEMMA GainCloseSilent ==
  ASSUME Alive, TypeInv, GainInv, CloseSilent
  PROVE  GainInv'
<1>1. /\ control = "recv" /\ control' = "accept" /\ Closed(Tail(backlog), {})
      /\ UNCHANGED <<gain, foreign>>
  BY DEF CloseSilent, RecvNothing, Step, paramVars
<1>2. /\ Tail(backlog) \in Seq(AllLinks) /\ NoRepeats(Tail(backlog))
      /\ Range(Tail(backlog)) \subseteq Range(backlog)
  BY <1>1, ServedFirst DEF TypeInv, Serving, Alive
<1>3. CommandOnItsWay' /\ MonitorInStep'
  BY <1>1, <1>2, GainClosed DEF Alive
<1> QED BY <1>1, <1>3 DEF GainInv, ReplyInStep, Alive

LEMMA GainEnds ==
  ASSUME TypeInv, GainInv, Closed(<< >>, {}), ~Alive', UNCHANGED <<gain, foreign>>
  PROVE  GainInv'
<1>1. << >> \in Seq(AllLinks) /\ NoRepeats(<< >>) /\ Range(<< >>) = {}
  BY ConstantTypes, One
<1>2. CommandOnItsWay' /\ MonitorInStep'
  BY <1>1, GainClosed
<1> QED BY <1>2 DEF GainInv, ReplyInStep

LEMMA GainThrows ==
  ASSUME TypeInv, GainInv, SetGainThrows
  PROVE  GainInv'
<1>1. /\ control' = "threw" /\ Closed(<< >>, {}) /\ UNCHANGED <<gain, foreign>>
  BY DEF SetGainThrows, Throw, Step, paramVars
<1> QED BY <1>1, GainEnds DEF Alive

LEMMA GainSendReply ==
  ASSUME Alive, TypeInv, GainInv, SendReply
  PROVE  GainInv'
<1>1. /\ control = "reply" /\ control' = "accept"
      /\ Closed(Tail(backlog), {reply}) /\ UNCHANGED <<gain, foreign>>
  BY DEF SendReply, Reply, Step, paramVars
<1>2. /\ Tail(backlog) \in Seq(AllLinks) /\ NoRepeats(Tail(backlog))
      /\ Range(Tail(backlog)) = Range(backlog) \ {Served}
  BY <1>1, ServedFirst DEF TypeInv, Serving, Alive
<1>3. CASE Served # Monitor
  <2>1. Monitor \in Range(Tail(backlog)) <=> link[Monitor] = "open"
    BY <1>2, <1>3, ConstantTypes DEF TypeInv, LinksInStep
  <2>2. CommandOnItsWay' /\ MonitorInStep'
    BY <1>1, <1>2, <2>1, GainClosed DEF Alive
  <2> QED BY <1>1, <2>2 DEF GainInv, ReplyInStep, Alive
<1>4. CASE Served = Monitor
  <2>1. link[Monitor] = "open" /\ monitor \in {"asking", "setting"}
    BY <1>1, <1>4, MonitorWaits DEF Serving, Alive
  <2>2. Monitor \in AllLinks /\ Monitor \notin Range(Tail(backlog))
    BY <1>2, <1>4, ConstantTypes
  <2>3. link'[Monitor] = "free"
    BY <1>1, <1>2, <2>2, Closing DEF TypeInv
  <2>4. shown' = IF monitor = "asking" /\ \E r \in {reply} : r.gain # {}
                 THEN CHOOSE g \in Gains : \E r \in {reply} : g \in r.gain
                 ELSE shown
    BY <1>1, <2>1, <2>2 DEF Closed
  <2>5. shown' = gain
    <3>1. CASE monitor = "asking"
      <4>1. reply.gain = {gain} /\ gain \in Gains
        BY <1>1, <1>4, <3>1 DEF GainInv, ReplyInStep, Alive, TypeInv, DataTypes
      <4>2. \A g \in Gains : (\E r \in {reply} : g \in r.gain) <=> g = gain
        BY <4>1
      <4>3. shown' = CHOOSE g \in Gains : \E r \in {reply} : g \in r.gain
        BY <2>4, <3>1, <4>1
      <4> QED BY <4>1, <4>2, <4>3
    <3>2. CASE monitor = "setting"
      BY <1>1, <1>4, <2>4, <3>2 DEF GainInv, ReplyInStep, Alive
    <3> QED BY <2>1, <3>1, <3>2
  <2>6. CommandOnItsWay' /\ MonitorInStep'
    BY <1>1, <2>3, <2>5 DEF CommandOnItsWay, MonitorInStep, Alive
  <2> QED BY <1>1, <2>6 DEF GainInv, ReplyInStep, Alive
<1> QED BY <1>3, <1>4

(* The commands.                                                            *)
LEMMA GainAnswer ==
  ASSUME Alive, TypeInv, GainInv, NEW response, Answer(response),
         Served = Monitor =>
             /\ ~foreign'
             /\ monitor = "asking" => response.gain = {gain'}
             /\ monitor = "setting" => shown = gain',
         Served # Monitor => foreign' \/ UNCHANGED <<gain, foreign>>
  PROVE  GainInv'
<1>1. /\ control = "recv" /\ control' = "reply" /\ reply' = response
      /\ UNCHANGED <<backlog, link, inbox, rest, monitor, shown, answered>>
  BY DEF Answer, Handle, Step, linkVars, monitorVars
<1>2. CommandOnItsWay'
  BY <1>1 DEF GainInv, CommandOnItsWay, Command
<1>3. ReplyInStep'
  BY <1>1 DEF ReplyInStep, Alive, Served
<1>4. MonitorInStep'
  <2>1. CASE Served = Monitor
    BY <1>1, <2>1, MonitorWaits DEF MonitorInStep, Alive, Serving
  <2>2. CASE Served # Monitor
    BY <1>1, <2>2 DEF GainInv, MonitorInStep, Alive
  <2> QED BY <2>1, <2>2
<1> QED BY <1>2, <1>3, <1>4 DEF GainInv

LEMMA GainAnswers ==
  ASSUME Alive, TypeInv, GainInv,
         SetGain \/ SetDcRemove \/ SetUnknown \/ GetStatus \/ GetOther
         \/ InvalidCommand
  PROVE  GainInv'
<1>1. CASE SetGain
  <2>1. /\ Answer(Ok) /\ Received /\ Verb = "SET" /\ gain' = Number(Value)
        /\ foreign' = (Served # Monitor)
    BY <1>1 DEF SetGain, IsGain, Answer
  <2>2. ASSUME Served = Monitor
        PROVE  monitor = "setting" /\ shown = gain'
    <3>1. monitor = "setting" /\ Value = GainWord[shown]
      BY <2>1, <2>2, MonitorLine
    <3>2. shown \in Gains
      BY DEF TypeInv, MonitorTypes
    <3> QED BY <2>1, <3>1, <3>2, GainReadBack
  <2> QED BY <2>1, <2>2, GainAnswer
<1>2. CASE GetStatus
  <2>1. /\ Answer(Status) /\ Received /\ Verb = "GET" /\ gain' = gain
        /\ foreign' = (foreign /\ Served # Monitor)
    BY <1>2 DEF GetStatus, Answer, paramVars
  <2>2. Served = Monitor => monitor = "asking"
    BY <2>1, MonitorLine
  <2>3. Status.gain = {gain'}
    BY <2>1 DEF Status
  <2>4. Served # Monitor => UNCHANGED <<gain, foreign>>
    BY <2>1 DEF TypeInv, DataTypes
  <2> QED BY <2>1, <2>2, <2>3, <2>4, GainAnswer
<1>3. CASE SetDcRemove \/ SetUnknown \/ GetOther \/ InvalidCommand
  <2>1. /\ UNCHANGED <<gain, foreign>>
        /\ Answer(Ok) \/ Answer(Refused)
    BY <1>3 DEF SetDcRemove, SetUnknown, GetOther, InvalidCommand, paramVars
  <2>2. /\ Received
        /\ ~(Verb = "GET" /\ Key = "STATUS") /\ ~(Verb = "SET" /\ Key = "gain_db")
    BY <1>3 DEF SetDcRemove, SetUnknown, GetOther, InvalidCommand, IsGain, Answer
  <2>3. Served # Monitor
    BY <2>2, MonitorLine
  <2> QED BY <2>1, <2>3, GainAnswer
<1> QED BY <1>1, <1>2, <1>3

(* Steps that leave the connections, the monitor and the gain alone.        *)
LEMMA GainApart ==
  ASSUME TypeInv, GainInv, UNCHANGED linkVars, UNCHANGED monitorVars,
         UNCHANGED <<gain, foreign>>, Alive' => Alive,
         control' = "clip" => control = "clip" \/ Served # Monitor,
         control' = "reply" =>
             (control = "reply" /\ UNCHANGED reply) \/ Served # Monitor
  PROVE  GainInv'
<1>1. UNCHANGED <<backlog, link, inbox, rest, monitor, shown, answered>>
  BY DEF linkVars, monitorVars
<1>2. CommandOnItsWay'
  BY <1>1 DEF GainInv, CommandOnItsWay, Command
<1>3. ReplyInStep'
  BY <1>1 DEF GainInv, ReplyInStep, Alive, Served
<1>4. MonitorInStep'
  BY <1>1 DEF GainInv, MonitorInStep, Alive
<1> QED BY <1>2, <1>3, <1>4 DEF GainInv

LEMMA GainThread ==
  ASSUME TypeInv, GainInv, ControlThread
  PROVE  GainInv'
<1>0. Alive
  BY DEF ControlThread
<1>1. CASE AcceptClient \/ AcceptFails
  <2>1. /\ UNCHANGED <<linkVars, paramVars, reply, monitorVars, foreign>>
        /\ control = "accept" /\ control' \in {"recv", "exited"}
    BY <1>1 DEF AcceptClient, AcceptFails, Accept, AcceptEnds, Step
  <2> QED BY <2>1, <1>0, GainApart DEF paramVars
<1>2. CASE AskForClip
  <2>1. /\ UNCHANGED <<linkVars, paramVars, reply, monitorVars, foreign>>
        /\ Received /\ Verb = "CLIP" /\ control = "recv" /\ control' = "clip"
    BY <1>2 DEF AskForClip, ClipCommand, Step
  <2>2. Served # Monitor
    BY <1>0, <2>1, MonitorLine
  <2> QED BY <2>1, <2>2, <1>0, GainApart DEF paramVars
<1>3. CASE GetClip
  <2>1. /\ UNCHANGED <<linkVars, paramVars, monitorVars, foreign>>
        /\ control = "clip" /\ control' = "reply"
    BY <1>3 DEF GetClip, ClipAnswered, Step
  <2>2. Served # Monitor
    BY <1>0, <2>1 DEF GainInv, ReplyInStep
  <2> QED BY <2>1, <2>2, <1>0, GainApart DEF paramVars
<1> QED BY <1>0, <1>1, <1>2, <1>3, GainCloseSilent, GainThrows, GainSendReply,
           GainAnswers DEF ControlThread

LEMMA GainClipWorker ==
  ASSUME TypeInv, GainInv, ClipWorker
  PROVE  GainInv'
<1>1. /\ Alive /\ UNCHANGED <<control, gain, reply, foreign>>
      /\ IF worker' = "threw" THEN Closed(<< >>, {})
                              ELSE UNCHANGED <<linkVars, monitorVars>>
  BY DEF ClipWorker, paramVars
<1>2. CASE worker' = "threw"
  BY <1>1, <1>2, GainEnds DEF Alive
<1>3. CASE worker' # "threw"
  BY <1>1, <1>3, GainApart
<1> QED BY <1>2, <1>3

LEMMA GainRest ==
  ASSUME TypeInv, GainInv, Rest
  PROVE  GainInv'
<1>1. CASE SocketStops
  BY <1>1, GainSocketStops DEF Rest
<1>2. CASE ~SocketStops
  <2>1. /\ Alive /\ UNCHANGED <<linkVars, paramVars, reply, monitorVars, foreign>>
        /\ DaemonStarts \/ DaemonStops
    BY <1>2 DEF Rest
  <2>2. control' = "accept" \/ UNCHANGED control
    BY <2>1 DEF DaemonStarts, DaemonStops, StartSocket
  <2> QED BY <2>1, <2>2, GainApart DEF paramVars
<1> QED BY <1>1, <1>2

LEMMA GainNext == TypeInv /\ GainInv /\ [Next]_vars => GainInv'
<1> SUFFICES ASSUME TypeInv, GainInv, [Next]_vars
             PROVE  GainInv'
  OBVIOUS
<1>1. CASE UNCHANGED vars
  <2>1. UNCHANGED <<control, worker, linkVars, paramVars, reply, monitorVars, foreign>>
    BY <1>1 DEF vars, serverVars, clipVars
  <2> QED BY <2>1, GainApart DEF Alive, paramVars
<1> QED BY <1>1, GainClient, GainThread, GainClipWorker, GainRest DEF Next

(* The gain the monitor shows is the daemon's from the moment its command   *)
(* has been answered until somebody else sets it, whatever other clients    *)
(* send, whichever connections are reset, whenever the socket is stopped    *)
(* (audiod-mon.cpp, set_parameter() and get_status_json()).                 *)
THEOREM MonitorShowsGain == Spec => []MonitorInStep
<1>1. GainInv => MonitorInStep
  BY DEF GainInv
<1> QED BY <1>1, GainInit, GainNext, TypeInvariant, PTL DEF Spec
=============================================================================
