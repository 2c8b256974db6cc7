---------------------------- MODULE PeriodStream ----------------------------
(***************************************************************************)
(* What SamplePublisher (src/sharing/sample_publisher.cpp) promises the     *)
(* readers of its shared memory: one stream of periods, which lasts over    *)
(* the restarts and the crashes of the daemon and of which every reader     *)
(* gets newer and newer ones; but once after each restart that follows a    *)
(* crash it may be handed again what it has had.  The segments and their    *)
(* headers are left out.                                                    *)
(***************************************************************************)
EXTENDS Integers, Sequences

CONSTANTS Words,    \* words in the sample area: the nominal period
          Readers   \* processes that map the segment

VARIABLES
    run,      \* the daemon: ended, up, crashed, restarting
    cleared,  \* per reader: a restart has cleared the counter it has seen
    periods,  \* the length of each period of the stream
    size,     \* per reader: the words it copies at a time
    rpc,      \* per reader: poll, stamp, data
    seen,     \* per reader: what the read under way, or the last one, saw
    newest    \* per reader: the newest period it has learned of

streamVars == <<run, cleared, periods>>
readerVars == <<size, rpc, seen, newest>>
vars       == <<streamVars, readerVars>>

Area    == 1..Words
Nothing == [period |-> 0, stamp |-> 0, data |-> << >>]
Unread  == -1
Current == Len(periods)

-----------------------------------------------------------------------------
(* The runs of the daemon.  What an orderly end leaves is never cleared.    *)
Start ==
    /\ \/ run = "ended" /\ run' = "up"
       \/ run = "crashed" /\ run' = "restarting"
    /\ UNCHANGED <<cleared, periods, readerVars>>

Clear(readers) ==
    /\ run = "restarting" /\ run' = "up"
    /\ cleared' = [r \in Readers |-> cleared[r] \/ r \in readers]
    /\ UNCHANGED <<periods, readerVars>>

End ==
    /\ run = "up" /\ run' = "ended"
    /\ UNCHANGED <<cleared, periods, readerVars>>

Crash ==
    /\ run \in {"up", "restarting"} /\ run' = "crashed"
    /\ UNCHANGED <<cleared, periods, readerVars>>

(* The next period begins; and it is there, which overtakes the word of a   *)
(* restart that has not been looked at.                                     *)
Begin(n) ==
    /\ run = "up"
    /\ periods' = Append(periods, n)
    /\ UNCHANGED <<run, cleared, readerVars>>

Overtake(readers) ==
    /\ run = "up"
    /\ cleared' = [r \in Readers |-> cleared[r] /\ r \notin readers]
    /\ UNCHANGED <<run, periods, readerVars>>

-----------------------------------------------------------------------------
(* A reader learns the size of the area, or 0 when it comes too early.      *)
Attach(r, n) ==
    /\ size[r] = Unread
    /\ size' = [size EXCEPT ![r] = n]
    /\ UNCHANGED <<streamVars, rpc, seen, newest>>

Reads(r, p) ==
    /\ size[r] # Unread /\ rpc[r] = "poll"
    /\ seen' = [seen EXCEPT ![r] = [Nothing EXCEPT !.period = p]]
    /\ rpc' = [rpc EXCEPT ![r] = "stamp"]
    /\ UNCHANGED <<run, periods, size>>

(* A reader learns of a period that is newer than any it has had.           *)
Learn(r, p) ==
    /\ p > newest[r]
    /\ Reads(r, p)
    /\ newest' = [newest EXCEPT ![r] = p]
    /\ UNCHANGED cleared

(* It takes the cleared counter for news, whatever the samples are.         *)
LearnOfRestart(r) ==
    /\ cleared[r]
    /\ Reads(r, 0)
    /\ cleared' = [cleared EXCEPT ![r] = FALSE]
    /\ UNCHANGED newest

(* The timestamp is not older than what the reader has learned of, unless   *)
(* it was cleared.                                                          *)
Stamp(r, t) ==
    /\ rpc[r] = "stamp"
    /\ t = 0 \/ t >= newest[r]
    /\ seen' = [seen EXCEPT ![r].stamp = t]
    /\ rpc' = [rpc EXCEPT ![r] = IF size[r] = 0 THEN "poll" ELSE "data"]
    /\ UNCHANGED <<streamVars, size, newest>>

(* Nor are the samples, as far as that period reaches.                      *)
Word(r, v) ==
    /\ rpc[r] = "data"
    /\ newest[r] # 0 /\ Len(seen[r].data) < periods[newest[r]]
          => v >= newest[r]
    /\ seen' = [seen EXCEPT ![r].data = Append(@, v)]
    /\ rpc' = [rpc EXCEPT ![r] = IF Len(seen'[r].data) = size[r] THEN "poll"
                                                                 ELSE "data"]
    /\ UNCHANGED <<streamVars, size, newest>>

-----------------------------------------------------------------------------
Init ==
    /\ run = "ended"
    /\ cleared = [r \in Readers |-> FALSE]
    /\ periods = << >>
    /\ size = [r \in Readers |-> Unread]
    /\ rpc = [r \in Readers |-> "poll"]
    /\ seen = [r \in Readers |-> Nothing]
    /\ newest = [r \in Readers |-> 0]

Next ==
    \/ Start \/ End \/ Crash
    \/ \E readers \in SUBSET Readers : Clear(readers) \/ Overtake(readers)
    \/ \E n \in Area : Begin(n)
    \/ \E r \in Readers :
          \/ \E n \in {0, Words} : Attach(r, n)
          \/ LearnOfRestart(r)
          \/ \E p \in 0..Current : Learn(r, p) \/ Stamp(r, p) \/ Word(r, p)

Spec == Init /\ [][Next]_vars
=============================================================================
