------------------------------ MODULE MCDaemon ------------------------------
(***************************************************************************)
(* Daemon for TLC: command lines of up to two options, and files in which   *)
(* the same settings occur with and without a section, twice, misspelt, in  *)
(* the section of another, or with a word that is no number.                *)
(***************************************************************************)
EXTENDS Daemon

Option(o, v) == [opt |-> o, val |-> v]
Header(s)    == [section |-> s]
Line(k, v)   == [key |-> k, val |-> v]

Given ==
    {Option("c", 200), Option("s", 201), Option("b", 24), Option("b", NaN),
     Option("C", 2), Option("C", Word), Option("p", 8), Option("B", 9),
     Option("S", 1), Option("d", 1), Option("v", 1), Option("?", 1)}

LinesGiven == UNION {[1..n -> Given] : n \in 0..2}

FilesGiven ==
    {<< >>,
     <<Header("audio"), Line("bits", 32), Line("channels", 4),
       Line("downmix_mono", 1), Line("format", 106)>>,
     <<Line("enable_sample_sharing", 1), Header("audio"), Line("bits", 24),
       Line("bits_per_sample", 16), Line("period_size", 12)>>,
     <<Header("block_recorder"), Line("enabled", 0), Line("duration", 7),
       Header("daemon"), Line("socket_path", 107), Line("duration", 6)>>,
     <<Header("unknown"), Line("bits", 8), Header("audio"), Line("rate", 16000),
       Line("gain_db", NaN)>>}

AnyMiss == {-1, 0, 1}
=============================================================================
