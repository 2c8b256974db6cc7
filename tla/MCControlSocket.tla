--------------------------- MODULE MCControlSocket ---------------------------
(***************************************************************************)
(* ControlSocket for TLC: each command, one that is none, one in two        *)
(* segments, two in one connection, and a client that says nothing.         *)
(***************************************************************************)
EXTENDS ControlSocket, TLC

Written == [g \in Gains |-> ToString(g)]

CommandScripts ==
    {<< >>,
     <<<<"SET", "gain_db", "1">>>>,
     <<<<"SET", "gain">>, <<"-1">>>>,
     <<<<"SET", "gain", "loud">>>>,
     <<<<"SET", "dc_remove", "true">>>>,
     <<<<"SET", "colour", "1">>>>,
     <<<<"GET", "STATUS">>>>,
     <<<<"GET", "LEVEL">>, <<"SET", "gain", "1">>>>,
     <<<<"CLIP", "-5", "5">>>>,
     <<<<"HELLO">>>>}
=============================================================================
