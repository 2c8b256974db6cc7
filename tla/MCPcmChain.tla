----------------------------- MODULE MCPcmChain -----------------------------
(* The formats, processors and layouts PcmChain is checked with.            *)
EXTENDS PcmChain

(* Three mono samples are a vector and a tail; one stereo frame, kept or    *)
(* cut down to mono.                                                        *)
Mono(b, n)   == [bits |-> b, neon |-> n, channels |-> 1, downmix |-> FALSE,
                 frames |-> 3]
Stereo(b, n) == [bits |-> b, neon |-> n, channels |-> 2, downmix |-> FALSE,
                 frames |-> 1]
Left(b, n)   == [bits |-> b, neon |-> n, channels |-> 2, downmix |-> TRUE,
                 frames |-> 2]

(* Every way to narrow a sample that saturates, and the one that does not.  *)
SaturatingSetups == {Mono(16, TRUE), Mono(24, TRUE), Mono(32, FALSE),
                     Stereo(16, FALSE), Left(16, TRUE), Left(32, FALSE)}
NeonSetups       == {Mono(32, TRUE)}

MCInputs == {-2, 1}
=============================================================================
