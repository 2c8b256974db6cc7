------------------------------ MODULE PcmChain ------------------------------
(***************************************************************************)
(* What CapturePipeline (src/pipeline/capture_pipeline.cpp) does to the     *)
(* samples of a period before anybody sees them: on_audio_chunk() keeps the *)
(* left channel, boosts, removes the DC offset, feeds ring buffer, recorder *)
(* and publisher, and meters; set_parameter() changes the gain and the DC   *)
(* filter from the control thread while it does so, without a lock.         *)
(*                                                                         *)
(* Samples are integers in the range of a word that is scaled down: 16-bit  *)
(* samples, and the meter, go to MeterFull, the 24- and 32-bit formats to   *)
(* Scale times as much.  A gain is a multiple of 1 / GainUnit, and DC_ALPHA *)
(* is AlphaNum / AlphaDen; a product is cut to an integer where the code    *)
(* keeps the fraction of a float.                                           *)
(***************************************************************************)
EXTENDS Integers, Sequences, FiniteSetsExt

CONSTANTS MeterFull,   \* full scale of a 16-bit sample, 2^15
          Scale,       \* full scale of the wider formats in terms of it
          GainUnit,    \* 1.0 as a gain; the 16384 of the NEON code
          Gains,       \* the gains SET asks for
          AlphaNum, AlphaDen,  \* DC_ALPHA
          Lanes,       \* samples in a NEON register
          Setups,      \* formats, processors and layouts of a period
          Inputs       \* the samples ALSA delivers

ASSUME PcmAssumption ==
    /\ MeterFull \in Nat \ {0} /\ Scale \in Nat \ {0} /\ Lanes \in Nat \ {0}
    /\ GainUnit \in Nat \ {0} /\ Gains \subseteq Nat /\ GainUnit \in Gains
    /\ AlphaNum \in Nat /\ AlphaDen \in Nat
    /\ AlphaNum < AlphaDen /\ AlphaDen <= 2 * AlphaNum
    /\ Setups \subseteq [bits : {16, 24, 32}, neon : BOOLEAN,
                         channels : Nat \ {0}, downmix : BOOLEAN,
                         frames : Nat \ {0}]
    /\ Inputs \subseteq Int

VARIABLES
    setup,     \* bits_per_sample, __ARM_NEON, channels, downmix_mono_, and
               \* the frames of a period
    gain,      \* gain_linear_
    dcRemove,  \* dc_remove_
    prevX,     \* dc_prev_x_
    prevY,     \* dc_prev_y_
    control,   \* set_parameter(): what of the filter is left to clear
    pc,        \* on_audio_chunk()
    input,     \* history: the period as ALSA delivered it
    boost,     \* history: the gain loaded for this period
    filtered,  \* history: whether the filter ran over this period
    out,       \* out_data, what ring buffer, recorder and publisher get
    next,      \* apply_dc_remove(): the sample it is at
    y,         \* apply_dc_remove(): y
    peak       \* peak_level_

filterVars == <<prevX, prevY>>
chunkVars  == <<input, boost, filtered>>
vars == <<setup, gain, dcRemove, filterVars, control, pc, chunkVars,
          out, next, y, peak>>

-----------------------------------------------------------------------------
(* The range of a sample, and what the casts and narrowing moves do.        *)
Full     == IF setup.bits = 16 THEN MeterFull ELSE Scale * MeterFull
MeterTop == MeterFull - 1

Clamp(v) == IF v < -Full THEN -Full ELSE IF v > Full - 1 THEN Full - 1 ELSE v
Wrap(v)  == ((v + Full) % (2 * Full)) - Full
Cut(a, b) == IF a >= 0 THEN a \div b ELSE -((-a) \div b)
Abs(v)   == IF v < 0 THEN -v ELSE v

(* The samples the NEON loop takes; the scalar tail takes the rest.         *)
Vectored(n) == IF setup.neon /\ setup.bits # 24 THEN n - (n % Lanes) ELSE 0

-----------------------------------------------------------------------------
(* apply_downmix(): a stride of two samples, the first is kept.             *)
(* Mutant: the second is.                                                   *)
DownmixRight(s) ==
    IF setup.downmix /\ setup.channels >= 2
    THEN [f \in 1..setup.frames |-> s[2 * f]]
    ELSE s

Downmixed(s) ==
    IF setup.downmix /\ setup.channels >= 2
    THEN [f \in 1..setup.frames |-> s[2 * f - 1]]
    ELSE s

Channels == IF setup.downmix /\ setup.channels >= 2 THEN 1
            ELSE setup.channels

(* apply_gain(): a float product cut to an integer and clamped; with NEON   *)
(* the 32-bit samples are multiplied in fixed point, shifted, and narrowed  *)
(* by vmovn, which keeps the low bits.  At 0 dB the samples are not touched.*)
Boosted(s, g) ==
    IF g = GainUnit THEN s
    ELSE [k \in DOMAIN s |->
            IF setup.bits = 32 /\ k <= Vectored(Len(s))
            THEN Wrap((s[k] * g) \div GainUnit)
            ELSE Clamp(Cut(s[k] * g, GainUnit))]

(* A sample on the scale of the meter: 32-bit samples are shifted, 24-bit   *)
(* samples are not.  vabs of the least 16-bit sample is that sample again.  *)
Metered(v) == IF setup.bits = 32 THEN v \div Scale ELSE v
Level(s, k) ==
    IF setup.bits = 16 /\ k <= Vectored(Len(s)) /\ s[k] = -Full
    THEN -Full
    ELSE Abs(Metered(s[k]))

(* Mutants: the scalar tail after the NEON loop is forgotten; the peak is   *)
(* not cut to what an int16_t holds.                                        *)
PeakOfVectors(s) ==
    LET loudest == Max({0} \cup {Level(s, k) : k \in 1..Vectored(Len(s))})
    IN IF loudest > MeterTop THEN MeterTop ELSE loudest

PeakUncut(s) == Max({0} \cup {Level(s, k) : k \in DOMAIN s})

PeakOf(s) ==
    LET loudest == Max({0} \cup {Level(s, k) : k \in DOMAIN s})
    IN IF loudest > MeterTop THEN MeterTop ELSE loudest

-----------------------------------------------------------------------------
(* The capture thread: on_audio_chunk().                                    *)
Chunk(s) ==
    /\ pc = "idle"
    /\ input' = s
    /\ boost' = gain
    /\ out' = Boosted(Downmixed(s), gain)
    /\ pc' = "flag"
    /\ UNCHANGED <<filterVars, filtered, next, y, peak>>

LoadFlag ==
    /\ pc = "flag"
    /\ filtered' = dcRemove
    /\ input' = IF dcRemove THEN << >> ELSE input
    /\ boost' = IF dcRemove THEN GainUnit ELSE boost
    /\ next' = 1
    /\ pc' = IF dcRemove THEN "loadX" ELSE "feed"
    /\ UNCHANGED <<filterVars, out, y, peak>>

Channel == 1 + ((next - 1) % Channels)

(* One sample: the two halves of the state are read, then written back, x   *)
(* before y.                                                                *)
(* Mutants: the last input is added; it is left out.                        *)
DifferenceAdding(c)  == out[next] + prevX[c]
DifferenceIgnored(c) == out[next]
Difference(c)        == out[next] - prevX[c]
Decayed(c)           == Cut(AlphaNum * prevY[c], AlphaDen)

LoadX ==
    /\ pc = "loadX"
    /\ y' = Difference(Channel)
    /\ pc' = "loadY"
    /\ UNCHANGED <<filterVars, chunkVars, out, next, peak>>

LoadY ==
    /\ pc = "loadY"
    /\ y' = y + Decayed(Channel)
    /\ pc' = "storeX"
    /\ UNCHANGED <<filterVars, chunkVars, out, next, peak>>

StoreX ==
    /\ pc = "storeX"
    /\ prevX' = [prevX EXCEPT ![Channel] = out[next]]
    /\ pc' = "storeY"
    /\ UNCHANGED <<prevY, chunkVars, out, next, y, peak>>

StoreY ==
    /\ pc = "storeY"
    /\ prevY' = [prevY EXCEPT ![Channel] = y]
    /\ out' = [out EXCEPT ![next] = Clamp(y)]
    /\ y' = 0
    /\ next' = next + 1
    /\ pc' = IF next = Len(out) THEN "feed" ELSE "loadX"
    /\ UNCHANGED <<prevX, chunkVars, peak>>

(* The consumers are given the period, one after the other, and it is       *)
(* metered; what is known of it is forgotten.                               *)
FeedAndMeter ==
    /\ pc = "feed"
    /\ peak' = PeakOf(out)
    /\ pc' = "idle"
    /\ out' = << >> /\ next' = 0
    /\ input' = << >> /\ boost' = GainUnit /\ filtered' = FALSE
    /\ UNCHANGED <<filterVars, y>>

(* A period holds as many samples as its layout says.                       *)
Periods == [1..(setup.channels * setup.frames) ->
              Inputs \cap (-Full)..(Full - 1)]

OnAudioChunk ==
    /\ \/ \E s \in Periods : Chunk(s)
       \/ LoadFlag \/ LoadX \/ LoadY \/ StoreX \/ StoreY \/ FeedAndMeter
    /\ UNCHANGED <<setup, gain, dcRemove, control>>

-----------------------------------------------------------------------------
(* The control thread: set_parameter().  dc_prev_x_ and dc_prev_y_ are      *)
(* filled with zeros one float after the other.                             *)
SetGain(g) ==
    /\ control = << >>
    /\ gain' = g
    /\ UNCHANGED <<dcRemove, filterVars, control>>

SetDcRemove(on) ==
    /\ control = << >>
    /\ dcRemove' = on
    /\ control' = IF on THEN << >>
                  ELSE [k \in 1..(2 * Len(prevX)) |-> k]
    /\ UNCHANGED <<gain, filterVars>>

ClearOne ==
    /\ control # << >>
    /\ LET k == Head(control)
       IN IF k <= Len(prevX)
          THEN prevX' = [prevX EXCEPT ![k] = 0] /\ UNCHANGED prevY
          ELSE prevY' = [prevY EXCEPT ![k - Len(prevX)] = 0] /\ UNCHANGED prevX
    /\ control' = Tail(control)
    /\ UNCHANGED <<gain, dcRemove>>

SetParameter ==
    /\ \/ \E g \in Gains : SetGain(g)
       \/ \E on \in BOOLEAN : SetDcRemove(on)
       \/ ClearOne
    /\ UNCHANGED <<setup, pc, chunkVars, out, next, y, peak>>

-----------------------------------------------------------------------------
(* The filter has a state for each channel that is left.                    *)
Silent == [c \in 1..Channels |-> 0]

Init ==
    /\ setup \in Setups
    /\ gain \in Gains /\ dcRemove \in BOOLEAN
    /\ prevX = Silent /\ prevY = Silent
    /\ control = << >> /\ pc = "idle"
    /\ input = << >> /\ boost = GainUnit /\ filtered = FALSE
    /\ out = << >> /\ next = 0 /\ y = 0
    /\ peak = 0

Next == OnAudioChunk \/ SetParameter

Spec == Init /\ [][Next]_vars

(* The sound card delivers, and a command that is being handled is handled  *)
(* to its end.                                                              *)
FairSpec ==
    /\ Spec
    /\ WF_vars(OnAudioChunk)
    /\ WF_vars(ClearOne /\ UNCHANGED <<setup, pc, chunkVars, out,
                                       next, y, peak>>)

-----------------------------------------------------------------------------
(* Every variable holds a value of its kind; a sample fits its word.        *)
TypeOK ==
    /\ setup \in Setups
    /\ gain \in Gains /\ boost \in Gains
    /\ dcRemove \in BOOLEAN /\ filtered \in BOOLEAN
    /\ prevX \in Seq((-Full)..(Full - 1)) /\ Len(prevX) = Channels
    /\ prevY \in Seq(Int) /\ Len(prevY) = Channels
    /\ control \in Seq(1..(2 * Channels))
    /\ pc \in {"idle", "flag", "loadX", "loadY", "storeX", "storeY", "feed"}
    /\ input \in Seq(Inputs)
    /\ out \in Seq((-Full)..(Full - 1))
    /\ next \in 0..(Len(out) + 1)
    /\ y \in Int
    /\ peak \in 0..MeterTop

(* The state of the DC filter does not run away: |y| stays below            *)
(* 1 / (1 - DC_ALPHA) = 1000 times full scale, also when the control thread *)
(* clears one half of the state in the middle of a sample, again and again. *)
(* The int32 that y is cast to before it is clamped holds that in the       *)
(* 16-bit format, the int64 in the 32-bit format.  The 24-bit format has    *)
(* room for 256 times, which takes a SET in the middle of hundreds of       *)
(* samples to fill.  The 1 is for the products that are cut here.           *)
Fits(v)       == Abs(v) * (AlphaDen - AlphaNum) <= (Full + 1) * AlphaDen
FilterBounded == Fits(y) /\ \A c \in 1..Channels : Fits(prevY[c])

(* The wanted sample of frame f: the channel that is kept, boosted.         *)
Wanted(k) ==
    input[IF Channels = 1 THEN (k - 1) * setup.channels + 1 ELSE k] * boost

(* What the consumers get without the DC filter is the left channel, or     *)
(* every channel, times one gain, to within a step, and clipped where it    *)
(* does not fit: never the scratch buffer's last period, never two gains in *)
(* one period.                                                              *)
FedIsBoosted ==
    (pc = "feed" /\ ~filtered) =>
        \A k \in DOMAIN out :
            \/ Abs(out[k] * GainUnit - Wanted(k)) < GainUnit
            \/ out[k] = Full - 1 /\ Wanted(k) > (Full - 1) * GainUnit
            \/ out[k] = -Full /\ Wanted(k) < -Full * GainUnit

(* capture_pipeline.cpp:409, "shift right by 14, saturating narrow": a      *)
(* sample too loud for its word comes out as the loudest there is.          *)
GainSaturates ==
    (pc = "feed" /\ ~filtered) =>
        \A k \in DOMAIN out :
            /\ Wanted(k) > (Full - 1) * GainUnit => out[k] = Full - 1
            /\ Wanted(k) < -Full * GainUnit => out[k] = -Full

(* The meter shows the loudest of the samples that are fed, however they    *)
(* are divided between the NEON loop and its tail.  The least 16-bit sample *)
(* does not count there: vabs does not see it.                              *)
PeakIsLoudest ==
    [][\A k \in DOMAIN out :
           (pc = "feed" /\ pc' = "idle"
              /\ ~(setup.bits = 16 /\ setup.neon /\ out[k] = -Full))
           => (peak' >= Abs(Metered(out[k])) \/ peak' = MeterTop)]_vars

(* Removing the DC offset removes it: once the filter is on and its input   *)
(* stands still, what is fed becomes silence, whatever state the filter was *)
(* left in by a SET that raced with it.                                     *)
DcOffsetDecays ==
    <>[](dcRemove /\ control = << >>) /\ <>[][prevX' = prevX]_vars
        => <>[](pc = "feed" /\ filtered => \A k \in DOMAIN out : out[k] = 0)

(* SET dc_remove false forgets the filter's state: once it has returned and *)
(* the capture thread is between periods, there is none.                    *)
OffMeansCleared ==
    (~dcRemove /\ control = << >> /\ pc = "idle") =>
        prevX = Silent /\ prevY = Silent
=============================================================================
