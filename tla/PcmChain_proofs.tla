--------------------------- MODULE PcmChain_proofs ---------------------------
(***************************************************************************)
(* PcmChain, proved for every DC_ALPHA of a half or more, every gain, every *)
(* sample format and layout: the state of the DC filter stays bounded,      *)
(* whatever the control thread clears of it while a sample is filtered;     *)
(* what is fed is the kept channel times one gain, where samples saturate;  *)
(* the meter shows the loudest sample.                                      *)
(***************************************************************************)
EXTENDS PcmChain, SequenceTheorems, WellFoundedInduction, TLAPS

Loss == AlphaDen - AlphaNum

(* A number is its quotient's multiple and its remainder.                   *)
LEMMA DivMod ==
    ASSUME NEW C \in Nat \ {0}, NEW a \in Int
    PROVE  /\ a % C \in 0..(C - 1)
           /\ a \div C \in Int
           /\ a = C * (a \div C) + (a % C)
  OBVIOUS

(* Two products keep the order of their factors.                            *)
LEMMA ProductMonotone ==
    ASSUME NEW a \in Nat, NEW b \in Int, NEW c \in Int, b <= c
    PROVE  a * b <= a * c /\ a * b \in Int /\ a * c \in Int
<1>1. c - b \in Nat
  OBVIOUS
<1>2. a * (c - b) \in Nat
  BY <1>1
<1>3. a * (c - b) = a * c - a * b
  OBVIOUS
<1> QED BY <1>2, <1>3

(* A factor can be cancelled.                                               *)
LEMMA ProductCancel ==
    ASSUME NEW a \in Nat \ {0}, NEW b \in Int, NEW c \in Int, a * b <= a * c
    PROVE  b <= c
<1>1. SUFFICES ASSUME c + 1 <= b PROVE FALSE
  OBVIOUS
<1>2. a * (c + 1) <= a * b
  BY <1>1, ProductMonotone
<1>3. a * (c + 1) = a * c + a
  OBVIOUS
<1> QED BY <1>2, <1>3

(* Cutting a quotient leaves a remainder with the sign of the dividend.     *)
LEMMA CutRemainder ==
    ASSUME NEW a \in Int, NEW b \in Nat \ {0}
    PROVE  /\ Cut(a, b) \in Int
           /\ a >= 0 => 0 <= a - b * Cut(a, b) /\ a - b * Cut(a, b) <= b - 1
           /\ a <= 0 => 1 - b <= a - b * Cut(a, b) /\ a - b * Cut(a, b) <= 0
<1>1. CASE a >= 0
  <2>1. Cut(a, b) = a \div b
    BY <1>1 DEF Cut
  <2>2. a = b * (a \div b) + (a % b) /\ a % b \in 0..(b - 1) /\ a \div b \in Int
    BY DivMod
  <2>3. a = 0 => a - b * Cut(a, b) = 0
    <3>1. SUFFICES ASSUME a = 0 PROVE a \div b = 0
      BY <2>1
    <3> QED BY <3>1
  <2> QED BY <1>1, <2>1, <2>2, <2>3
<1>2. CASE a < 0
  <2> DEFINE q == (-a) \div b
             p == b * q
  <2>1. Cut(a, b) = -q
    BY <1>2 DEF Cut
  <2>2. /\ -a = p + ((-a) % b)
        /\ (-a) % b \in 0..(b - 1)
        /\ q \in Int
    BY DivMod
  <2>3. p \in Int /\ b * (-q) = -p
    <3> HIDE DEF q
    <3> QED BY <2>2
  <2>4. b * Cut(a, b) = -p
    <3> HIDE DEF q, p
    <3> QED BY <2>1, <2>3
  <2> HIDE DEF q, p
  <2>5. a - b * Cut(a, b) = -((-a) % b)
    BY <2>2, <2>3, <2>4
  <2> QED BY <1>2, <2>1, <2>2, <2>5
<1> QED BY <1>1, <1>2

(* A cut quotient is within what the dividend is within.                    *)
LEMMA CutBound ==
    ASSUME NEW a \in Int, NEW b \in Nat \ {0}
    PROVE  Cut(a, b) \in Int /\ b * Abs(Cut(a, b)) <= Abs(a)
<1> DEFINE q == Cut(a, b)
           p == b * q
<1>1. /\ q \in Int
      /\ a >= 0 => 0 <= a - p /\ a - p <= b - 1
      /\ a <= 0 => 1 - b <= a - p /\ a - p <= 0
  BY CutRemainder
<1>2. p \in Int /\ b * (-q) = -p /\ (q >= 0 => p >= 0) /\ (q < 0 => p <= -b)
  <2> HIDE DEF q
  <2>1. q \in Int
    BY <1>1
  <2>2. q < 0 => b * (-q) >= b
    <3>1. SUFFICES ASSUME q < 0 PROVE b * 1 <= b * (-q)
      BY <2>1
    <3> QED BY <2>1, <3>1, ProductMonotone
  <2>3. q >= 0 => b * q >= 0
    BY <2>1
  <2> QED BY <2>1, <2>2, <2>3
<1>3. b * Abs(q) = Abs(p)
  <2> HIDE DEF q, p
  <2>1. CASE q >= 0
    BY <1>1, <1>2, <2>1 DEF Abs, p
  <2>2. CASE q < 0
    BY <1>1, <1>2, <2>2 DEF Abs
  <2> QED BY <1>1, <2>1, <2>2
<1> HIDE DEF q, p
<1>4. Abs(p) <= Abs(a)
  BY <1>1, <1>2 DEF Abs
<1> QED BY <1>1, <1>3, <1>4 DEF q

-----------------------------------------------------------------------------
(* How far a number may be from zero, in units of 1 / (AlphaDen - AlphaNum).*)
Within(v, b) == -b <= Loss * v /\ Loss * v <= b

LossFact == /\ Loss \in Nat \ {0} /\ AlphaNum \in Nat /\ AlphaDen \in Nat \ {0}
            /\ AlphaDen = AlphaNum + Loss /\ Loss <= AlphaNum

LEMMA LossPositive == LossFact
BY PcmAssumption DEF Loss, LossFact

(* The bound on what is left of the state, and the bound on y.              *)
RestBound(F) == AlphaNum * F + AlphaDen
TopBound(F) == (F + 1) * AlphaDen

LEMMA BoundTypes ==
    ASSUME NEW F \in Nat
    PROVE  /\ RestBound(F) \in Nat /\ TopBound(F) \in Nat
           /\ TopBound(F) = RestBound(F) + Loss * F
           /\ Loss * F <= RestBound(F)
<1> USE LossPositive DEF LossFact
<1>1. Loss * F \in Nat /\ AlphaNum * F \in Nat
  OBVIOUS
<1>2. (F + 1) * AlphaDen = AlphaNum * F + Loss * F + AlphaDen
  BY <1>1
<1>3. Loss * F <= AlphaNum * F
  <2>1. F * Loss <= F * AlphaNum
    BY ProductMonotone
  <2> QED BY <2>1
<1> QED BY <1>1, <1>2, <1>3 DEF RestBound, TopBound

(* Fits, without the absolute value.                                        *)
LEMMA FitsWithin ==
    ASSUME NEW v \in Int, Full \in Nat
    PROVE  Fits(v) <=> Within(v, TopBound(Full))
<1>1. Abs(v) * Loss = IF v < 0 THEN -(Loss * v) ELSE Loss * v
  BY LossPositive DEF Abs, LossFact
<1>2. Loss * v \in Int /\ TopBound(Full) \in Nat
  BY LossPositive, BoundTypes DEF LossFact
<1>3. (v < 0 => Loss * v <= 0) /\ (v >= 0 => Loss * v >= 0)
  BY LossPositive DEF LossFact
<1>4. Fits(v) <=> Abs(v) * Loss <= TopBound(Full)
  BY DEF Fits, Loss, TopBound
<1> QED BY <1>1, <1>2, <1>3, <1>4 DEF Within

(* A sample times the loss.                                                 *)
LEMMA SampleWithin ==
    ASSUME NEW F \in Nat, NEW x \in (-F)..F
    PROVE  Within(x, Loss * F)
<1>1. Loss * (-F) <= Loss * x /\ Loss * x <= Loss * F
  BY LossPositive, ProductMonotone DEF LossFact
<1>2. Loss * (-F) = -(Loss * F)
  BY LossPositive DEF LossFact
<1> QED BY <1>1, <1>2 DEF Within

(* A sample and what is left of the state make a y that fits.               *)
LEMMA SumFits ==
    ASSUME NEW F \in Nat, NEW x \in (-F)..F, NEW u \in Int,
           Within(u, RestBound(F))
    PROVE  Within(x + u, TopBound(F))
<1>1. Loss * (x + u) = Loss * x + Loss * u /\ Loss * x \in Int /\ Loss * u \in Int
  BY LossPositive DEF LossFact
<1>2. Within(x, Loss * F)
  BY SampleWithin
<1>3. /\ RestBound(F) \in Nat /\ TopBound(F) = RestBound(F) + Loss * F
      /\ Loss * F \in Int
  BY BoundTypes, LossPositive DEF LossFact
<1> QED BY <1>1, <1>2, <1>3 DEF Within

(* One sample alone is less than what may be left of a state.               *)
LEMMA SampleFits ==
    ASSUME NEW F \in Nat, NEW x \in (-F)..F
    PROVE  Within(-x, RestBound(F))
<1> DEFINE v == -x
<1>1. v \in (-F)..F
  OBVIOUS
<1> HIDE DEF v
<1>2. Within(v, Loss * F)
  BY <1>1, SampleWithin
<1>3. /\ Loss * v \in Int /\ Loss * F \in Int
      /\ RestBound(F) \in Int /\ Loss * F <= RestBound(F)
  BY <1>1, BoundTypes, LossPositive DEF LossFact
<1> QED BY <1>2, <1>3 DEF Within, v

(* A quotient of a multiple of a number that fits is half the way back.     *)
LEMMA DecayFits ==
    ASSUME NEW F \in Nat, NEW v \in Int, Within(v, TopBound(F))
    PROVE  /\ Cut(AlphaNum * v, AlphaDen) \in Int
           /\ Within(Cut(AlphaNum * v, AlphaDen), RestBound(F))
<1> DEFINE q == Cut(AlphaNum * v, AlphaDen)
           T == TopBound(F)
<1> USE LossPositive DEF LossFact
<1>1. AlphaNum * v \in Int /\ T \in Nat /\ AlphaNum * F \in Nat
  BY BoundTypes
<1>2. q \in Int /\ AlphaDen * Abs(q) <= Abs(AlphaNum * v)
  BY <1>1, CutBound
<1>3. Abs(AlphaNum * v) = AlphaNum * Abs(v)
  BY DEF Abs
<1>4. Abs(v) \in Nat /\ Loss * Abs(v) <= T
  <2>1. Loss * (-v) = -(Loss * v)
    OBVIOUS
  <2> QED BY <2>1, <1>1 DEF Abs, Within
<1> HIDE DEF q
<1>5. Abs(q) \in Nat /\ Loss * Abs(q) \in Nat
  BY <1>2 DEF Abs
<1>6. AlphaDen * (Loss * Abs(q)) <= AlphaDen * (AlphaNum * (F + 1))
  <2>1. Loss * (AlphaDen * Abs(q)) <= Loss * (AlphaNum * Abs(v))
    BY <1>2, <1>3, <1>4, <1>5, ProductMonotone
  <2>2. AlphaNum * (Loss * Abs(v)) <= AlphaNum * T
    BY <1>1, <1>4, ProductMonotone
  <2>3. Loss * (AlphaDen * Abs(q)) = AlphaDen * (Loss * Abs(q))
    BY <1>5
  <2>4. Loss * (AlphaNum * Abs(v)) = AlphaNum * (Loss * Abs(v))
    BY <1>4
  <2>5. AlphaNum * T = AlphaDen * (AlphaNum * (F + 1))
    BY DEF TopBound
  <2> QED BY <2>1, <2>2, <2>3, <2>4, <2>5, <1>1, <1>4, <1>5
<1>7. Loss * Abs(q) <= AlphaNum * (F + 1)
  BY <1>5, <1>6, ProductCancel
<1>8. AlphaNum * (F + 1) <= RestBound(F)
  BY DEF RestBound
<1>9. Within(q, RestBound(F))
  <2>1. Loss * (-q) = -(Loss * q) /\ RestBound(F) \in Nat
    BY <1>2, BoundTypes
  <2> QED BY <2>1, <1>2, <1>5, <1>7, <1>8 DEF Abs, Within
<1> QED BY <1>2, <1>9 DEF q

(* After a sample, what is left of the state is as small as before it.      *)
LEMMA RestStays ==
    ASSUME NEW F \in Nat, NEW x \in (-F)..F, NEW u \in Int,
           Within(u, RestBound(F))
    PROVE  Within(Cut(AlphaNum * (x + u), AlphaDen) - x, RestBound(F))
<1> DEFINE q == Cut(AlphaNum * (x + u), AlphaDen)
           r == AlphaNum * (x + u) - AlphaDen * q
           B == RestBound(F)
<1> USE LossPositive DEF LossFact
<1>1. q \in Int /\ r \in Int /\ -(AlphaDen - 1) <= r /\ r <= AlphaDen - 1
  <2> DEFINE a == AlphaNum * (x + u)
             p == AlphaDen * q
  <2>1. a \in Int
    OBVIOUS
  <2> HIDE DEF a
  <2>2. /\ q \in Int
        /\ a >= 0 => 0 <= a - p /\ a - p <= AlphaDen - 1
        /\ a <= 0 => 1 - AlphaDen <= a - p /\ a - p <= 0
    BY <2>1, CutRemainder DEF a
  <2> HIDE DEF q
  <2>3. p \in Int
    BY <2>2
  <2> HIDE DEF p
  <2>4. a - p \in Int /\ -(AlphaDen - 1) <= a - p /\ a - p <= AlphaDen - 1
    BY <2>1, <2>2, <2>3
  <2> QED BY <2>2, <2>4 DEF a, p
<1>2. B \in Nat /\ Loss * F \in Nat
  BY BoundTypes
<1>3. AlphaDen * (q - x) = AlphaNum * u - Loss * x - r
  <2> HIDE DEF q
  <2>1. AlphaDen * (q - x) = AlphaDen * q - AlphaNum * x - Loss * x
    BY <1>1
  <2>2. AlphaNum * (x + u) = AlphaNum * x + AlphaNum * u
    OBVIOUS
  <2> QED BY <2>1, <2>2, <1>1
<1> HIDE DEF q, r, B
<1>4. AlphaDen * (Loss * (q - x)) = AlphaNum * (Loss * u) - Loss * (Loss * x) - Loss * r
  <2>1. AlphaDen * (Loss * (q - x)) = Loss * (AlphaDen * (q - x))
    BY <1>1
  <2>2. Loss * (AlphaNum * u - Loss * x - r)
          = AlphaNum * (Loss * u) - Loss * (Loss * x) - Loss * r
    BY <1>1
  <2> QED BY <2>1, <2>2, <1>3
<1>5. -(AlphaNum * B) <= AlphaNum * (Loss * u) /\ AlphaNum * (Loss * u) <= AlphaNum * B
  <2>1. -B <= Loss * u /\ Loss * u <= B /\ Loss * u \in Int
    BY DEF Within, B
  <2>2. AlphaNum * (-B) = -(AlphaNum * B)
    BY <1>2
  <2> QED BY <2>1, <2>2, <1>2, ProductMonotone
<1>6. -(Loss * (Loss * F)) <= Loss * (Loss * x) /\ Loss * (Loss * x) <= Loss * (Loss * F)
  <2>1. -(Loss * F) <= Loss * x /\ Loss * x <= Loss * F /\ Loss * x \in Int
    BY SampleWithin DEF Within
  <2>2. Loss * (-(Loss * F)) = -(Loss * (Loss * F))
    BY <1>2
  <2> QED BY <2>1, <2>2, <1>2, ProductMonotone
<1>7. -(Loss * AlphaDen) <= Loss * r /\ Loss * r <= Loss * AlphaDen
  <2>1. Loss * (-AlphaDen) = -(Loss * AlphaDen)
    OBVIOUS
  <2> QED BY <2>1, <1>1, ProductMonotone
<1>8. AlphaNum * B + Loss * (Loss * F) + Loss * AlphaDen <= AlphaDen * B
  <2>1. AlphaDen * B = AlphaNum * B + Loss * B
    BY <1>2
  <2>2. Loss * B = Loss * (AlphaNum * F) + Loss * AlphaDen
    BY DEF B, RestBound
  <2>3. Loss * (Loss * F) <= Loss * (AlphaNum * F)
    <3>1. F * Loss <= F * AlphaNum
      BY ProductMonotone
    <3>2. Loss * F <= AlphaNum * F /\ AlphaNum * F \in Int
      BY <3>1
    <3> QED BY <3>2, <1>2, ProductMonotone
  <2>4. AlphaNum * B \in Int /\ Loss * (AlphaNum * F) \in Int
        /\ Loss * (Loss * F) \in Int /\ Loss * AlphaDen \in Int
    BY <1>2
  <2> QED BY <2>1, <2>2, <2>3, <2>4
<1>9. /\ AlphaNum * (Loss * u) \in Int /\ Loss * (Loss * x) \in Int
      /\ Loss * r \in Int /\ AlphaNum * B \in Int /\ Loss * AlphaDen \in Int
      /\ Loss * (Loss * F) \in Int /\ AlphaDen * B \in Int
      /\ Loss * (q - x) \in Int
  BY <1>1, <1>2
<1>10. /\ AlphaDen * (Loss * (q - x)) <= AlphaDen * B
       /\ AlphaDen * (-B) <= AlphaDen * (Loss * (q - x))
  <2>1. AlphaDen * (-B) = -(AlphaDen * B)
    BY <1>2
  <2> QED BY <2>1, <1>4, <1>5, <1>6, <1>7, <1>8, <1>9
<1>11. Loss * (q - x) <= B /\ -B <= Loss * (q - x)
  BY <1>2, <1>9, <1>10, ProductCancel
<1> QED BY <1>11 DEF Within, q, B

-----------------------------------------------------------------------------
(* What is left of the state of a channel when a sample has been taken out. *)
Samples  == (-Full)..Full
Rest(c)  == Decayed(c) - prevX[c]
InSample == pc \in {"loadX", "loadY", "storeX", "storeY"}

FilterTypes ==
    /\ setup \in Setups /\ gain \in Gains
    /\ prevX \in Seq(Samples) /\ Len(prevX) = Channels
    /\ prevY \in Seq(Int) /\ Len(prevY) = Channels
    /\ control \in Seq(1..(2 * Channels))
    /\ pc \in {"idle", "flag", "loadX", "loadY", "storeX", "storeY", "feed"}
    /\ out \in Seq(Samples)
    /\ y \in Int
    /\ pc = "flag" => 1 \in 1..Len(out)
    /\ InSample => next \in 1..Len(out)

(* The halves of the state of a channel belong together, or the older one   *)
(* is about to be replaced: then its x is this sample or has been cleared.  *)
FilterState ==
    /\ Within(y, TopBound(Full))
    /\ \A c \in 1..Channels : Within(prevY[c], TopBound(Full))
    /\ \A c \in 1..Channels : (pc = "storeY" /\ c = Channel)
                               \/ Within(Rest(c), RestBound(Full))
    /\ pc = "loadY" => /\ out[next] - y \in Samples
                       /\ Within(y + Decayed(Channel) - out[next],
                                 RestBound(Full))
    /\ pc \in {"storeX", "storeY"} => Within(y - out[next], RestBound(Full))
    /\ pc = "storeY" => prevX[Channel] \in {out[next], 0}

IInv == FilterTypes /\ FilterState

(* Full scale and the number of channels.                                   *)
LEMMA SetupFacts ==
    ASSUME setup \in Setups
    PROVE  /\ Full \in Nat \ {0} /\ Channels \in Nat \ {0}
           /\ setup.frames \in Nat \ {0} /\ setup.channels \in Nat \ {0}
           /\ 0 \in Samples
<1> USE PcmAssumption
<1>1. /\ setup.frames \in Nat \ {0} /\ setup.channels \in Nat \ {0}
      /\ setup \in [bits : {16, 24, 32}, neon : BOOLEAN,
                    channels : Nat \ {0}, downmix : BOOLEAN,
                    frames : Nat \ {0}]
  OBVIOUS
<1>2. Scale * MeterFull \in Nat \ {0}
  OBVIOUS
<1> QED BY <1>1, <1>2 DEF Full, Channels, Samples

(* Zero is within every bound.                                              *)
LEMMA ZeroWithin ==
    ASSUME NEW b \in Nat
    PROVE  Within(0, b)
BY LossPositive DEF Within, LossFact

(* What a word of the format holds.                                         *)
Words == (-Full)..(Full - 1)

LEMMA WordsAreSamples ==
    ASSUME setup \in Setups
    PROVE  Words \subseteq Samples /\ Words \subseteq Int /\ 0 \in Words
           /\ \A s \in Seq(Words) : s \in Seq(Samples)
<1>1. Words \subseteq Samples /\ Words \subseteq Int /\ 0 \in Words
  BY SetupFacts DEF Words, Samples
<1>2. ASSUME NEW s \in Seq(Words) PROVE s \in Seq(Samples)
  BY <1>1, SeqMonotonic
<1> QED BY <1>1, <1>2

(* The clamp and the narrowing move give words.                             *)
LEMMA NarrowTypes ==
    ASSUME setup \in Setups, NEW v \in Int
    PROVE  Clamp(v) \in Words /\ Wrap(v) \in Words
<1>1. Full \in Nat \ {0}
  BY SetupFacts
<1>2. Clamp(v) \in Words
  BY <1>1 DEF Clamp, Words
<1>3. (v + Full) % (2 * Full) \in 0..(2 * Full - 1)
  <2> DEFINE n == 2 * Full
             a == v + Full
  <2>1. n \in Nat \ {0} /\ a \in Int
    BY <1>1
  <2> HIDE DEF n, a
  <2>2. a % n \in 0..(n - 1)
    BY <2>1, DivMod
  <2> QED BY <2>2 DEF n, a
<1>4. Wrap(v) \in Words
  BY <1>1, <1>3 DEF Wrap, Words
<1> QED BY <1>2, <1>4

(* A period of what ALSA delivers, and what is kept of it.                  *)
LeftOnly == setup.downmix /\ setup.channels >= 2
Size     == IF LeftOnly THEN setup.frames ELSE setup.channels * setup.frames

LEMMA DownmixedTypes ==
    ASSUME setup \in Setups, NEW s \in Periods
    PROVE  /\ Size \in Nat \ {0} /\ s \in Seq(Inputs)
           /\ Downmixed(s) \in [1..Size -> Words]
           /\ \A k \in 1..Size :
                Downmixed(s)[k] = s[IF LeftOnly THEN 2 * k - 1 ELSE k]
<1>1. /\ setup.frames \in Nat \ {0} /\ setup.channels \in Nat \ {0}
      /\ Full \in Nat \ {0}
  BY SetupFacts
<1>2. setup.channels * setup.frames \in Nat \ {0}
  BY <1>1
<1>3. /\ s \in [1..(setup.channels * setup.frames) -> Words]
      /\ s \in [1..(setup.channels * setup.frames) -> Inputs]
  BY <1>1 DEF Periods, Words
<1>4. s \in Seq(Inputs)
  BY <1>2, <1>3
<1>5. CASE LeftOnly
  <2>1. setup.frames * 2 <= setup.frames * setup.channels
    BY <1>1, <1>5, ProductMonotone DEF LeftOnly
  <2>2. \A f \in 1..setup.frames : 2 * f - 1 \in 1..(setup.channels * setup.frames)
    BY <1>1, <1>2, <2>1
  <2> QED BY <1>1, <1>3, <1>4, <1>5, <2>2 DEF Downmixed, LeftOnly, Size
<1>6. CASE ~LeftOnly
  BY <1>2, <1>3, <1>4, <1>6 DEF Downmixed, LeftOnly, Size
<1> QED BY <1>5, <1>6

(* What ALSA delivers is boosted to a period of words that is not empty.    *)
LEMMA BoostedTypes ==
    ASSUME setup \in Setups, gain \in Gains, NEW s \in Periods
    PROVE  /\ Boosted(Downmixed(s), gain) \in Seq(Words)
           /\ Len(Boosted(Downmixed(s), gain)) = Size
           /\ Size \in Nat \ {0}
<1> DEFINE d == Downmixed(s)
<1>1. Size \in Nat \ {0} /\ d \in [1..Size -> Words]
  BY DownmixedTypes
<1> HIDE DEF d
<1>2. gain \in Nat /\ GainUnit \in Nat \ {0} /\ Words \subseteq Int
  BY WordsAreSamples, PcmAssumption
<1>3. \A k \in 1..Size : /\ Wrap((d[k] * gain) \div GainUnit) \in Words
                         /\ Clamp(Cut(d[k] * gain, GainUnit)) \in Words
  <2> TAKE k \in 1..Size
  <2>0. d[k] \in Int
    BY <1>1, <1>2
  <2>1. d[k] * gain \in Int
    BY <2>0, <1>2
  <2>2. (d[k] * gain) \div GainUnit \in Int
    BY <2>1, <1>2, DivMod
  <2>3. Cut(d[k] * gain, GainUnit) \in Int
    BY <2>1, <1>2, CutRemainder
  <2> QED BY <2>2, <2>3, NarrowTypes
<1>4. Boosted(d, gain) \in [1..Size -> Words]
  BY <1>1, <1>3 DEF Boosted
<1>5. Boosted(d, gain) \in Seq(Words) /\ Len(Boosted(d, gain)) = Size
  BY <1>1, <1>4
<1> QED BY <1>1, <1>5 DEF d

(* The channel of a sample.                                                 *)
LEMMA ChannelType ==
    ASSUME setup \in Setups, next \in Int
    PROVE  Channel \in 1..Channels
<1>1. Channels \in Nat \ {0} /\ next - 1 \in Int
  BY SetupFacts
<1>2. (next - 1) % Channels \in 0..(Channels - 1)
  BY <1>1, DivMod
<1> QED BY <1>1, <1>2 DEF Channel

-----------------------------------------------------------------------------
(* The filter starts silent.                                                *)
LEMMA InitIInv == Init => IInv
<1> SUFFICES ASSUME Init PROVE IInv
  OBVIOUS
<1>1. Full \in Nat \ {0} /\ Channels \in Nat \ {0} /\ 0 \in Samples
  BY SetupFacts DEF Init
<1>2. Silent \in [1..Channels -> Samples] /\ Silent \in [1..Channels -> Int]
  BY <1>1 DEF Silent
<1>3. Silent \in Seq(Samples) /\ Silent \in Seq(Int) /\ Len(Silent) = Channels
  BY <1>1, <1>2
<1>4. FilterTypes
  BY <1>3, EmptySeq DEF Init, FilterTypes, InSample
<1>5. RestBound(Full) \in Nat /\ TopBound(Full) \in Nat
  BY <1>1, BoundTypes
<1>6. Cut(AlphaNum * 0, AlphaDen) = 0
  BY LossPositive DEF LossFact, Cut
<1>7. \A c \in 1..Channels : prevY[c] = 0 /\ Rest(c) = 0
  BY <1>1, <1>6 DEF Init, Silent, Rest, Decayed
<1>8. FilterState
  BY <1>5, <1>7, ZeroWithin DEF Init, FilterState
<1> QED BY <1>4, <1>8 DEF IInv

(* A step that leaves setup and filter alone and enters or leaves no sample *)
(* changes nothing the bounds depend on.                                    *)
LEMMA SteadyFilter ==
    ASSUME IInv, UNCHANGED <<setup, filterVars, y>>,
           pc \notin {"loadY", "storeX", "storeY"},
           pc' \notin {"loadY", "storeX", "storeY"}
    PROVE  FilterState'
BY DEF IInv, FilterState, filterVars, Within, TopBound, RestBound, Full, Rest,
       Channels, Loss, Cut, Decayed

(* A new period is boosted.                                                 *)
LEMMA ChunkIInv ==
    ASSUME IInv, NEW s \in Periods, Chunk(s),
           UNCHANGED <<setup, gain, dcRemove, control>>
    PROVE  IInv'
<1>1. Samples' = Samples /\ Channels' = Channels
  BY DEF Samples, Full, Channels
<1>2. out' \in Seq(Samples) /\ Len(out') \in Nat \ {0}
  BY BoostedTypes, WordsAreSamples DEF IInv, FilterTypes, Chunk
<1>3. FilterTypes'
  BY <1>1, <1>2 DEF IInv, FilterTypes, Chunk, filterVars, InSample
<1>4. FilterState'
  BY SteadyFilter DEF Chunk
<1> QED BY <1>3, <1>4 DEF IInv

(* The filter is entered or passed by.                                      *)
LEMMA LoadFlagIInv ==
    ASSUME IInv, LoadFlag, UNCHANGED <<setup, gain, dcRemove, control>>
    PROVE  IInv'
<1>1. Samples' = Samples /\ Channels' = Channels
  BY DEF Samples, Full, Channels
<1>2. FilterTypes'
  BY <1>1 DEF IInv, FilterTypes, LoadFlag, filterVars, InSample
<1>3. FilterState'
  BY SteadyFilter DEF LoadFlag
<1> QED BY <1>2, <1>3 DEF IInv

(* The consumers and the meter leave the filter alone.                      *)
LEMMA FeedIInv ==
    ASSUME IInv, FeedAndMeter, UNCHANGED <<setup, gain, dcRemove, control>>
    PROVE  IInv'
<1>1. Samples' = Samples /\ Channels' = Channels
  BY DEF Samples, Full, Channels
<1>2. FilterTypes'
  BY <1>1, EmptySeq DEF IInv, FilterTypes, FeedAndMeter, filterVars, InSample
<1>3. FilterState'
  BY SteadyFilter DEF FeedAndMeter
<1> QED BY <1>2, <1>3 DEF IInv

(* Full scale, the channels, the bounds and what is left of a state do not  *)
(* depend on what else a step changes.                                      *)
LEMMA SameSetup ==
    ASSUME setup' = setup
    PROVE  /\ Samples' = Samples /\ Channels' = Channels /\ Full' = Full
           /\ TopBound(Full)' = TopBound(Full)
           /\ RestBound(Full)' = RestBound(Full)
           /\ \A c : prevX'[c] = prevX[c] /\ prevY'[c] = prevY[c]
                       => Rest(c)' = Rest(c)
BY DEF Samples, Channels, Full, TopBound, RestBound, Rest, Cut, Decayed

(* An element of a sequence.                                                *)
LEMMA ElementType ==
    ASSUME NEW S, NEW s \in Seq(S), NEW i \in 1..Len(s)
    PROVE  s[i] \in S
OBVIOUS

(* The sample the filter is at.                                             *)
LEMMA SampleTypes ==
    ASSUME FilterTypes, InSample
    PROVE  /\ Full \in Nat \ {0} /\ next \in 1..Len(out) /\ y \in Int
           /\ out[next] \in Samples /\ out[next] \in (-Full)..Full
           /\ out[next] \in Int
<1>1. setup \in Setups /\ out \in Seq(Samples) /\ next \in 1..Len(out) /\ y \in Int
  BY DEF FilterTypes
<1>2. Full \in Nat \ {0}
  BY <1>1, SetupFacts
<1>3. out[next] \in Samples
  BY <1>1, ElementType
<1> QED BY <1>1, <1>2, <1>3 DEF Samples

(* The two products of the state are integers.                              *)
LEMMA DecayedTypes ==
    ASSUME FilterTypes, NEW c \in 1..Channels
    PROVE  /\ prevX[c] \in Samples /\ prevX[c] \in Int
           /\ prevY[c] \in Int /\ Decayed(c) \in Int
<1>1. prevX[c] \in Samples /\ prevX[c] \in Int /\ prevY[c] \in Int
  BY SetupFacts DEF FilterTypes, Samples
<1>2. AlphaNum * prevY[c] \in Int
  BY <1>1, LossPositive DEF LossFact
<1> QED BY <1>1, <1>2, LossPositive, CutRemainder DEF LossFact, Decayed

(* The difference fits by itself, and what is left of the state is still    *)
(* that of one sample.                                                      *)
LEMMA LoadXIInv ==
    ASSUME IInv, LoadX, UNCHANGED <<setup, gain, dcRemove, control>>
    PROVE  IInv'
<1> USE DEF IInv, LoadX, filterVars
<1>1. /\ Channel \in 1..Channels /\ next \in 1..Len(out) /\ pc = "loadX"
      /\ Full \in Nat /\ Channel' = Channel
  BY ChannelType, SetupFacts, SameSetup DEF FilterTypes, InSample, Channel
<1>2. out[next] \in (-Full)..Full /\ out[next] \in Int
  BY <1>1, SampleTypes DEF InSample
<1>3. prevX[Channel] \in (-Full)..Full /\ Decayed(Channel) \in Int
  BY <1>1, DecayedTypes DEF Samples
<1>4. y' \in Int /\ y' = out[next] + (-prevX[Channel])
      /\ out[next] - y' = prevX[Channel]
      /\ y' + Decayed(Channel) - out[next] = Rest(Channel)
  BY <1>2, <1>3 DEF Difference, Rest
<1>5. Within(-prevX[Channel], RestBound(Full))
  BY <1>1, <1>3, SampleFits
<1>6. Within(y', TopBound(Full))
  <2> DEFINE u == -prevX[Channel]
  <2>1. u \in Int /\ Within(u, RestBound(Full)) /\ y' = out[next] + u
    BY <1>1, <1>3, <1>4, <1>5
  <2> HIDE DEF u, LoadX, IInv
  <2> QED BY <1>1, <1>2, <2>1, SumFits
<1>7. FilterTypes'
  BY <1>4, SameSetup DEF FilterTypes, InSample
<1>8. FilterState'
  <2>1. Within(y, TopBound(Full))'
    BY <1>6, SameSetup DEF Within, Loss
  <2>2. \A c \in 1..Channels : /\ Within(prevY[c], TopBound(Full))'
                               /\ Within(Rest(c), RestBound(Full))'
    BY <1>1, SameSetup DEF FilterState, Within, Loss
  <2>3. /\ (out[next] - y \in Samples)'
        /\ Within(y + Decayed(Channel) - out[next], RestBound(Full))'
    <3>1. Within(Rest(Channel), RestBound(Full))
      BY <1>1 DEF FilterState
    <3>2. Decayed(Channel)' = Decayed(Channel)
      BY <1>1 DEF Decayed, Cut
    <3> QED BY <1>3, <1>4, <3>1, <3>2, SameSetup DEF Within, Loss, Samples
  <2> QED BY <2>1, <2>2, <2>3, SameSetup DEF FilterState
<1> QED BY <1>7, <1>8

(* The new y fits, for the state it is made of leaves room for the sample.  *)
LEMMA LoadYIInv ==
    ASSUME IInv, LoadY, UNCHANGED <<setup, gain, dcRemove, control>>
    PROVE  IInv'
<1> USE DEF IInv, LoadY, filterVars
<1> DEFINE u == y + Decayed(Channel) - out[next]
<1>1. /\ Channel \in 1..Channels /\ next \in 1..Len(out) /\ pc = "loadY"
      /\ Full \in Nat /\ y \in Int
  BY ChannelType, SetupFacts DEF FilterTypes, InSample
<1>2. out[next] \in (-Full)..Full /\ out[next] \in Int
  BY <1>1, SampleTypes DEF InSample
<1>3. Decayed(Channel) \in Int
  BY <1>1, DecayedTypes
<1>4. u \in Int /\ Within(u, RestBound(Full))
  BY <1>1, <1>2, <1>3 DEF FilterState
<1>5. y' = out[next] + u /\ y' \in Int /\ y' - out[next] = u
  BY <1>1, <1>2, <1>3
<1> HIDE DEF u
<1>6. Within(y', TopBound(Full))
  BY <1>1, <1>2, <1>4, <1>5, SumFits
<1>7. FilterTypes'
  BY <1>5, SameSetup DEF FilterTypes, InSample
<1>8. FilterState'
  <2>1. Within(y, TopBound(Full))'
    BY <1>6, SameSetup DEF Within, Loss
  <2>2. \A c \in 1..Channels : /\ Within(prevY[c], TopBound(Full))'
                               /\ Within(Rest(c), RestBound(Full))'
    BY <1>1, SameSetup DEF FilterState, Within, Loss
  <2>3. Within(y - out[next], RestBound(Full))'
    BY <1>4, <1>5, SameSetup DEF Within, Loss
  <2> QED BY <2>1, <2>2, <2>3, SameSetup DEF FilterState
<1> QED BY <1>7, <1>8

(* The x of the channel is this sample from now on.                         *)
LEMMA StoreXIInv ==
    ASSUME IInv, StoreX, UNCHANGED <<setup, gain, dcRemove, control>>
    PROVE  IInv'
<1> USE DEF IInv, StoreX
<1>1. /\ Channel \in 1..Channels /\ next \in 1..Len(out) /\ pc = "storeX"
      /\ Channel' = Channel
  BY ChannelType, SameSetup DEF FilterTypes, InSample, Channel
<1>2. out[next] \in Samples
  BY <1>1, SampleTypes DEF InSample, Samples
<1>3. /\ prevX' \in Seq(Samples) /\ Len(prevX') = Len(prevX)
      /\ \A c \in 1..Channels :
           prevX'[c] = IF c = Channel THEN out[next] ELSE prevX[c]
  BY <1>1, <1>2, ExceptSeq DEF FilterTypes
<1>4. FilterTypes'
  BY <1>3, SameSetup DEF FilterTypes, InSample
<1>5. FilterState'
  <2>1. Within(y, TopBound(Full))'
    BY SameSetup DEF FilterState, Within, Loss
  <2>2. \A c \in 1..Channels : Within(prevY[c], TopBound(Full))'
    BY SameSetup DEF FilterState, Within, Loss
  <2>3. \A c \in 1..Channels : c = Channel \/ Within(Rest(c), RestBound(Full))'
    BY <1>1, <1>3, SameSetup DEF FilterState, Within, Loss
  <2>4. Within(y - out[next], RestBound(Full))'
    BY <1>1, SameSetup DEF FilterState, Within, Loss
  <2> QED BY <1>1, <1>3, <2>1, <2>2, <2>3, <2>4, SameSetup DEF FilterState
<1> QED BY <1>4, <1>5

(* The y follows; with its own x or with a cleared one, what is left of the *)
(* state is small again.                                                    *)
LEMMA StoreYIInv ==
    ASSUME IInv, StoreY, UNCHANGED <<setup, gain, dcRemove, control>>
    PROVE  IInv'
<1> USE DEF IInv, StoreY
<1>1. /\ Channel \in 1..Channels /\ next \in 1..Len(out) /\ pc = "storeY"
      /\ Full \in Nat \ {0} /\ y \in Int
  BY ChannelType, SetupFacts DEF FilterTypes, InSample
<1>2. out[next] \in (-Full)..Full
  BY <1>1, SampleTypes DEF InSample
<1>3. /\ prevY' \in Seq(Int) /\ Len(prevY') = Len(prevY)
      /\ \A c \in 1..Channels : prevY'[c] = IF c = Channel THEN y ELSE prevY[c]
  BY <1>1, ExceptSeq DEF FilterTypes
<1>4. /\ out' \in Seq(Samples) /\ Len(out') = Len(out)
  <2>1. Clamp(y) \in Samples
    BY <1>1, NarrowTypes, WordsAreSamples DEF FilterTypes
  <2> QED BY <1>1, <2>1, ExceptSeq DEF FilterTypes
<1>5. FilterTypes'
  <2>1. InSample' => next' \in 1..Len(out')
    <3>1. Len(out) \in Nat
      BY LenProperties DEF FilterTypes
    <3>2. next' = next + 1
      OBVIOUS
    <3>3. next = Len(out) => ~InSample'
      BY DEF InSample
    <3>4. Len(out') = Len(out)
      BY <1>4
    <3> HIDE DEF StoreY, IInv
    <3> QED BY <1>1, <3>1, <3>2, <3>3, <3>4
  <2>2. pc' \in {"loadX", "feed"} /\ y' = 0
    OBVIOUS
  <2> QED BY <1>3, <1>4, <2>1, <2>2, SameSetup DEF FilterTypes
<1>6. Within(Cut(AlphaNum * y, AlphaDen) - prevX[Channel], RestBound(Full))
  <2> DEFINE u == y - out[next]
  <2>1. u \in Int /\ Within(u, RestBound(Full)) /\ y = out[next] + u
    BY <1>1, <1>2 DEF FilterState
  <2>2. CASE prevX[Channel] = out[next]
    <3> HIDE DEF u
    <3>1. Within(Cut(AlphaNum * (out[next] + u), AlphaDen) - out[next], RestBound(Full))
      BY <1>1, <1>2, <2>1, RestStays
    <3> QED BY <2>1, <2>2, <3>1
  <2>3. CASE prevX[Channel] = 0
    <3>1. Cut(AlphaNum * y, AlphaDen) \in Int
          /\ Within(Cut(AlphaNum * y, AlphaDen), RestBound(Full))
      BY <1>1, DecayFits DEF FilterState
    <3> QED BY <2>3, <3>1
  <2> QED BY <1>1, <2>2, <2>3 DEF FilterState
<1>7. FilterState'
  <2>1. Within(y, TopBound(Full))'
    BY <1>1, BoundTypes, ZeroWithin, SameSetup DEF Within, Loss
  <2>2. \A c \in 1..Channels : Within(prevY[c], TopBound(Full))'
    BY <1>3, SameSetup DEF FilterState, Within, Loss
  <2>3. \A c \in 1..Channels : Within(Rest(c), RestBound(Full))'
    <3> TAKE c \in 1..Channels
    <3>1. CASE c = Channel
      BY <1>1, <1>3, <1>6, <3>1, SameSetup DEF Rest, Within, Loss, Cut, Decayed
    <3>2. CASE c # Channel
      BY <1>3, <3>2, SameSetup DEF FilterState, Within, Loss
    <3> QED BY <3>1, <3>2
  <2> QED BY <1>1, <2>1, <2>2, <2>3, SameSetup DEF FilterState
<1> QED BY <1>5, <1>7

(* The control thread changes the gain or the flag, which the filter's      *)
(* state does not depend on.                                                *)
LEMMA SetIInv ==
    ASSUME IInv, setup' = setup,
           UNCHANGED <<pc, chunkVars, out, next, y, peak>>,
           \/ \E g \in Gains : SetGain(g)
           \/ \E on \in BOOLEAN : SetDcRemove(on)
    PROVE  IInv'
<1>1. UNCHANGED <<prevX, prevY>> /\ gain' \in Gains
  BY DEF SetGain, SetDcRemove, filterVars, IInv, FilterTypes
<1>2. control' \in Seq(1..(2 * Channels))
  <2>1. CASE \E g \in Gains : SetGain(g)
    BY <2>1 DEF SetGain, IInv, FilterTypes
  <2>2. CASE \E on \in BOOLEAN : SetDcRemove(on)
    <3>1. 2 * Len(prevX) = 2 * Channels /\ 2 * Channels \in Nat
      BY SetupFacts DEF IInv, FilterTypes
    <3>2. [k \in 1..(2 * Channels) |-> k] \in [1..(2 * Channels) -> 1..(2 * Channels)]
      OBVIOUS
    <3>3. [k \in 1..(2 * Channels) |-> k] \in Seq(1..(2 * Channels))
      BY <3>1, <3>2
    <3> QED BY <2>2, <3>1, <3>3, EmptySeq DEF SetDcRemove
  <2> QED BY <2>1, <2>2
<1>3. FilterTypes'
  BY <1>1, <1>2, SameSetup DEF IInv, FilterTypes, InSample
<1>4. Channel' = Channel
  BY SameSetup DEF Channel
<1>5. FilterState'
  BY <1>1, <1>4, SameSetup DEF IInv, FilterState, Within, Loss, Decayed, Cut
<1> QED BY <1>3, <1>5 DEF IInv

(* The control thread clears an x or a y: what is left of that channel's    *)
(* state is what is left of the other half.                                 *)
LEMMA ClearIInv ==
    ASSUME IInv, setup' = setup, ClearOne,
           UNCHANGED <<pc, chunkVars, out, next, y, peak>>
    PROVE  IInv'
<1> USE DEF IInv
<1>1. /\ Full \in Nat \ {0} /\ Channels \in Nat \ {0} /\ 0 \in Samples
      /\ Len(prevX) = Channels /\ Len(prevY) = Channels
  BY SetupFacts DEF FilterTypes
<1>2. Head(control) \in 1..(2 * Channels) /\ control' \in Seq(1..(2 * Channels))
  BY HeadTailProperties DEF ClearOne, FilterTypes
<1>3. Channel' = Channel /\ InSample' = InSample
  BY SameSetup DEF Channel, InSample
<1>4. CASE Head(control) <= Len(prevX)
  <2> DEFINE k == Head(control)
  <2>1. k \in 1..Channels /\ prevY' = prevY /\ prevX' = [prevX EXCEPT ![k] = 0]
    BY <1>1, <1>2, <1>4 DEF ClearOne
  <2> HIDE DEF k
  <2>2. /\ prevX' \in Seq(Samples) /\ Len(prevX') = Channels
        /\ \A c \in 1..Channels : prevX'[c] = IF c = k THEN 0 ELSE prevX[c]
    BY <1>1, <2>1, ExceptSeq DEF FilterTypes
  <2>3. FilterTypes'
    BY <1>2, <1>3, <2>1, <2>2, SameSetup DEF FilterTypes, ClearOne
  <2>4. \A c \in 1..Channels : (pc = "storeY" /\ c = Channel)
                               \/ Within(Rest(c), RestBound(Full))'
    <3> TAKE c \in 1..Channels
    <3>1. CASE c = k
      <4>1. /\ Cut(AlphaNum * prevY[c], AlphaDen) \in Int
            /\ Within(Cut(AlphaNum * prevY[c], AlphaDen), RestBound(Full))
        BY <1>1, DecayFits DEF FilterTypes, FilterState
      <4>2. Rest(c)' = Cut(AlphaNum * prevY[c], AlphaDen)
        BY <2>1, <2>2, <3>1, <4>1 DEF Rest, Cut, Decayed
      <4> QED BY <4>1, <4>2, SameSetup DEF Within, Loss
    <3>2. CASE c # k
      BY <2>1, <2>2, <3>2, SameSetup DEF FilterState, Within, Loss
    <3> QED BY <3>1, <3>2
  <2>5. pc = "loadY" => /\ (out[next] - y \in Samples)'
                        /\ Within(y + Decayed(Channel) - out[next],
                                  RestBound(Full))'
    BY <1>3, <2>1, SameSetup DEF FilterState, Within, Loss, Decayed, Cut
  <2>6. FilterState'
    BY <1>3, <2>1, <2>2, <2>4, <2>5, SameSetup DEF FilterState, Within, Loss
  <2> QED BY <2>3, <2>6
<1>5. CASE ~(Head(control) <= Len(prevX))
  <2> DEFINE k == Head(control) - Len(prevX)
  <2>1. k \in 1..Channels /\ prevX' = prevX /\ prevY' = [prevY EXCEPT ![k] = 0]
    BY <1>1, <1>2, <1>5 DEF ClearOne
  <2> HIDE DEF k
  <2>2. /\ prevY' \in Seq(Int) /\ Len(prevY') = Channels
        /\ \A c \in 1..Channels : prevY'[c] = IF c = k THEN 0 ELSE prevY[c]
    BY <1>1, <2>1, ExceptSeq DEF FilterTypes
  <2>3. FilterTypes'
    BY <1>2, <1>3, <2>1, <2>2, SameSetup DEF FilterTypes, ClearOne
  <2>4. \A c \in 1..Channels : Within(prevY[c], TopBound(Full))'
    BY <1>1, <2>2, BoundTypes, ZeroWithin, SameSetup
       DEF FilterState, Within, Loss
  <2>5. \A c \in 1..Channels : (pc = "storeY" /\ c = Channel)
                               \/ Within(Rest(c), RestBound(Full))'
    <3> TAKE c \in 1..Channels
    <3>1. CASE c = k
      <4>1. prevX[c] \in (-Full)..Full
        BY DecayedTypes DEF Samples
      <4>2. Rest(c)' = -prevX[c]
        <5>1. Cut(AlphaNum * 0, AlphaDen) = 0
          BY LossPositive DEF LossFact, Cut
        <5> QED BY <2>1, <2>2, <3>1, <4>1, <5>1 DEF Rest, Decayed
      <4>3. Within(-prevX[c], RestBound(Full))
        BY <1>1, <4>1, SampleFits
      <4> QED BY <4>2, <4>3, SameSetup DEF Within, Loss
    <3>2. CASE c # k
      BY <2>1, <2>2, <3>2, SameSetup DEF FilterState, Within, Loss
    <3> QED BY <3>1, <3>2
  <2>6. pc = "loadY" => /\ (out[next] - y \in Samples)'
                        /\ Within(y + Decayed(Channel) - out[next],
                                  RestBound(Full))'
    <3>1. SUFFICES ASSUME pc = "loadY"
                   PROVE  /\ out[next] - y \in Samples
                          /\ Within(y + Decayed(Channel)' - out[next],
                                    RestBound(Full))
      BY <1>3, SameSetup DEF Within, Loss
    <3>2. out[next] - y \in (-Full)..Full /\ Channel \in 1..Channels
          /\ out[next] \in Int /\ y \in Int
      BY <1>1, <3>1, ChannelType
         DEF FilterTypes, FilterState, Samples, InSample
    <3>3. CASE Channel = k
      <4>1. Decayed(Channel)' = 0
        <5>1. Cut(AlphaNum * 0, AlphaDen) = 0
          BY LossPositive DEF LossFact, Cut
        <5> QED BY <1>3, <2>2, <3>2, <3>3, <5>1 DEF Decayed
      <4>2. y + 0 - out[next] = -(out[next] - y)
        BY <3>2
      <4>3. Within(-(out[next] - y), RestBound(Full))
        BY <1>1, <3>2, SampleFits
      <4> QED BY <3>2, <4>1, <4>2, <4>3 DEF Samples
    <3>4. CASE Channel # k
      BY <1>3, <2>2, <3>1, <3>2, <3>4
         DEF FilterState, Decayed, Cut, Samples
    <3> QED BY <3>3, <3>4
  <2>7. FilterState'
    BY <1>3, <2>1, <2>4, <2>5, <2>6, SameSetup DEF FilterState, Within, Loss
  <2> QED BY <2>3, <2>7
<1> QED BY <1>4, <1>5

-----------------------------------------------------------------------------
(* IInv is inductive.                                                       *)
LEMMA NextIInv == IInv /\ [Next]_vars => IInv'
<1> SUFFICES ASSUME IInv, [Next]_vars PROVE IInv'
  OBVIOUS
<1>1. CASE OnAudioChunk
  BY <1>1, ChunkIInv, LoadFlagIInv, LoadXIInv, LoadYIInv, StoreXIInv, StoreYIInv,
     FeedIInv DEF OnAudioChunk
<1>2. CASE SetParameter
  BY <1>2, SetIInv, ClearIInv DEF SetParameter
<1>3. CASE UNCHANGED vars
  <2>1. setup' = setup /\ Channel' = Channel
    BY <1>3, SameSetup DEF vars, Channel
  <2>2. FilterTypes'
    BY <1>3, <2>1, SameSetup DEF vars, filterVars, IInv, FilterTypes, InSample
  <2>3. FilterState'
    BY <1>3, <2>1, SameSetup DEF vars, filterVars, IInv, FilterState, Within, Loss,
                                  Decayed, Cut
  <2> QED BY <2>2, <2>3 DEF IInv
<1> QED BY <1>1, <1>2, <1>3 DEF Next

LEMMA FilterInvariance == Spec => []IInv
BY InitIInv, NextIInv, PTL DEF Spec

(* capture_pipeline.cpp:507-512: y, which is cast to an integer before it   *)
(* is clamped, stays within full scale / (1 - DC_ALPHA), even when SET      *)
(* dc_remove false clears half of the state in mid-sample.                  *)
THEOREM FilterNeverRunsAway == Spec => []FilterBounded
<1>1. IInv => FilterBounded
  <2> SUFFICES ASSUME IInv PROVE FilterBounded
    OBVIOUS
  <2>1. Full \in Nat /\ y \in Int /\ \A c \in 1..Channels : prevY[c] \in Int
    BY SetupFacts DEF IInv, FilterTypes
  <2> QED BY <2>1, FitsWithin DEF IInv, FilterState, FilterBounded
<1> QED BY <1>1, FilterInvariance, PTL

-----------------------------------------------------------------------------
(* Types.  The filter's invariant says where the filter is in a period; the *)
(* sample it is at is counted from the start of each.                       *)
TInv == TypeOK /\ (pc \in {"idle", "flag"} => next = 0)

LEMMA SameWords ==
    ASSUME setup' = setup
    PROVE  Words' = Words /\ Channels' = Channels /\ Full' = Full
BY DEF Words, Channels, Full

LEMMA TypeWords ==
    ASSUME TypeOK
    PROVE  /\ prevX \in Seq(Words) /\ out \in Seq(Words)
           /\ setup \in Setups /\ Len(out) \in Nat
BY DEF TypeOK, Words

LEMMA InitTInv == Init => TInv
<1> SUFFICES ASSUME Init PROVE TInv
  OBVIOUS
<1>1. Channels \in Nat \ {0} /\ 0 \in Words
  BY SetupFacts, WordsAreSamples DEF Init
<1>2. Silent \in [1..Channels -> Words] /\ Silent \in [1..Channels -> Int]
  BY <1>1 DEF Silent
<1>3. Silent \in Seq(Words) /\ Silent \in Seq(Int) /\ Len(Silent) = Channels
  BY <1>1, <1>2
<1>4. 0 \in 0..MeterTop /\ GainUnit \in Gains
  BY PcmAssumption DEF MeterTop
<1>5. << >> \in Seq(1..(2 * Channels)) /\ << >> \in Seq(Inputs) /\ << >> \in Seq(Words)
  BY EmptySeq
<1>6. 0 \in 0..(Len(<< >>) + 1)
  OBVIOUS
<1>7. /\ prevX \in Seq((-Full)..(Full - 1)) /\ Len(prevX) = Channels
      /\ prevY \in Seq(Int) /\ Len(prevY) = Channels
  BY <1>3 DEF Init, Words
<1>8. /\ control \in Seq(1..(2 * Channels)) /\ input \in Seq(Inputs)
      /\ out \in Seq((-Full)..(Full - 1)) /\ next \in 0..(Len(out) + 1)
  BY <1>5, <1>6 DEF Init, Words
<1>9. y \in Int /\ peak \in 0..MeterTop /\ gain \in Gains /\ boost \in Gains
  BY <1>4 DEF Init
<1> QED BY <1>7, <1>8, <1>9 DEF Init, TInv, TypeOK

-----------------------------------------------------------------------------
(* The meter.  A set of integers with a bound has a largest element.        *)
LEMMA LeastOf ==
    ASSUME NEW S \in SUBSET Nat, S # {}
    PROVE  \E n \in S : \A m \in S : n <= m
<1> DEFINE R == OpToRel(<, Nat)
<1>1. IsWellFoundedOn(R, Nat)
  BY NatLessThanWellFounded
<1>2. \A m, n \in Nat : m < n => <<m, n>> \in R
  BY DEF OpToRel
<1> HIDE DEF R
<1>3. PICK n \in S : \A m \in S : ~(<<m, n>> \in R)
  BY <1>1, WFMin
<1>4. ASSUME NEW m \in S PROVE n <= m
  <2>1. m \in Nat /\ n \in Nat /\ ~(m < n)
    BY <1>2, <1>3
  <2> QED BY <2>1
<1> QED BY <1>4

LEMMA MaxOf ==
    ASSUME NEW S \in SUBSET Int, S # {}, NEW b \in Int, \A x \in S : x <= b
    PROVE  Max(S) \in S /\ \A x \in S : x <= Max(S)
<1> DEFINE D == {b - x : x \in S}
<1>1. D \subseteq Nat
  OBVIOUS
<1>2. D # {}
  OBVIOUS
<1>3. PICK n \in D : \A m \in D : n <= m
  BY <1>1, <1>2, LeastOf
<1>4. PICK x \in S : n = b - x
  BY <1>3
<1>5. \A z \in S : x >= z
  <2> TAKE z \in S
  <2>1. n <= b - z
    BY <1>3
  <2> QED BY <1>4, <2>1
<1> QED BY <1>4, <1>5 DEF Max

(* A sample on the scale of the meter is an integer with a bound.           *)
LEMMA MeteredTypes ==
    ASSUME setup \in Setups, NEW v \in Words
    PROVE  /\ Abs(Metered(v)) \in Nat
           /\ Abs(Metered(v)) <= Full + MeterFull
           /\ Full \in Nat /\ MeterFull \in Nat
<1>1. Full \in Nat /\ MeterFull \in Nat /\ Scale \in Nat \ {0} /\ v \in Int
      /\ -Full <= v /\ v < Full
  BY SetupFacts, PcmAssumption DEF Words
<1>2. CASE setup.bits # 32
  BY <1>1, <1>2 DEF Metered, Abs
<1>3. CASE setup.bits = 32
  <2> DEFINE q == v \div Scale
             p == Scale * q
  <2>1. v = p + (v % Scale) /\ v % Scale \in 0..(Scale - 1) /\ q \in Int
    BY <1>1, DivMod
  <2>2. Full = Scale * MeterFull /\ Scale * (-MeterFull) = -(Scale * MeterFull)
        /\ Scale * (q + 1) = p + Scale
    <3> HIDE DEF q
    <3> QED BY <1>1, <1>3, <2>1 DEF Full
  <2> HIDE DEF q
  <2>3. p \in Int
    BY <1>1, <2>1
  <2> HIDE DEF p
  <2>4. p <= Full /\ -Full <= p + Scale
    BY <1>1, <2>1, <2>3
  <2>5. q <= MeterFull
    BY <1>1, <2>1, <2>2, <2>4, ProductCancel DEF p
  <2>6. -MeterFull <= q + 1
    BY <1>1, <2>1, <2>2, <2>4, ProductCancel
  <2>7. q = -MeterFull - 1 => Abs(q) <= Full + MeterFull
    <3>1. Full # 0
      BY SetupFacts
    <3> QED BY <1>1, <2>1, <3>1 DEF Abs
  <2>8. Metered(v) = q
    BY <1>3 DEF Metered, q
  <2> QED BY <1>1, <2>1, <2>5, <2>6, <2>7, <2>8 DEF Abs
<1> QED BY <1>2, <1>3

(* The loudest of a period.                                                 *)
LEMMA Loudest ==
    ASSUME setup \in Setups, NEW s \in Seq(Words)
    PROVE  LET loudest == Max({0} \cup {Level(s, k) : k \in DOMAIN s})
           IN /\ loudest \in Nat
              /\ \A k \in DOMAIN s : Level(s, k) \in Int /\ Level(s, k) <= loudest
<1> DEFINE S == {0} \cup {Level(s, k) : k \in DOMAIN s}
           b == Full + MeterFull
<1>1. Full \in Nat /\ MeterFull \in Nat
  BY WordsAreSamples, MeteredTypes
<1>2. ASSUME NEW k \in DOMAIN s
      PROVE  Level(s, k) \in Int /\ Level(s, k) <= b
  <2>1. s[k] \in Words
    OBVIOUS
  <2>2. Abs(Metered(s[k])) \in Nat /\ Abs(Metered(s[k])) <= b
    BY <2>1, MeteredTypes
  <2>3. -Full \in Int /\ -Full <= b
    BY <1>1
  <2> HIDE DEF b
  <2> QED BY <2>2, <2>3 DEF Level
<1>3. S \in SUBSET Int /\ S # {} /\ 0 \in S
  BY <1>2
<1>4. b \in Int /\ \A x \in S : x <= b
  BY <1>1, <1>2
<1>5. \A k \in DOMAIN s : Level(s, k) \in S
  OBVIOUS
<1> HIDE DEF S, b
<1>6. Max(S) \in S /\ \A x \in S : x <= Max(S)
  BY <1>3, <1>4, MaxOf
<1> QED BY <1>2, <1>3, <1>5, <1>6 DEF S

LEMMA PeakTypes ==
    ASSUME setup \in Setups, NEW s \in Seq(Words)
    PROVE  /\ PeakOf(s) \in 0..MeterTop
           /\ \A k \in DOMAIN s : Level(s, k) <= PeakOf(s) \/ PeakOf(s) = MeterTop
<1> DEFINE loudest == Max({0} \cup {Level(s, k) : k \in DOMAIN s})
<1>1. /\ loudest \in Nat
      /\ \A k \in DOMAIN s : Level(s, k) \in Int /\ Level(s, k) <= loudest
  BY Loudest
<1>2. MeterTop \in Nat
  BY PcmAssumption DEF MeterTop
<1>3. PeakOf(s) = IF loudest > MeterTop THEN MeterTop ELSE loudest
  BY DEF PeakOf
<1> HIDE DEF loudest
<1> QED BY <1>1, <1>2, <1>3

-----------------------------------------------------------------------------
LEMMA ChunkTypes ==
    ASSUME TInv, NEW s \in Periods, Chunk(s),
           UNCHANGED <<setup, gain, dcRemove, control>>
    PROVE  TInv'
<1> USE DEF TInv
<1>1. Words' = Words /\ Channels' = Channels
  BY SameWords
<1>2. out' \in Seq(Words) /\ Len(out') = Size /\ Size \in Nat \ {0}
  BY BoostedTypes DEF TypeOK, Chunk
<1>3. input' \in Seq(Inputs)
  BY DownmixedTypes DEF TypeOK, Chunk
<1>4. next' = 0 /\ next' \in 0..(Len(out') + 1) /\ pc' = "flag"
  BY <1>2 DEF Chunk
<1> QED BY <1>1, <1>2, <1>3, <1>4 DEF TypeOK, Chunk, filterVars, Words, MeterTop

LEMMA LoadFlagTypes ==
    ASSUME TInv, LoadFlag, UNCHANGED <<setup, gain, dcRemove, control>>
    PROVE  TInv'
<1> USE DEF TInv
<1>1. Words' = Words /\ Channels' = Channels
  BY SameWords
<1>2. boost' \in Gains /\ input' \in Seq(Inputs)
  BY PcmAssumption, EmptySeq DEF TypeOK, LoadFlag
<1>3. next' \in 0..(Len(out') + 1)
  BY TypeWords DEF LoadFlag
<1>4. filtered' \in BOOLEAN /\ pc' \in {"loadX", "feed"}
  BY DEF TypeOK, LoadFlag
<1> QED BY <1>1, <1>2, <1>3, <1>4 DEF TypeOK, LoadFlag, filterVars, Words, MeterTop

LEMMA LoadTypes ==
    ASSUME IInv, TInv, LoadX \/ LoadY, FilterTypes',
           UNCHANGED <<setup, gain, dcRemove, control>>
    PROVE  TInv'
<1> USE DEF TInv
<1>1. Words' = Words /\ Channels' = Channels
  BY SameWords
<1>2. y' \in Int
  BY DEF FilterTypes
<1> QED BY <1>1, <1>2 DEF TypeOK, LoadX, LoadY, filterVars, chunkVars, Words, MeterTop

LEMMA StoreXTypes ==
    ASSUME IInv, TInv, StoreX, UNCHANGED <<setup, gain, dcRemove, control>>
    PROVE  TInv'
<1> USE DEF TInv
<1>1. Words' = Words /\ Channels' = Channels
  BY SameWords
<1>2. next \in 1..Len(out) /\ Channel \in 1..Channels
  BY ChannelType DEF IInv, FilterTypes, InSample, StoreX
<1>3. out[next] \in Words
  BY <1>2, TypeWords, ElementOfSeq
<1>4. prevX' \in Seq(Words) /\ Len(prevX') = Channels
  <2>1. Channel \in 1..Len(prevX)
    BY <1>2 DEF TypeOK
  <2> QED BY <1>3, <2>1, TypeWords, ExceptSeq DEF StoreX, TypeOK
<1> QED BY <1>1, <1>4 DEF TypeOK, StoreX, chunkVars, Words, MeterTop

LEMMA StoreYTypes ==
    ASSUME IInv, TInv, StoreY, UNCHANGED <<setup, gain, dcRemove, control>>
    PROVE  TInv'
<1> USE DEF TInv
<1>1. Words' = Words /\ Channels' = Channels
  BY SameWords
<1>2. next \in 1..Len(out) /\ Channel \in 1..Channels
  BY ChannelType DEF IInv, FilterTypes, InSample, StoreY
<1>3. Clamp(y) \in Words
  BY NarrowTypes DEF TypeOK
<1>4. out' \in Seq(Words) /\ Len(out') = Len(out)
  BY <1>2, <1>3, TypeWords, ExceptSeq DEF StoreY
<1>5. prevY' \in Seq(Int) /\ Len(prevY') = Channels
  BY <1>2, ExceptSeq DEF StoreY, TypeOK
<1>6. next' \in 0..(Len(out') + 1)
  <2>1. PICK n \in Nat, l \in Nat : n = next /\ l = Len(out) /\ n <= l
    BY <1>2, TypeWords
  <2>2. next' = n + 1 /\ Len(out') = l
    BY <1>4, <2>1 DEF StoreY
  <2> QED BY <2>1, <2>2
<1>7. pc' \in {"feed", "loadX"} /\ y' = 0
  BY DEF StoreY
<1>8. UNCHANGED <<setup, gain, dcRemove, control, prevX, input, boost, filtered, peak>>
  BY DEF StoreY, chunkVars
<1>9. MeterTop' = MeterTop
  BY DEF MeterTop
<1> QED BY <1>1, <1>4, <1>5, <1>6, <1>7, <1>8, <1>9 DEF TypeOK, Words

LEMMA FeedTypes ==
    ASSUME TInv, FeedAndMeter, UNCHANGED <<setup, gain, dcRemove, control>>
    PROVE  TInv'
<1> USE DEF TInv
<1>1. Words' = Words /\ Channels' = Channels
  BY SameWords
<1>2. peak' \in 0..MeterTop
  BY PeakTypes, TypeWords DEF FeedAndMeter
<1>3. out' \in Seq(Words) /\ input' \in Seq(Inputs)
  BY EmptySeq DEF FeedAndMeter
<1>4. next' = 0 /\ next' \in 0..(Len(out') + 1)
  <2>1. Len(out') = 0
    BY DEF FeedAndMeter
  <2> QED BY <2>1 DEF FeedAndMeter
<1>5. boost' \in Gains /\ filtered' \in BOOLEAN /\ pc' = "idle"
  BY PcmAssumption DEF FeedAndMeter
<1> QED BY <1>1, <1>2, <1>3, <1>4, <1>5
        DEF TypeOK, FeedAndMeter, filterVars, Words, MeterTop

LEMMA SetTypes ==
    ASSUME IInv, IInv', TInv, SetParameter
    PROVE  TInv'
<1> USE DEF TInv
<1>1. Words' = Words /\ Channels' = Channels /\ MeterTop' = MeterTop
  BY SameWords DEF SetParameter, MeterTop
<1>2. /\ prevY' \in Seq(Int) /\ Len(prevX') = Channels /\ Len(prevY') = Channels
      /\ control' \in Seq(1..(2 * Channels)) /\ gain' \in Gains
  BY <1>1 DEF IInv, FilterTypes
<1>3. dcRemove' \in BOOLEAN
  BY DEF TypeOK, SetParameter, SetGain, SetDcRemove, ClearOne
<1>4. prevX' \in Seq(Words)
  <2>1. CASE UNCHANGED prevX
    BY <2>1, TypeWords
  <2>2. CASE ClearOne /\ Head(control) <= Len(prevX)
    <3>1. Head(control) \in 1..(2 * Channels) /\ Len(prevX) = Channels
      BY <2>2, HeadTailProperties DEF ClearOne, TypeOK
    <3>2. Head(control) \in 1..Len(prevX)
      BY <2>2, <3>1, SetupFacts DEF TypeOK
    <3>3. prevX' = [prevX EXCEPT ![Head(control)] = 0] /\ 0 \in Words
      BY <2>2, WordsAreSamples DEF ClearOne, TypeOK
    <3> QED BY <3>2, <3>3, TypeWords, ExceptSeq
  <2> QED BY <2>1, <2>2 DEF SetParameter, SetGain, SetDcRemove, ClearOne, filterVars
<1>5. UNCHANGED <<setup, pc, chunkVars, out, next, y, peak>>
  BY DEF SetParameter
<1>6. /\ input' \in Seq(Inputs) /\ out' \in Seq(Words) /\ next' \in 0..(Len(out') + 1)
      /\ y' \in Int /\ peak' \in 0..MeterTop /\ setup' \in Setups
      /\ boost' \in Gains /\ filtered' \in BOOLEAN
  BY <1>5, TypeWords DEF TypeOK, chunkVars
<1>7. /\ pc' \in {"idle", "flag", "loadX", "loadY", "storeX", "storeY", "feed"}
      /\ pc' \in {"idle", "flag"} => next' = 0
  BY <1>5 DEF TypeOK
<1> QED BY <1>1, <1>2, <1>3, <1>4, <1>6, <1>7 DEF TypeOK, Words

LEMMA NextTInv ==
    ASSUME IInv, IInv', TInv, [Next]_vars
    PROVE  TInv'
<1>1. CASE OnAudioChunk
  BY <1>1, ChunkTypes, LoadFlagTypes, LoadTypes, StoreXTypes, StoreYTypes,
     FeedTypes DEF OnAudioChunk, IInv
<1>2. CASE SetParameter
  BY <1>2, SetTypes
<1>3. CASE UNCHANGED vars
  <2>1. Words' = Words /\ Channels' = Channels
    BY <1>3, SameWords DEF vars
  <2> QED BY <1>3, <2>1 DEF TInv, TypeOK, vars, filterVars, chunkVars, Words, MeterTop
<1> QED BY <1>1, <1>2, <1>3 DEF Next

LEMMA TypeInvariance == Spec => []TInv
<1>1. IInv /\ IInv' /\ TInv /\ [Next]_vars => TInv'
  BY NextTInv
<1> QED BY <1>1, InitTInv, FilterInvariance, PTL DEF Spec

(* Every variable holds a value of its kind, and what on_audio_chunk()      *)
(* hands to ring buffer, recorder and publisher is made of words of the     *)
(* format, the filter's input among them.                                   *)
THEOREM TypeCorrect == Spec => []TypeOK
<1>1. TInv => TypeOK
  BY DEF TInv
<1> QED BY <1>1, TypeInvariance, PTL

(* calculate_peak(): the level STATUS reports is that of the loudest sample *)
(* that was fed, whatever the split between the NEON loop and its tail, or  *)
(* full scale.                                                              *)
THEOREM PeakLoudest == Spec => PeakIsLoudest
<1>1. ASSUME TInv, [Next]_vars
      PROVE  [\A k \in DOMAIN out :
                (pc = "feed" /\ pc' = "idle"
                   /\ ~(setup.bits = 16 /\ setup.neon /\ out[k] = -Full))
                => (peak' >= Abs(Metered(out[k])) \/ peak' = MeterTop)]_vars
  <2> SUFFICES ASSUME NEW k \in DOMAIN out, pc = "feed", pc' = "idle",
                      ~(setup.bits = 16 /\ setup.neon /\ out[k] = -Full)
               PROVE  peak' >= Abs(Metered(out[k])) \/ peak' = MeterTop
    OBVIOUS
  <2>1. FeedAndMeter
    BY <1>1 DEF Next, OnAudioChunk, Chunk, LoadFlag, LoadX, LoadY, StoreX, StoreY,
                SetParameter, vars
  <2>2. setup \in Setups /\ out \in Seq(Words) /\ out[k] \in Words
    BY <1>1, TypeWords DEF TInv
  <2>3. peak' = PeakOf(out)
    BY <2>1 DEF FeedAndMeter
  <2>4. Level(out, k) <= PeakOf(out) \/ PeakOf(out) = MeterTop
    BY <2>2, PeakTypes
  <2>5. Level(out, k) = Abs(Metered(out[k]))
    <3>1. ASSUME setup.bits = 16, k <= Vectored(Len(out)), out[k] = -Full
          PROVE  FALSE
      <4>1. ~setup.neon
        BY <3>1
      <4>2. Vectored(Len(out)) = 0
        BY <4>1 DEF Vectored
      <4> QED BY <2>2, <3>1, <4>2
    <3> QED BY <3>1 DEF Level
  <2>6. PeakOf(out) \in Int /\ Abs(Metered(out[k])) \in Int
    BY <2>2, PeakTypes, MeteredTypes, PcmAssumption DEF MeterTop
  <2> QED BY <2>3, <2>4, <2>5, <2>6
<1> QED BY <1>1, TypeInvariance, PTL DEF Spec, PeakIsLoudest

-----------------------------------------------------------------------------
(* What is fed.  The formats whose samples saturate, and the layouts the    *)
(* stride of two of apply_downmix() is right for.                           *)
SetupsSaturate ==
    \A s \in Setups : ~(s.neon /\ s.bits = 32) /\ (s.downmix => s.channels <= 2)

(* Sample v is w / GainUnit to within a step, or clipped.                   *)
Scaled(v, w) ==
    \/ Abs(v * GainUnit - w) < GainUnit
    \/ v = Full - 1 /\ w > (Full - 1) * GainUnit
    \/ v = -Full /\ w < -Full * GainUnit

(* The period keeps the input it came from and its gain until the filter    *)
(* takes it over, and a period the filter has not touched is scaled.        *)
FeedState ==
    /\ InSample => filtered
    /\ pc = "flag" \/ (pc = "feed" /\ ~filtered) =>
          \A k \in DOMAIN out : Scaled(out[k], Wanted(k))

LEMMA ClampScaled ==
    ASSUME setup \in Setups, NEW w \in Int
    PROVE  Scaled(Clamp(Cut(w, GainUnit)), w)
<1> DEFINE q == Cut(w, GainUnit)
           p == GainUnit * q
<1>1. GainUnit \in Nat \ {0} /\ Full \in Nat \ {0}
  BY SetupFacts, PcmAssumption
<1>2. /\ q \in Int
      /\ w >= 0 => 0 <= w - p /\ w - p <= GainUnit - 1
      /\ w <= 0 => 1 - GainUnit <= w - p /\ w - p <= 0
  BY <1>1, CutRemainder
<1>3. p \in Int /\ p = q * GainUnit
  <2> HIDE DEF q
  <2> QED BY <1>1, <1>2
<1>4. q < -Full => w < -Full * GainUnit
  <2> SUFFICES ASSUME q < -Full PROVE w < -Full * GainUnit
    OBVIOUS
  <2> HIDE DEF q
  <2>1. GainUnit * (q + 1) <= GainUnit * (-Full)
    BY <1>1, <1>2, ProductMonotone
  <2>2. GainUnit * (q + 1) = p + GainUnit /\ GainUnit * (-Full) = -Full * GainUnit
        /\ -Full * GainUnit \in Int
    BY <1>1, <1>2
  <2>3. w >= 0 => p > -GainUnit
    BY <1>1, <1>2, <1>3
  <2>4. -Full * GainUnit <= 0
    BY <1>1
  <2> HIDE DEF p
  <2> QED BY <1>1, <1>2, <1>3, <2>1, <2>2, <2>3, <2>4
<1>5. q > Full - 1 => w > (Full - 1) * GainUnit
  <2> SUFFICES ASSUME q > Full - 1 PROVE w > (Full - 1) * GainUnit
    OBVIOUS
  <2> HIDE DEF q
  <2>1. GainUnit * Full <= GainUnit * q
    BY <1>1, <1>2, ProductMonotone
  <2>2. GainUnit * Full = (Full - 1) * GainUnit + GainUnit /\ (Full - 1) * GainUnit \in Nat
    BY <1>1
  <2> QED BY <1>1, <1>2, <1>3, <2>1, <2>2
<1>6. CASE q \in (-Full)..(Full - 1)
  <2>1. Clamp(q) = q
    BY <1>1, <1>6 DEF Clamp
  <2> HIDE DEF q, p
  <2>2. Abs(q * GainUnit - w) < GainUnit
    BY <1>1, <1>2, <1>3 DEF Abs
  <2> QED BY <2>1, <2>2 DEF Scaled, q
<1> HIDE DEF q, p
<1>7. CASE q < -Full
  BY <1>1, <1>2, <1>4, <1>7 DEF Clamp, Scaled, q
<1>8. CASE q > Full - 1
  <2>1. Clamp(q) = Full - 1
    BY <1>1, <1>2, <1>8 DEF Clamp
  <2> QED BY <1>5, <1>8, <2>1 DEF Scaled, q
<1> QED BY <1>1, <1>2, <1>6, <1>7, <1>8

(* The sample kept of frame k is the one that is wanted of it.              *)
LEMMA ChunkScaled ==
    ASSUME SetupsSaturate, setup \in Setups, gain \in Gains, NEW s \in Periods,
           NEW k \in 1..Size
    PROVE  LET i == IF Channels = 1 THEN (k - 1) * setup.channels + 1 ELSE k
           IN Scaled(Boosted(Downmixed(s), gain)[k], s[i] * gain)
<1> DEFINE d == Downmixed(s)
           i == IF Channels = 1 THEN (k - 1) * setup.channels + 1 ELSE k
<1>1. Size \in Nat \ {0} /\ d \in [1..Size -> Words]
      /\ d[k] = s[IF LeftOnly THEN 2 * k - 1 ELSE k]
  BY DownmixedTypes
<1>2. setup.channels \in Nat \ {0} /\ (setup.downmix => setup.channels <= 2)
      /\ ~(setup.neon /\ setup.bits = 32)
  BY SetupFacts DEF SetupsSaturate
<1>3. d[k] = s[i]
  <2>1. CASE LeftOnly
    <3>1. Channels = 1 /\ setup.channels = 2
      BY <1>2, <2>1 DEF LeftOnly, Channels
    <3>2. i = 2 * k - 1
      BY <3>1
    <3> QED BY <1>1, <2>1, <3>2
  <2>2. CASE ~LeftOnly
    <3>1. Channels = setup.channels
      BY <2>2 DEF LeftOnly, Channels
    <3>2. i = k
      BY <1>2, <3>1
    <3> QED BY <1>1, <2>2, <3>2
  <2> QED BY <2>1, <2>2
<1>4. gain \in Nat /\ GainUnit \in Nat \ {0} /\ d[k] \in Int
  BY <1>1, WordsAreSamples, PcmAssumption
<1> HIDE DEF d, i
<1>5. CASE gain = GainUnit
  <2>1. Boosted(d, gain)[k] = d[k]
    BY <1>5 DEF Boosted
  <2>2. d[k] * GainUnit - d[k] * gain = 0
    BY <1>4, <1>5
  <2> QED BY <1>3, <1>4, <2>1, <2>2 DEF Scaled, Abs, d, i
<1>6. CASE gain # GainUnit
  <2>1. ~(setup.bits = 32 /\ k <= Vectored(Len(d)))
    BY <1>2 DEF Vectored
  <2>2. Boosted(d, gain)[k] = Clamp(Cut(d[k] * gain, GainUnit))
    BY <1>1, <1>6, <2>1 DEF Boosted
  <2>3. d[k] * gain \in Int
    BY <1>4
  <2>4. Scaled(Clamp(Cut(d[k] * gain, GainUnit)), d[k] * gain)
    BY <2>3, ClampScaled
  <2> QED BY <1>3, <2>2, <2>4 DEF d, i
<1> QED BY <1>5, <1>6

LEMMA NextFeedState ==
    ASSUME SetupsSaturate, TInv, FeedState, [Next]_vars
    PROVE  FeedState'
<1>1. setup' = setup /\ Full' = Full /\ Channels' = Channels
  BY SameWords DEF Next, OnAudioChunk, SetParameter, vars
<1>2. ASSUME UNCHANGED <<pc, chunkVars, out>>
      PROVE  FeedState'
  BY <1>1, <1>2 DEF FeedState, InSample, Scaled, Wanted, Abs, chunkVars
<1>3. ASSUME NEW s \in Periods, Chunk(s)
      PROVE  FeedState'
  <2>1. /\ out' = Boosted(Downmixed(s), gain) /\ input' = s /\ boost' = gain
        /\ pc' = "flag"
    BY <1>3 DEF Chunk
  <2>2. setup \in Setups /\ gain \in Gains
    BY DEF TInv, TypeOK
  <2>3. ASSUME NEW k \in DOMAIN out'
        PROVE  Scaled(out[k], Wanted(k))'
    <3>1. out' \in Seq(Words) /\ Len(out') = Size
      BY <2>1, <2>2, BoostedTypes
    <3>2. k \in 1..Size
      BY <3>1, <2>3, LenProperties
    <3>3. Scaled(out'[k], input'[IF Channels = 1 THEN (k - 1) * setup.channels + 1
                                 ELSE k] * boost')
      BY <2>1, <2>2, <3>2, ChunkScaled
    <3> QED BY <1>1, <3>3 DEF Scaled, Wanted, Abs
  <2> QED BY <2>1, <2>3 DEF FeedState, InSample
<1>4. CASE LoadFlag
  <2>1. CASE dcRemove
    BY <1>4, <2>1 DEF LoadFlag, FeedState, InSample
  <2>2. CASE ~dcRemove
    <3>1. pc = "flag" /\ pc' = "feed" /\ UNCHANGED <<input, boost, out>>
      BY <1>4, <2>2 DEF LoadFlag
    <3>2. \A k \in DOMAIN out : Scaled(out[k], Wanted(k))
      BY <3>1 DEF FeedState
    <3>3. \A k \in DOMAIN out' : Scaled(out[k], Wanted(k))'
      BY <1>1, <3>1, <3>2 DEF Scaled, Wanted, Abs
    <3> QED BY <3>1, <3>3 DEF FeedState, InSample
  <2> QED BY <2>1, <2>2
<1>5. CASE LoadX \/ LoadY \/ StoreX \/ StoreY
  BY <1>5 DEF LoadX, LoadY, StoreX, StoreY, FeedState, InSample, chunkVars
<1>6. CASE FeedAndMeter
  BY <1>6 DEF FeedAndMeter, FeedState, InSample
<1> QED BY <1>2, <1>3, <1>4, <1>5, <1>6 DEF Next, OnAudioChunk, SetParameter, vars

(* apply_downmix() and apply_gain(), with set_parameter() changing the gain *)
(* at any time: a period fed without the DC filter is the kept channel, or  *)
(* every channel, of that very period times one gain, to within a step or   *)
(* clipped.  Not so for the 32-bit samples of the NEON code, which wrap,    *)
(* and for the downmix of more than two channels, whose stride is two.      *)
THEOREM FedBoosted ==
    ASSUME SetupsSaturate
    PROVE  Spec => []FedIsBoosted
<1>1. Init => FeedState
  BY DEF Init, FeedState, InSample
<1>2. TInv /\ FeedState /\ [Next]_vars => FeedState'
  BY NextFeedState
<1>3. FeedState => FedIsBoosted
  BY DEF FeedState, FedIsBoosted, Scaled
<1> QED BY <1>1, <1>2, <1>3, TypeInvariance, PTL DEF Spec
=============================================================================
