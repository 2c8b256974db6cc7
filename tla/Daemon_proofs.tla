---------------------------- MODULE Daemon_proofs ----------------------------
(***************************************************************************)
(* Daemon and Startup, proved for every command line and every file, every  *)
(* sound card and any number of signals and clients: the types, that each   *)
(* setting is the last thing said of it, the command line after the file,   *)
(* that the buffers hold what the card delivers, and that the audio         *)
(* callback meets no part that is not there.                                *)
(*                                                                         *)
(* The settings are followed option by option and line by line: at each     *)
(* step they are what the options and lines read so far say.  The callback  *)
(* runs only between the start of the capture thread and its join, and in   *)
(* those places of run() recorder and segment are there.                    *)
(***************************************************************************)
EXTENDS Daemon, SequenceTheorems, TLAPS

(* A complete DaemonConfig.                                                 *)
Fields == DOMAIN Defaults
IsConfig(s) ==
    /\ s = [f \in Fields |-> s[f]]
    /\ \A f \in Fields : s[f] \in IF f \in Switches THEN BOOLEAN ELSE Int

Reading     == main \in {"args", "file", "again"}
Configuring == Reading \/ main \in {"device", "pipeline", "begin"}

(* Where run() is when the callback may run, when the recorder and when the *)
(* segment is there.                                                        *)
Capturing == {"started", "up", "wait", "stopCapture", "joinCapture"}
Recording == Capturing \cup {"startCapture", "stopClips", "joinClips", "stopRecorder"}
Sharing   == Recording \cup {"begin", "socket", "startClips", "startRecorder", "cleanup"}
Handling  == (Sharing \ {"begin"}) \cup {"stopSocket", "joinSocket"}

InputTypes ==
    /\ Reading \/ main = "device" =>
           /\ input.args \in Seq(Options) /\ input.lines \in Seq(Lines)
           /\ next \in Nat \ {0}
    /\ Configuring => IsConfig(settings)

(* The settings are what has been read so far says: m lines, n options.      *)
SettingsSay(m, n) == \A f \in Fields : LastSaid(f, settings[f], m, n)

SettingsSoFar ==
    /\ main = "args"  => next <= Len(input.args) + 1 /\ SettingsSay(0, next - 1)
    /\ main = "file"  => next <= Len(input.lines) + 1 /\ SettingsSay(next - 1, 0)
    /\ main = "again" => next <= Len(input.args) + 1
                         /\ SettingsSay(Len(input.lines), next - 1)
    /\ main \in {"file", "again"} => HasFile(input.args)

(* The buffers are made of what the card has granted.                       *)
SizesGranted ==
    /\ main \in {"pipeline", "begin"} =>
           /\ sizes.period \in Int
           /\ sizes.readi = sizes.period * settings.channels * Bytes
    /\ main = "begin" =>
           /\ OutChannels < settings.channels => sizes.mono = sizes.period * Bytes
           /\ settings.enable_sample_sharing =>
                 sizes.shm = sizes.period * OutChannels * Bytes

(* A part is there while run() is between its start and its stop.           *)
PartsInPlace ==
    /\ capture \notin {"none", "exited"} => main \in Capturing
    /\ main \in Handling => "handlers" \in up
    /\ main \in Recording /\ settings.enabled => "recorder" \in up
    /\ main \in Sharing /\ settings.enable_sample_sharing => "shm" \in up

StartupParts == InputTypes /\ SettingsSoFar /\ CommandLineWins /\ SizesGranted

IInv == TypeOK /\ StartupParts /\ PartsInPlace

-----------------------------------------------------------------------------
(* The fields: those an option or a key stands for are among them.          *)
LEMMA FieldNames ==
    /\ Switches \subseteq Fields /\ "enabled" \in Fields /\ "" \notin Fields
    /\ \A o \in DOMAIN OptionField : OptionField[o] \in Fields \ {"enabled"}
    /\ \A section, key : key \in KeysOf(section) => KeyField(key) \in Fields
<1>1. Switches \subseteq Fields /\ "enabled" \in Fields /\ "" \notin Fields
  BY DEF Fields, Defaults, Switches
<1>2. \A o \in DOMAIN OptionField : OptionField[o] \in Fields \ {"enabled"}
  BY DEF Fields, Defaults, OptionField
<1>3. ASSUME NEW section, NEW key, key \in KeysOf(section)
      PROVE  KeyField(key) \in Fields
  <2>1. key \in {"socket_path", "clips_dir", "shm_name", "ring_buffer_seconds",
                 "enable_sample_sharing", "device", "rate", "channels", "bits",
                 "bits_per_sample", "period_size", "buffer_periods", "gain_db",
                 "dc_remove", "cpu_affinity", "downmix_mono", "enabled",
                 "output_dir", "block_duration_seconds", "duration", "format",
                 "max_blocks"}
    BY <1>3 DEF KeysOf
  <2> QED BY <2>1 DEF KeyField, ShortKeys, Fields, Defaults
<1> QED BY <1>1, <1>2, <1>3

LEMMA FieldOfLine ==
    ASSUME NEW lines, NEW i
    PROVE  FieldAt(lines, i) \in Fields \cup {""}
BY FieldNames DEF FieldAt

LEMMA ConvertedTypes ==
    ASSUME NEW f \in Fields, NEW v \in Int
    PROVE  Converted(f, v) \in IF f \in Switches THEN BOOLEAN ELSE Int
<1>1. CASE f \in Switches
  <2>1. Converted(f, v) \in BOOLEAN
    BY <1>1, Zenon DEF Converted
  <2> QED BY <1>1, <2>1
<1>2. CASE f \in Halves /\ f \notin Switches
  <2>1. v % Word \in Int
    BY DEF Word
  <2> QED BY <1>2, <2>1 DEF Converted
<1>3. CASE f \notin Halves /\ f \notin Switches
  <2>1. Converted(f, v) = v
    BY <1>3 DEF Converted
  <2> QED BY <1>3, <2>1
<1> QED BY <1>1, <1>2, <1>3

LEMMA DefaultTypes == IsConfig(Defaults)
<1>1. Defaults = [f \in Fields |-> Defaults[f]]
  BY DEF Fields, Defaults
<1>2. \A f \in Switches : Defaults[f] \in BOOLEAN
  <2>1. Defaults.enable_sample_sharing = FALSE /\ Defaults.dc_remove = FALSE
        /\ Defaults.downmix_mono = FALSE /\ Defaults.enabled = FALSE
    BY DEF Defaults
  <2> QED BY <2>1, Zenon DEF Switches
<1>3. \A f \in Fields : f \notin Switches => Defaults[f] \in Int
  BY DEF Fields, Defaults, Switches
<1> QED BY <1>1, <1>2, <1>3 DEF IsConfig

(* Setting one field.                                                       *)
LEMMA SetOne ==
    ASSUME NEW s, IsConfig(s), NEW f \in Fields,
           NEW v \in IF f \in Switches THEN BOOLEAN ELSE Int
    PROVE  /\ IsConfig([s EXCEPT ![f] = v])
           /\ \A g \in Fields : [s EXCEPT ![f] = v][g] = IF g = f THEN v ELSE s[g]
BY DEF IsConfig

(* An option sets what it says something of.                                *)
LEMMA OptionSets ==
    ASSUME NEW s, IsConfig(s), NEW o \in Options
    PROVE  /\ IsConfig(WithOption(s, o))
           /\ \A f \in Fields :
                WithOption(s, o)[f] = IF Says(o, f) THEN Said(o, f) ELSE s[f]
<1>0. o.val \in Int
  BY DEF Options
<1>1. CASE o.opt \notin DOMAIN OptionField
  <2>1. o.opt # "B"
    BY <1>1 DEF OptionField
  <2> QED BY <1>1, <2>1 DEF WithOption, Says
<1>2. CASE o.opt \in DOMAIN OptionField
  <2> DEFINE field == OptionField[o.opt]
             set == [s EXCEPT ![field] = Converted(field, o.val)]
  <2>1. field \in Fields /\ field # "enabled"
    BY <1>2, FieldNames
  <2> HIDE DEF field
  <2>2. Converted(field, o.val) \in IF field \in Switches THEN BOOLEAN ELSE Int
    BY <1>0, <2>1, ConvertedTypes
  <2>3. /\ IsConfig(set)
        /\ \A g \in Fields : set[g] = IF g = field THEN Converted(field, o.val) ELSE s[g]
    BY <2>1, <2>2, SetOne
  <2> HIDE DEF set
  <2>4. WithOption(s, o) = IF o.opt = "B" THEN [set EXCEPT !["enabled"] = TRUE] ELSE set
    BY <1>2 DEF WithOption, set, field
  <2>5. \A f \in Fields : Says(o, f) <=> (f = field \/ (o.opt = "B" /\ f = "enabled"))
    BY <1>2 DEF Says, field
  <2>6. \A f \in Fields : Said(o, f) = IF f = "enabled" THEN TRUE ELSE Converted(f, o.val)
    BY DEF Said
  <2>7. CASE o.opt # "B"
    BY <2>1, <2>3, <2>4, <2>5, <2>6, <2>7
  <2>8. CASE o.opt = "B"
    <3>1. "enabled" \in Switches /\ "enabled" \in Fields
      BY FieldNames DEF Switches
    <3>2. /\ IsConfig([set EXCEPT !["enabled"] = TRUE])
          /\ \A g \in Fields : [set EXCEPT !["enabled"] = TRUE][g]
                                = IF g = "enabled" THEN TRUE ELSE set[g]
      BY <2>3, <3>1, SetOne
    <3> QED BY <2>1, <2>3, <2>4, <2>5, <2>6, <2>8, <3>2
  <2> QED BY <2>7, <2>8
<1> QED BY <1>1, <1>2

-----------------------------------------------------------------------------
(* What is said last, when one more option or line has been read.           *)
LEMMA NothingRead == ASSUME NEW f PROVE LastSaid(f, Defaults[f], 0, 0)
BY DEF LastSaid

LEMMA OptionSaid ==
    ASSUME NEW f, NEW v, NEW m, NEW n \in Nat
    PROVE  /\ Says(input.args[n + 1], f)
                => LastSaid(f, Said(input.args[n + 1], f), m, n + 1)
           /\ ~Says(input.args[n + 1], f) /\ LastSaid(f, v, m, n)
                => LastSaid(f, v, m, n + 1)
<1>1. /\ \A i : i \in 1..(n + 1) <=> i \in 1..n \/ i = n + 1
      /\ \A i \in 1..n : \A j : j \in (i + 1)..(n + 1) <=> j \in (i + 1)..n \/ j = n + 1
      /\ \A j : j \notin (n + 1 + 1)..(n + 1)
      /\ n + 1 \in 1..(n + 1)
  OBVIOUS
<1>2. ASSUME Says(input.args[n + 1], f)
      PROVE  LastSaid(f, Said(input.args[n + 1], f), m, n + 1)
  BY <1>1, <1>2 DEF LastSaid
<1>3. ASSUME ~Says(input.args[n + 1], f), LastSaid(f, v, m, n)
      PROVE  LastSaid(f, v, m, n + 1)
  <2>1. CASE \E i \in 1..n : /\ Says(input.args[i], f) /\ v = Said(input.args[i], f)
                             /\ \A j \in (i + 1)..n : ~Says(input.args[j], f)
    BY <1>1, <1>3, <2>1 DEF LastSaid
  <2>2. CASE \A i \in 1..n : ~Says(input.args[i], f)
    BY <1>1, <1>3, <2>2 DEF LastSaid
  <2> QED BY <1>3, <2>1, <2>2 DEF LastSaid
<1> QED BY <1>2, <1>3

LEMMA LineSaid ==
    ASSUME NEW f, NEW v, NEW m \in Nat
    PROVE  /\ FieldAt(input.lines, m + 1) = f
                => LastSaid(f, Converted(f, input.lines[m + 1].val), m + 1, 0)
           /\ FieldAt(input.lines, m + 1) # f /\ LastSaid(f, v, m, 0)
                => LastSaid(f, v, m + 1, 0)
<1>1. /\ \A i : i \in 1..(m + 1) <=> i \in 1..m \/ i = m + 1
      /\ \A i \in 1..m : \A j : j \in (i + 1)..(m + 1) <=> j \in (i + 1)..m \/ j = m + 1
      /\ \A j : j \notin (m + 1 + 1)..(m + 1)
      /\ \A i : i \notin 1..0
      /\ m + 1 \in 1..(m + 1)
  OBVIOUS
<1>2. ASSUME FieldAt(input.lines, m + 1) = f
      PROVE  LastSaid(f, Converted(f, input.lines[m + 1].val), m + 1, 0)
  BY <1>1, <1>2 DEF LastSaid
<1>3. ASSUME FieldAt(input.lines, m + 1) # f, LastSaid(f, v, m, 0)
      PROVE  LastSaid(f, v, m + 1, 0)
  <2>1. CASE \E i \in 1..m : /\ FieldAt(input.lines, i) = f
                             /\ v = Converted(f, input.lines[i].val)
                             /\ \A j \in (i + 1)..m : FieldAt(input.lines, j) # f
    BY <1>1, <1>3, <2>1 DEF LastSaid
  <2>2. CASE v = Defaults[f] /\ \A i \in 1..m : FieldAt(input.lines, i) # f
    BY <1>1, <1>3, <2>2 DEF LastSaid
  <2> QED BY <1>1, <1>3, <2>1, <2>2 DEF LastSaid
<1> QED BY <1>2, <1>3

(* What has been said does not change while the input does not.             *)
LEMMA SaidStays ==
    ASSUME NEW m, NEW n, input' = input,
           \A f \in Fields : LastSaid(f, settings'[f], m, n)
    PROVE  \A mm, nn : mm = m /\ nn = n => SettingsSay(mm, nn)'
BY DEF LastSaid, SettingsSay

-----------------------------------------------------------------------------
(* The places of main() before run().                                       *)
Early == {"args", "file", "again", "device", "pipeline", "begin", "usage",
          "failed", "killed"}

StartupInv == main \in Early /\ StartupParts

LEMMA Begins == StartupInit => StartupInv
<1> SUFFICES ASSUME StartupInit PROVE StartupInv
  OBVIOUS
<1>1. input.args \in Seq(Options) /\ input.lines \in Seq(Lines)
  BY StartupAssumption DEF StartupInit
<1>2. InputTypes
  BY <1>1, DefaultTypes DEF InputTypes, StartupInit, Reading, Configuring
<1>3. SettingsSay(0, 0)
  BY NothingRead DEF SettingsSay, StartupInit
<1>4. SettingsSoFar
  <2>1. Len(input.args) \in Nat
    BY <1>1, LenProperties
  <2>2. next = 1 /\ next - 1 = 0 /\ next <= Len(input.args) + 1
    BY <2>1 DEF StartupInit
  <2> QED BY <1>3, <2>2 DEF SettingsSoFar, StartupInit
<1> QED
  BY <1>2, <1>4 DEF StartupInv, StartupParts, StartupInit, Early, CommandLineWins, SizesGranted

LEMMA ReadOptionKeeps ==
    ASSUME StartupInv, ReadOption
    PROVE  StartupInv' /\ main' \in {"args", "usage", "killed"}
<1> DEFINE o == input.args[next]
<1>1. /\ main = "args" /\ input' = input /\ sizes' = sizes
      /\ input.args \in Seq(Options) /\ input.lines \in Seq(Lines)
      /\ next \in Nat \ {0} /\ next <= Len(input.args)
      /\ IsConfig(settings) /\ SettingsSay(0, next - 1)
  BY DEF StartupInv, StartupParts, ReadOption, InputTypes, SettingsSoFar, Reading, Configuring
<1>2. o \in Options
  <2>1. next \in 1..Len(input.args)
    BY <1>1, LenProperties
  <2> QED BY <1>1, <2>1, ElementOfSeq
<1>3. CASE Exits(o) \/ Spoils(o)
  <2>1. main' \in {"usage", "killed"}
    BY <1>3 DEF ReadOption
  <2> QED
    BY <2>1 DEF StartupInv, StartupParts, InputTypes, SettingsSoFar, CommandLineWins, SizesGranted,
                Reading, Configuring, Early
<1>4. CASE ~(Exits(o) \/ Spoils(o))
  <2>1. main' = "args" /\ next' = next + 1 /\ settings' = WithOption(settings, o)
    BY <1>1, <1>4 DEF ReadOption
  <2>2. IsConfig(settings')
    BY <1>1, <1>2, <2>1, OptionSets
  <2>3. PICK n \in Nat : n = next - 1 /\ next = n + 1
    BY <1>1
  <2>4. \A f \in Fields : LastSaid(f, settings'[f], 0, n + 1)
    <3> TAKE f \in Fields
    <3>1. settings'[f] = IF Says(o, f) THEN Said(o, f) ELSE settings[f]
      BY <1>1, <1>2, <2>1, OptionSets
    <3>2. LastSaid(f, settings[f], 0, n)
      BY <1>1, <2>3 DEF SettingsSay
    <3> HIDE DEF o
    <3>3. o = input.args[n + 1]
      BY <2>3 DEF o
    <3> QED BY <3>1, <3>2, <3>3, OptionSaid
  <2>5. next' - 1 = n + 1 /\ next' <= Len(input'.args) + 1 /\ next' \in Nat \ {0}
    <3> DEFINE l == Len(input.args)
    <3>1. l \in Nat /\ Len(input'.args) = l /\ next <= l
      BY <1>1, LenProperties
    <3> HIDE DEF l
    <3>2. n \in Nat /\ next = n + 1 /\ next' = n + 1 + 1
      BY <2>1, <2>3
    <3> QED BY <3>1, <3>2
  <2>6. SettingsSay(0, next - 1)'
    BY <1>1, <2>4, <2>5, SaidStays
  <2> QED
    BY <1>1, <2>1, <2>2, <2>5, <2>6
    DEF StartupInv, StartupParts, InputTypes, SettingsSoFar, CommandLineWins, SizesGranted,
        Reading, Configuring, Early
<1> QED BY <1>3, <1>4

LEMMA OptionsReadKeeps ==
    ASSUME StartupInv, OptionsRead
    PROVE  StartupInv' /\ main' \in {"file", "device"}
<1>1. /\ main = "args" /\ input' = input /\ sizes' = sizes /\ next' = 1
      /\ input.args \in Seq(Options) /\ input.lines \in Seq(Lines)
      /\ next \in Nat \ {0} /\ next <= Len(input.args) + 1 /\ next > Len(input.args)
      /\ IsConfig(settings) /\ SettingsSay(0, next - 1)
  BY DEF StartupInv, StartupParts, OptionsRead, InputTypes, SettingsSoFar, Reading, Configuring
<1>2. Len(input.args) \in Nat /\ Len(input.lines) \in Nat
  BY <1>1, LenProperties
<1>3. CASE HasFile(input.args)
  <2>1. main' = "file" /\ settings' = Defaults
    BY <1>3 DEF OptionsRead
  <2>2. \A f \in Fields : LastSaid(f, settings'[f], 0, 0)
    BY <2>1, NothingRead
  <2>3. next' - 1 = 0 /\ next' <= Len(input'.lines) + 1 /\ next' \in Nat \ {0}
    BY <1>1, <1>2
  <2>4. SettingsSay(next - 1, 0)'
    BY <1>1, <2>2, <2>3, SaidStays
  <2>5. HasFile(input.args)'
    BY <1>1, <1>3 DEF HasFile
  <2> QED
    BY <1>1, <2>1, <2>3, <2>4, <2>5, DefaultTypes
    DEF StartupInv, StartupParts, InputTypes, SettingsSoFar, CommandLineWins, SizesGranted,
        Reading, Configuring, Early
<1>4. CASE ~HasFile(input.args)
  <2>1. main' = "device" /\ settings' = settings
    BY <1>4 DEF OptionsRead
  <2>2. next - 1 = Len(input.args)
    BY <1>1, <1>2
  <2>3. \A f \in Fields : LastSaid(f, settings'[f], 0, Len(input.args))
    BY <1>1, <2>1, <2>2 DEF SettingsSay
  <2>4. ~HasFile(input.args)'
    BY <1>1, <1>4 DEF HasFile
  <2>5. CommandLineWins'
    BY <1>1, <2>3, <2>4 DEF CommandLineWins, LastSaid, Fields
  <2> QED
    BY <1>1, <2>1, <2>5
    DEF StartupInv, StartupParts, InputTypes, SettingsSoFar, SizesGranted,
        Reading, Configuring, Early
<1> QED BY <1>3, <1>4

LEMMA ReadLineKeeps ==
    ASSUME StartupInv, ReadLine
    PROVE  StartupInv' /\ main' \in {"file", "killed"}
<1> DEFINE line  == input.lines[next]
           field == FieldAt(input.lines, next)
<1>1. /\ main = "file" /\ input' = input /\ sizes' = sizes
      /\ input.args \in Seq(Options) /\ input.lines \in Seq(Lines)
      /\ next \in Nat \ {0} /\ next <= Len(input.lines)
      /\ IsConfig(settings) /\ SettingsSay(next - 1, 0) /\ HasFile(input.args)
  BY DEF StartupInv, StartupParts, ReadLine, InputTypes, SettingsSoFar, Reading, Configuring
<1>2. field # "" => line.val \in Int
  <2>1. line \in Lines
    <3>1. next \in 1..Len(input.lines)
      BY <1>1, LenProperties
    <3> QED BY <1>1, <3>1, ElementOfSeq
  <2>2. field # "" => "key" \in DOMAIN line
    BY DEF FieldAt, IsHeader
  <2> QED BY <2>1, <2>2 DEF Lines
<1>3. HasFile(input.args)'
  BY <1>1 DEF HasFile
<1>4. CASE field # "" /\ Throws(field, line.val)
  <2>1. main' = "killed"
    BY <1>4 DEF ReadLine
  <2> QED
    BY <2>1 DEF StartupInv, StartupParts, InputTypes, SettingsSoFar, CommandLineWins, SizesGranted,
                Reading, Configuring, Early
<1>5. CASE ~(field # "" /\ Throws(field, line.val))
  <2>1. /\ main' = "file" /\ next' = next + 1
        /\ settings' = IF field = "" THEN settings
                       ELSE [settings EXCEPT ![field] = Converted(field, line.val)]
    BY <1>1, <1>5 DEF ReadLine
  <2>2. field # "" => field \in Fields
    BY FieldOfLine
  <2>3. PICK m \in Nat : m = next - 1 /\ next = m + 1
    BY <1>1
  <2> HIDE DEF field, line
  <2>4. /\ IsConfig(settings')
        /\ \A f \in Fields : settings'[f] = IF f = field THEN Converted(f, line.val)
                                            ELSE settings[f]
    <3>1. CASE field = ""
      BY <1>1, <2>1, <3>1, FieldNames
    <3>2. CASE field # ""
      <4>1. Converted(field, line.val) \in IF field \in Switches THEN BOOLEAN ELSE Int
        BY <1>2, <2>2, <3>2, ConvertedTypes
      <4> DEFINE v == Converted(field, line.val)
      <4>2. settings' = [settings EXCEPT ![field] = v] /\ field \in Fields
        BY <2>1, <2>2, <3>2
      <4>3. v \in IF field \in Switches THEN BOOLEAN ELSE Int
        BY <4>1
      <4>4. \A f \in Fields : f = field => v = Converted(f, line.val)
        OBVIOUS
      <4> HIDE DEF v
      <4>5. PICK s : s = settings
        OBVIOUS
      <4>6. IsConfig(s)
        BY <1>1, <4>5
      <4>7. /\ IsConfig([s EXCEPT ![field] = v])
            /\ \A f \in Fields : [s EXCEPT ![field] = v][f]
                                  = IF f = field THEN v ELSE s[f]
        BY <4>2, <4>3, <4>6, SetOne
      <4> QED BY <4>2, <4>4, <4>5, <4>7
    <3> QED BY <3>1, <3>2
  <2>5. \A f \in Fields : LastSaid(f, settings'[f], m + 1, 0)
    <3> TAKE f \in Fields
    <3>1. LastSaid(f, settings[f], m, 0)
      BY <1>1, <2>3 DEF SettingsSay
    <3>2. field = FieldAt(input.lines, m + 1) /\ line = input.lines[m + 1]
      BY <2>3 DEF field, line
    <3> QED BY <2>4, <3>1, <3>2, LineSaid
  <2>6. next' - 1 = m + 1 /\ next' <= Len(input'.lines) + 1 /\ next' \in Nat \ {0}
    <3>1. PICK length \in Nat : length = Len(input.lines)
      BY <1>1, LenProperties
    <3>2. next' = next + 1 /\ next <= length
      BY <1>1, <2>1, <3>1
    <3>3. next' = m + 2 /\ m + 1 <= length
      BY <2>3, <3>1, <3>2
    <3> QED BY <1>1, <3>1, <3>3
  <2>7. SettingsSay(next - 1, 0)'
    BY <1>1, <2>5, <2>6, SaidStays
  <2> QED
    BY <1>1, <1>3, <2>1, <2>4, <2>6, <2>7
    DEF StartupInv, StartupParts, InputTypes, SettingsSoFar, CommandLineWins, SizesGranted,
        Reading, Configuring, Early
<1> QED BY <1>4, <1>5

LEMMA LinesReadKeeps ==
    ASSUME StartupInv, LinesRead
    PROVE  StartupInv' /\ main' = "again"
<1>1. /\ main = "file" /\ input' = input /\ sizes' = sizes /\ next' = 1
      /\ settings' = settings /\ main' = "again"
      /\ input.args \in Seq(Options) /\ input.lines \in Seq(Lines)
      /\ next \in Nat \ {0} /\ next <= Len(input.lines) + 1 /\ next > Len(input.lines)
      /\ IsConfig(settings) /\ SettingsSay(next - 1, 0) /\ HasFile(input.args)
  BY DEF StartupInv, StartupParts, LinesRead, InputTypes, SettingsSoFar, Reading, Configuring
<1>2. Len(input.args) \in Nat /\ Len(input.lines) \in Nat
  BY <1>1, LenProperties
<1>3. next - 1 = Len(input.lines)
  BY <1>1, <1>2
<1>4. \A f \in Fields : LastSaid(f, settings'[f], Len(input.lines), 0)
  BY <1>1, <1>3 DEF SettingsSay
<1>5. next' - 1 = 0 /\ next' <= Len(input'.args) + 1 /\ next' \in Nat \ {0}
  BY <1>1, <1>2
<1>6. SettingsSay(Len(input.lines), next - 1)'
  <2>1. Len(input.lines)' = Len(input.lines)
    BY <1>1
  <2> QED BY <1>1, <1>4, <1>5, <2>1, SaidStays
<1>7. HasFile(input.args)'
  BY <1>1 DEF HasFile
<1> QED
  BY <1>1, <1>5, <1>6, <1>7
  DEF StartupInv, StartupParts, InputTypes, SettingsSoFar, CommandLineWins, SizesGranted,
      Reading, Configuring, Early

LEMMA ReadAgainKeeps ==
    ASSUME StartupInv, ReadAgain
    PROVE  StartupInv' /\ main' \in {"again", "device"}
<1> DEFINE o == input.args[next]
<1>1. /\ main = "again" /\ input' = input /\ sizes' = sizes
      /\ input.args \in Seq(Options) /\ input.lines \in Seq(Lines)
      /\ next \in Nat \ {0} /\ next <= Len(input.args) + 1
      /\ IsConfig(settings) /\ SettingsSay(Len(input.lines), next - 1)
      /\ HasFile(input.args)
  BY DEF StartupInv, StartupParts, ReadAgain, InputTypes, SettingsSoFar, Reading, Configuring
<1>2. PICK length \in Nat : length = Len(input.args)
  BY <1>1, LenProperties
<1>3. PICK m : m = Len(input.lines)
  OBVIOUS
<1>4. PICK n \in Nat : n = next - 1 /\ next = n + 1
  BY <1>1
<1>5. HasFile(input.args)' /\ Len(input.lines)' = m /\ Len(input.args)' = length
  BY <1>1, <1>2, <1>3 DEF HasFile
<1>6. CASE next <= Len(input.args)
  <2>1. o \in Options
    <3>1. next \in 1..Len(input.args)
      BY <1>1, <1>6, <1>2
    <3> QED BY <1>1, <3>1, ElementOfSeq
  <2>2. main' = "again" /\ next' = next + 1 /\ settings' = WithOption(settings, o)
    BY <1>1, <1>6 DEF ReadAgain
  <2>3. IsConfig(settings')
    BY <1>1, <2>1, <2>2, OptionSets
  <2>4. \A f \in Fields : LastSaid(f, settings'[f], m, n + 1)
    <3> TAKE f \in Fields
    <3>1. settings'[f] = IF Says(o, f) THEN Said(o, f) ELSE settings[f]
      BY <1>1, <2>1, <2>2, OptionSets
    <3>2. LastSaid(f, settings[f], m, n)
      BY <1>1, <1>3, <1>4 DEF SettingsSay
    <3> HIDE DEF o
    <3>3. o = input.args[n + 1]
      BY <1>4 DEF o
    <3> QED BY <3>1, <3>2, <3>3, OptionSaid
  <2>5. next' - 1 = n + 1 /\ next' <= length + 1 /\ next' \in Nat \ {0}
    <3>1. next' = n + 2 /\ n + 1 <= length
      BY <1>2, <1>4, <1>6, <2>2
    <3> QED BY <3>1, <1>2
  <2>6. SettingsSay(Len(input.lines), next - 1)'
    BY <1>1, <1>5, <2>4, <2>5, SaidStays
  <2> QED
    BY <1>1, <1>5, <2>2, <2>3, <2>5, <2>6
    DEF StartupInv, StartupParts, InputTypes, SettingsSoFar, CommandLineWins, SizesGranted,
        Reading, Configuring, Early
<1>7. CASE ~(next <= Len(input.args))
  <2>1. main' = "device" /\ next' = 1 /\ settings' = settings
    BY <1>1, <1>7 DEF ReadAgain
  <2>2. next - 1 = Len(input.args)
    BY <1>1, <1>2, <1>7
  <2>3. \A f \in Fields : LastSaid(f, settings'[f], Len(input.lines), Len(input.args))
    BY <1>1, <2>1, <2>2 DEF SettingsSay
  <2>4. CommandLineWins'
    BY <1>1, <1>5, <2>3 DEF CommandLineWins, LastSaid, Fields
  <2> QED
    BY <1>1, <2>1, <2>4
    DEF StartupInv, StartupParts, InputTypes, SettingsSoFar, SizesGranted,
        Reading, Configuring, Early
<1> QED BY <1>6, <1>7

(* The device and the pipeline.                                             *)
LEMMA NumberFields == /\ {"period_size", "channels", "bits_per_sample"} \subseteq Fields
                      /\ {"period_size", "channels", "bits_per_sample"} \cap Switches = {}
BY DEF Fields, Defaults, Switches

LEMMA OpenDeviceKeeps ==
    ASSUME StartupInv, OpenDevice
    PROVE  StartupInv' /\ main' = "pipeline" /\ settings' = settings
<1>1. main = "device" /\ main' = "pipeline" /\ settings' = settings /\ IsConfig(settings)
  BY DEF StartupInv, StartupParts, OpenDevice, InputTypes, Configuring
<1>2. settings.period_size \in Int
  BY <1>1, NumberFields DEF IsConfig
<1>3. PICK rate \in DeviceMisses, period \in DeviceMisses :
        LET granted == settings.period_size + period
        IN sizes' = [rate |-> settings.sample_rate + rate,
                     period |-> granted,
                     readi |-> granted * settings.channels * Bytes]
  BY DEF OpenDevice
<1>4. PICK granted \in Int : granted = settings.period_size + period
  BY <1>2, StartupAssumption
<1>5. /\ sizes'.period = granted
      /\ sizes'.readi = granted * settings.channels * Bytes
  BY <1>3, <1>4
<1>6. Bytes' = Bytes /\ settings'.channels = settings.channels
  BY <1>1 DEF Bytes
<1>7. SizesGranted'
  BY <1>1, <1>5, <1>6 DEF SizesGranted
<1> QED
  BY <1>1, <1>7 DEF StartupInv, StartupParts, InputTypes, SettingsSoFar, CommandLineWins,
                    Reading, Configuring, Early

LEMMA InitializePipelineKeeps ==
    ASSUME StartupInv, InitializePipeline
    PROVE  StartupInv' /\ main' = "begin" /\ settings' = settings
<1>1. /\ main = "pipeline" /\ main' = "begin" /\ settings' = settings
      /\ IsConfig(settings) /\ sizes.period \in Int
      /\ sizes.readi = sizes.period * settings.channels * Bytes
  BY DEF StartupInv, StartupParts, InitializePipeline, InputTypes, Configuring, SizesGranted
<1>2. /\ sizes'.period = sizes.period /\ sizes'.readi = sizes.readi
      /\ OutChannels < settings.channels => sizes'.mono = sizes.period * Bytes
      /\ settings.enable_sample_sharing =>
            sizes'.shm = sizes.period * OutChannels * Bytes
  BY DEF InitializePipeline
<1>3. Bytes' = Bytes /\ OutChannels' = OutChannels
  BY <1>1 DEF Bytes, OutChannels
<1>4. SizesGranted'
  BY <1>1, <1>2, <1>3 DEF SizesGranted
<1> QED
  BY <1>1, <1>4 DEF StartupInv, StartupParts, InputTypes, SettingsSoFar, CommandLineWins,
                    Reading, Configuring, Early

(* Daemon::initialize() keeps the settings complete or ends.                *)
LEMMA InitializeKeeps ==
    ASSUME StartupInv, Initialize
    PROVE  /\ StartupInv'
           /\ main \notin {"begin", "usage", "failed", "killed"}
           /\ Configuring' \/ settings' = settings
           /\ main' = "begin" => settings' = settings
<1>1. CASE ReadOption
  <2>1. main' = "args" \/ settings' = settings
    BY <1>1 DEF ReadOption
  <2> QED
    BY <1>1, <2>1, ReadOptionKeeps DEF ReadOption, Configuring, Reading
<1>2. CASE OptionsRead
  BY <1>2, OptionsReadKeeps DEF OptionsRead, Configuring, Reading
<1>3. CASE ReadLine
  <2>1. main' = "file" \/ settings' = settings
    BY <1>3 DEF ReadLine
  <2> QED
    BY <1>3, <2>1, ReadLineKeeps DEF ReadLine, Configuring, Reading
<1>4. CASE LinesRead
  BY <1>4, LinesReadKeeps DEF LinesRead, Configuring, Reading
<1>5. CASE ReadAgain
  BY <1>5, ReadAgainKeeps DEF ReadAgain, Configuring, Reading
<1>6. CASE OpenDevice
  BY <1>6, OpenDeviceKeeps DEF OpenDevice, Configuring, Reading
<1>7. CASE InitializePipeline
  BY <1>7, InitializePipelineKeeps DEF InitializePipeline, Configuring, Reading
<1>8. CASE DeviceFailsToOpen \/ PipelineFailsToInitialize
  BY <1>8 DEF DeviceFailsToOpen, PipelineFailsToInitialize, startupVars, StartupInv, StartupParts,
              InputTypes, SettingsSoFar, CommandLineWins, SizesGranted, Reading,
              Configuring, Early
<1> QED BY <1>1, <1>2, <1>3, <1>4, <1>5, <1>6, <1>7, <1>8 DEF Initialize

-----------------------------------------------------------------------------
(* Outside of Startup its variables matter no more, or do not change.       *)
LEMMA StartupOver ==
    ASSUME main' \notin {"args", "file", "again", "device", "pipeline", "begin"}
    PROVE  StartupParts'
BY DEF StartupParts, InputTypes, SettingsSoFar, CommandLineWins, SizesGranted,
       Reading, Configuring

LEMMA StartupStands ==
    ASSUME StartupParts, UNCHANGED <<main, startupVars>>
    PROVE  StartupParts'
<1>1. main' = main /\ input' = input /\ next' = next /\ settings' = settings
      /\ sizes' = sizes
  BY DEF startupVars
<1>2. InputTypes'
  BY <1>1 DEF StartupParts, InputTypes, Reading, Configuring
<1>3. SettingsSoFar'
  BY <1>1 DEF StartupParts, SettingsSoFar, SettingsSay, LastSaid, HasFile
<1>4. CommandLineWins'
  BY <1>1 DEF StartupParts, CommandLineWins, LastSaid, HasFile
<1>5. SizesGranted'
  BY <1>1 DEF StartupParts, SizesGranted, Bytes, OutChannels
<1> QED BY <1>2, <1>3, <1>4, <1>5 DEF StartupParts

LEMMA InitIInv == Init => IInv
<1> SUFFICES ASSUME Init PROVE IInv
  OBVIOUS
<1>1. StartupParts
  BY Begins DEF Init, StartupInv
<1>2. /\ main = "args" /\ up = {} /\ signals = 0 /\ lateSignal = FALSE
      /\ capture = "none" /\ control = "none" /\ pending = 0
  BY DEF Init, StartupInit, ControlInit
<1>3. settings.enabled \in BOOLEAN /\ settings.enable_sample_sharing \in BOOLEAN
  BY DefaultTypes, FieldNames DEF IsConfig, Switches, Init, StartupInit
<1>4. ControlTypes
  BY DEF Init, ControlInit, ControlTypes
<1>5. signals \in 0..MaxSignals /\ pending <= MaxPending
  BY <1>2, DaemonAssumption
<1>6. TypeOK
  BY <1>2, <1>3, <1>4, <1>5 DEF TypeOK
<1>7. PartsInPlace
  BY <1>2 DEF PartsInPlace, Capturing, Recording, Sharing, Handling
<1> QED BY <1>1, <1>6, <1>7 DEF IInv

(* Daemon::initialize(): the segment is there when it is to be.             *)
LEMMA BeginKeeps == ASSUME IInv, Begin, UNCHANGED signalVars PROVE IInv'
<1>1. StartupInv' /\ main \notin {"begin", "usage", "failed", "killed"} /\ main \in Early
  <2>1. main \in Early
    BY DEF Begin, Initialize, ReadOption, OptionsRead, ReadLine, LinesRead, ReadAgain,
           OpenDevice, DeviceFailsToOpen, InitializePipeline,
           PipelineFailsToInitialize, Early
  <2> QED BY <2>1, InitializeKeeps DEF IInv, StartupInv, Begin
<1>2. /\ Configuring' \/ settings' = settings
      /\ main' = "begin" => settings' = settings
  BY <1>1, InitializeKeeps DEF IInv, StartupInv, Begin
<1>3. settings'.enabled \in BOOLEAN /\ settings'.enable_sample_sharing \in BOOLEAN
  <2>1. CASE Configuring'
    <3>1. IsConfig(settings')
      BY <1>1, <2>1 DEF StartupInv, StartupParts, InputTypes, Configuring, Reading
    <3> QED BY <3>1, FieldNames DEF IsConfig, Switches
  <2> QED BY <1>2, <2>1 DEF IInv, TypeOK
<1>4. main' \in Early /\ UNCHANGED <<capture, clipVars, controlVars, signalVars>>
  BY <1>1 DEF StartupInv, Begin, threadVars
<1>5. up' \subseteq Flags
  BY DEF Begin, IInv, TypeOK, Flags
<1>6. TypeOK'
  <2>1. main' \in Early /\ lateSignal' \in BOOLEAN /\ signals' \in 0..MaxSignals
    BY <1>1, <1>4 DEF IInv, TypeOK, signalVars
  <2>2. /\ ControlTypes' /\ pending' <= MaxPending /\ capture' = capture
    BY <1>4 DEF IInv, TypeOK, ControlTypes, clipVars, controlVars
  <2>3. capture' \in {"none", "check", "readi", "ring", "block", "shm", "exited"}
    BY <2>2 DEF IInv, TypeOK
  <2> QED BY <1>3, <1>5, <2>1, <2>2, <2>3 DEF TypeOK, Early
<1>7. PartsInPlace'
  <2>1. capture' \in {"none", "exited"}
    BY <1>1, <1>4 DEF IInv, PartsInPlace, Early, Capturing
  <2>2. main' = "begin" /\ settings'.enable_sample_sharing => "shm" \in up'
    BY <1>2 DEF Begin
  <2> QED
    BY <1>4, <2>1, <2>2
    DEF PartsInPlace, Early, Capturing, Recording, Sharing, Handling
<1> QED BY <1>1, <1>6, <1>7 DEF IInv, StartupInv

(* What TypeOK says of the threads and the signals.                         *)
ThreadTypes ==
    /\ lateSignal \in BOOLEAN /\ signals \in 0..MaxSignals
    /\ capture \in {"none", "check", "readi", "ring", "block", "shm", "exited"}
    /\ ControlTypes /\ pending <= MaxPending

LEMMA ThreadsStand ==
    ASSUME ThreadTypes, UNCHANGED <<signalVars, threadVars>>
    PROVE  ThreadTypes'
BY DEF ThreadTypes, ControlTypes, signalVars, threadVars, controlVars, clipVars

LEMMA InstallKeeps == ASSUME IInv, InstallHandlers, UNCHANGED signalVars PROVE IInv'
<1>1. /\ main = "begin" /\ main' = "socket" /\ up' = up \cup {"handlers"}
      /\ UNCHANGED threadVars
      /\ settings'.enabled = settings.enabled
      /\ settings'.enable_sample_sharing = settings.enable_sample_sharing
  BY DEF InstallHandlers, From, Set, Forget
<1>2. capture' \in {"none", "exited"} /\ UNCHANGED <<pending, control>>
  BY <1>1 DEF IInv, PartsInPlace, Capturing, TypeOK, threadVars, clipVars, controlVars
<1>3. StartupParts'
  BY <1>1, StartupOver
<1>4. TypeOK'
  <2>1. ThreadTypes'
    BY <1>1, ThreadsStand DEF IInv, TypeOK, ThreadTypes
  <2>2. up' \subseteq Flags
    BY <1>1 DEF IInv, TypeOK, Flags
  <2>3. settings'.enabled \in BOOLEAN /\ settings'.enable_sample_sharing \in BOOLEAN
    BY <1>1 DEF IInv, TypeOK
  <2> QED BY <1>1, <2>1, <2>2, <2>3 DEF TypeOK, ThreadTypes
<1>5. PartsInPlace'
  BY <1>1, <1>2 DEF IInv, PartsInPlace, Capturing, Recording, Sharing, Handling
<1> QED BY <1>3, <1>4, <1>5 DEF IInv

(* Daemon::run(): no part goes before the capture thread is joined.         *)
LEMMA RunKeeps == ASSUME IInv, Run, UNCHANGED startupVars, UNCHANGED signalVars PROVE IInv'
<1> DEFINE Places == {"socket", "startClips", "startRecorder", "startCapture",
                      "started", "up", "wait", "stopCapture", "joinCapture",
                      "stopClips", "joinClips", "stopRecorder", "cleanup",
                      "stopSocket", "joinSocket", "failed", "exited"}
<1>1. /\ main' \in Places /\ up' \subseteq Flags
      /\ capture' = capture \/ (capture' = "check" /\ main' = "started")
      /\ pending' = pending
      /\ control' = control \/ (control = "none" /\ control' = "accept")
      /\ running' \in BOOLEAN /\ listening' \in BOOLEAN
      /\ worker' = worker \/ worker' = "up"
  <2> USE DEF IInv, TypeOK, From, Set, Clear, Flags, threadVars, controlVars, clipVars,
              ControlTypes
  <2>1. CASE Listen \/ Unlisten
    BY <2>1 DEF Listen, Unlisten, StartSocket, StopSocket
  <2>2. CASE StartClips \/ StopClips
    BY <2>2 DEF StartClips, StopClips, Clips!Start, Clips!Stop
  <2>3. CASE StartCapture
    BY <2>3 DEF StartCapture
  <2>4. CASE SocketFails \/ StartRecorder \/ PipelineStarted \/ SetRunning
    BY <2>4 DEF SocketFails, StartRecorder, PipelineStarted, SetRunning
  <2>5. CASE StopPipeline \/ StopCapture \/ JoinCapture \/ JoinClips
    BY <2>5 DEF StopPipeline, StopCapture, JoinCapture, JoinClips
  <2>6. CASE StopRecorder \/ Cleanup \/ JoinSocket
    BY <2>6 DEF StopRecorder, Cleanup, JoinSocket
  <2> QED BY <2>1, <2>2, <2>3, <2>4, <2>5, <2>6 DEF Run
<1>2. StartupParts'
  BY <1>1, StartupOver
<1>3. settings' = settings
  BY DEF startupVars
<1>4. TypeOK'
  <2>1. ControlTypes'
    BY <1>1 DEF IInv, TypeOK, ControlTypes
  <2>2. capture' \in {"none", "check", "readi", "ring", "block", "shm", "exited"}
    BY <1>1 DEF IInv, TypeOK
  <2>3. pending' <= MaxPending
    BY <1>1 DEF IInv, TypeOK
  <2>4. lateSignal' \in BOOLEAN /\ signals' \in 0..MaxSignals
    BY DEF IInv, TypeOK, signalVars
  <2>5. settings'.enabled \in BOOLEAN /\ settings'.enable_sample_sharing \in BOOLEAN
    BY <1>3 DEF IInv, TypeOK
  <2> QED BY <1>1, <2>1, <2>2, <2>3, <2>4, <2>5 DEF TypeOK
<1>5. PartsInPlace'
  <2>0. PartsInPlace
    BY DEF IInv
  <2> USE DEF PartsInPlace, Capturing, Recording, Sharing, Handling, From, Set, Clear,
              threadVars
  <2>1. CASE Listen
    BY <1>3, <2>0, <2>1 DEF Listen
  <2>2. CASE SocketFails
    BY <1>3, <2>0, <2>2 DEF SocketFails
  <2>3. CASE StartClips
    BY <1>3, <2>0, <2>3 DEF StartClips
  <2>4. CASE StartRecorder
    BY <1>3, <2>0, <2>4 DEF StartRecorder
  <2>5. CASE StartCapture
    BY <1>3, <2>0, <2>5 DEF StartCapture
  <2>6. CASE PipelineStarted
    BY <1>3, <2>0, <2>6 DEF PipelineStarted
  <2>7. CASE SetRunning
    BY <1>3, <2>0, <2>7 DEF SetRunning
  <2>8. CASE StopPipeline
    BY <1>3, <2>0, <2>8 DEF StopPipeline
  <2>9. CASE StopCapture
    BY <1>3, <2>0, <2>9 DEF StopCapture
  <2>10. CASE JoinCapture
    BY <1>3, <2>0, <2>10 DEF JoinCapture
  <2>11. CASE StopClips
    BY <1>3, <2>0, <2>11 DEF StopClips
  <2>12. CASE JoinClips
    BY <1>3, <2>0, <2>12 DEF JoinClips
  <2>13. CASE StopRecorder
    BY <1>3, <2>0, <2>13 DEF StopRecorder
  <2>14. CASE Cleanup
    BY <1>3, <2>0, <2>14 DEF Cleanup
  <2>15. CASE Unlisten
    BY <1>3, <2>0, <2>15 DEF Unlisten
  <2>16. CASE JoinSocket
    BY <1>3, <2>0, <2>16 DEF JoinSocket
  <2> QED
    BY <2>1, <2>2, <2>3, <2>4, <2>5, <2>6, <2>7, <2>8,
       <2>9, <2>10, <2>11, <2>12, <2>13, <2>14, <2>15, <2>16 DEF Run
<1> QED BY <1>2, <1>4, <1>5 DEF IInv

(* A signal before the handlers are there ends everything; no thread runs.  *)
LEMMA SignalKeeps == ASSUME IInv, Signal PROVE IInv'
<1>1. /\ signals < MaxSignals /\ signals' = signals + 1
      /\ lateSignal' = (lateSignal \/ main = "wait")
      /\ UNCHANGED <<startupVars, threadVars>>
      /\ \/ "handlers" \in up /\ up' = up \ {"daemon"} /\ main' = main
         \/ "handlers" \notin up /\ up' = up /\ main' = "killed"
  BY DEF Signal, Clear
<1>2. signals' \in 0..MaxSignals /\ lateSignal' \in BOOLEAN
  <2>1. signals' \in 0..MaxSignals
    BY <1>1, DaemonAssumption DEF IInv, TypeOK
  <2>2. lateSignal' \in BOOLEAN
    BY <1>1, Zenon DEF IInv, TypeOK
  <2> QED BY <2>1, <2>2
<1>3. settings' = settings /\ capture' = capture /\ UNCHANGED <<pending, control>>
  BY <1>1 DEF startupVars, threadVars, clipVars, controlVars
<1>4. StartupParts'
  <2>1. CASE main' = main
    BY <1>1, <2>1, StartupStands DEF IInv
  <2>2. CASE main' = "killed"
    BY <2>2, StartupOver
  <2> QED BY <1>1, <2>1, <2>2
<1>5. TypeOK'
  <2>1. ControlTypes'
    BY <1>1 DEF IInv, TypeOK, ControlTypes, threadVars, clipVars, controlVars
  <2>2. main' = main \/ main' = "killed"
    BY <1>1
  <2>3. up' \subseteq Flags
    BY <1>1 DEF IInv, TypeOK
  <2> QED BY <1>2, <1>3, <2>1, <2>2, <2>3 DEF IInv, TypeOK
<1>6. PartsInPlace'
  BY <1>1, <1>3 DEF IInv, PartsInPlace, Capturing, Recording, Sharing, Handling
<1> QED BY <1>4, <1>5, <1>6 DEF IInv

LEMMA CaptureThreadKeeps == ASSUME IInv, CaptureThread PROVE IInv'
<1>1. /\ UNCHANGED <<main, startupVars, up, signalVars, clipVars, controlVars>>
      /\ capture \notin {"none", "exited"}
      /\ capture' \in {"check", "readi", "ring", "block", "shm", "exited"}
  BY DEF CaptureThread, CheckRunning, ReadPeriod, Overrun, ReadError, WriteRing, Push,
         Publish
<1>2. StartupParts'
  BY <1>1, StartupStands DEF IInv
<1>3. settings' = settings
  BY <1>1 DEF startupVars
<1>4. TypeOK'
  <2>1. ControlTypes'
    BY <1>1 DEF IInv, TypeOK, ControlTypes, clipVars, controlVars
  <2>2. pending' <= MaxPending
    BY <1>1 DEF IInv, TypeOK, clipVars, controlVars
  <2>3. lateSignal' \in BOOLEAN /\ signals' \in 0..MaxSignals
    BY <1>1 DEF IInv, TypeOK, signalVars
  <2> QED BY <1>1, <1>3, <2>1, <2>2, <2>3 DEF IInv, TypeOK
<1>5. PartsInPlace'
  BY <1>1, <1>3 DEF IInv, PartsInPlace
<1> QED BY <1>2, <1>4, <1>5 DEF IInv

(* The clip worker and the control thread: what they have between them.     *)
LEMMA ServersKeep ==
    ASSUME IInv, UNCHANGED <<main, startupVars, up, signalVars, capture>>,
           ControlTypes', pending' <= MaxPending
    PROVE  IInv'
<1>1. StartupParts'
  BY StartupStands DEF IInv
<1>2. settings' = settings
  BY DEF startupVars
<1>3. TypeOK'
  <2>1. lateSignal' \in BOOLEAN /\ signals' \in 0..MaxSignals
    BY DEF IInv, TypeOK, signalVars
  <2> QED BY <1>2, <2>1 DEF IInv, TypeOK
<1>4. PartsInPlace'
  BY <1>2 DEF IInv, PartsInPlace
<1> QED BY <1>1, <1>3, <1>4 DEF IInv

LEMMA ClipThreadKeeps == ASSUME IInv, ClipThread PROVE IInv'
<1>1. /\ UNCHANGED <<main, startupVars, up, signalVars, capture, controlVars>>
      /\ Clips!Serve \/ Clips!Leave \/ Clips!Throw
  BY DEF ClipThread, ClipStep
<1>2. ControlTypes /\ pending <= MaxPending
  BY DEF IInv, TypeOK
<1>3. ControlTypes' /\ pending' <= MaxPending
  BY <1>1, <1>2, DaemonAssumption
  DEF ControlTypes, Clips!Serve, Clips!Leave, Clips!Throw, controlVars
<1> QED BY <1>1, <1>3, ServersKeep

LEMMA ControlThreadKeeps == ASSUME IInv, AcceptOne \/ ControlThread PROVE IInv'
<1>1. ControlTypes /\ pending <= MaxPending
  BY DEF IInv, TypeOK
<1> USE DEF ControlTypes, ControlRest, Step, clipVars
<1>2. CASE AcceptOne
  <2>1. /\ UNCHANGED <<main, startupVars, up, signalVars, capture, clipVars, listening>>
        /\ control = "accept" /\ control' = "recv"
    BY <1>2 DEF AcceptOne, Accept
  <2>2. ControlTypes' /\ pending' <= MaxPending
    BY <1>1, <2>1
  <2> QED BY <2>1, <2>2, ServersKeep
<1>3. CASE ControlThread /\ ClipCommand
  <2>1. /\ UNCHANGED <<main, startupVars, up, signalVars, capture>>
        /\ control = "recv" /\ control' = "clip" /\ pending' = pending + 1
        /\ pending < MaxPending
        /\ UNCHANGED <<running, worker, listening>>
    BY <1>3 DEF ControlThread, ClipCommand, Clips!Ask
  <2>2. ControlTypes' /\ pending' <= MaxPending
    BY <1>1, <2>1, DaemonAssumption
  <2> QED BY <2>1, <2>2, ServersKeep
<1>4. CASE ControlThread /\ ~ClipCommand
  <2>1. /\ UNCHANGED <<main, startupVars, up, signalVars, capture, clipVars, listening>>
        /\ control' \in {"accept", "reply", "threw", "exited"}
    BY <1>4 DEF ControlThread, ControlStep, AcceptEnds, RecvNothing, Handle, Throw,
                ClipAnswered, Clips!Return, Reply
  <2>2. ControlTypes' /\ pending' <= MaxPending
    BY <1>1, <2>1
  <2> QED BY <2>1, <2>2, ServersKeep
<1> QED BY <1>2, <1>3, <1>4

-----------------------------------------------------------------------------
LEMMA NextIInv == IInv /\ [Next]_vars => IInv'
<1> SUFFICES ASSUME IInv, [Next]_vars PROVE IInv'
  OBVIOUS
<1>1. CASE Main
  BY <1>1, BeginKeeps, InstallKeeps, RunKeeps DEF Main
<1>2. CASE Signal
  BY <1>2, SignalKeeps
<1>3. CASE CaptureThread
  BY <1>3, CaptureThreadKeeps
<1>4. CASE ClipThread
  BY <1>4, ClipThreadKeeps
<1>5. CASE AcceptOne \/ ControlThread
  BY <1>5, ControlThreadKeeps
<1>6. CASE UNCHANGED vars
  <2>1. /\ UNCHANGED <<main, startupVars, up, signalVars, capture>>
        /\ UNCHANGED <<control, listening, running, worker, pending>>
    BY <1>6 DEF vars, threadVars, clipVars, controlVars
  <2>2. ControlTypes' /\ pending' <= MaxPending
    BY <2>1 DEF IInv, TypeOK, ControlTypes
  <2> QED BY <2>1, <2>2, ServersKeep
<1> QED BY <1>1, <1>2, <1>3, <1>4, <1>5, <1>6 DEF Next

(* IInv is inductive.                                                       *)
LEMMA Invariance == Spec => []IInv
BY InitIInv, NextIInv, PTL DEF Spec

(* Every variable holds a value of its kind, in every state of the daemon.  *)
THEOREM TypeCorrect == Spec => []TypeOK
<1>1. IInv => TypeOK
  BY DEF IInv
<1> QED BY <1>1, Invariance, PTL

(* config.cpp:167: when the device is opened, every setting is the last     *)
(* thing the command line says of it, else the file, else the default,      *)
(* whatever was asked for and wherever -c stands.                           *)
THEOREM SettingsAsSaid == Spec => []CommandLineWins
<1>1. IInv => CommandLineWins
  BY DEF IInv, StartupParts
<1> QED BY <1>1, Invariance, PTL

(* The buffers of alsa_capture.cpp:107, the downmix and the publisher hold  *)
(* a period of the size the card has granted, with 16 and 32 bits.          *)
THEOREM BuffersFit == Spec => []PeriodsFit
<1>1. ASSUME IInv, main = "begin", settings.bits_per_sample \in {16, 32}
      PROVE  Fits(HardwareBytes(settings.bits_per_sample))
  <2>1. /\ sizes.period \in Int /\ settings.channels \in Int
        /\ sizes.readi = sizes.period * settings.channels * Bytes
        /\ OutChannels < settings.channels => sizes.mono = sizes.period * Bytes
        /\ settings.enable_sample_sharing =>
              sizes.shm = sizes.period * OutChannels * Bytes
    BY <1>1, NumberFields
    DEF IInv, StartupParts, InputTypes, Configuring, IsConfig, SizesGranted
  <2>2. Bytes = HardwareBytes(settings.bits_per_sample) /\ Bytes \in Int
    BY <1>1 DEF Bytes, HardwareBytes
  <2>3. OutChannels \in Int
    BY <2>1 DEF OutChannels
  <2>4. sizes.period * settings.channels * Bytes \in Int /\ sizes.period * Bytes \in Int
        /\ sizes.period * OutChannels * Bytes \in Int
    BY <2>1, <2>2, <2>3
  <2> QED BY <2>1, <2>2, <2>4 DEF Fits
<1>2. IInv => PeriodsFit
  BY <1>1 DEF PeriodsFit
<1> QED BY <1>2, Invariance, PTL

(* on_audio_chunk() meets the recorder and the segment that were asked for: *)
(* start() makes them before it starts the capture thread, and stop() joins *)
(* that thread before it takes them away.                                   *)
THEOREM LiveParts == Spec => []CallbackMeetsLiveParts
<1>1. IInv => CallbackMeetsLiveParts
  BY DEF IInv, PartsInPlace, CallbackMeetsLiveParts, Capturing, Recording, Sharing
<1> QED BY <1>1, Invariance, PTL
=============================================================================
