------------------------------ MODULE Startup ------------------------------
(***************************************************************************)
(* From main() to Daemon::run(): the command line and the configuration     *)
(* file (src/utils/config.cpp), the negotiation with the sound card         *)
(* (AlsaCapture::initialize()) and the sizes of the buffers made from it    *)
(* (CapturePipeline::initialize()).                                         *)
(*                                                                         *)
(* A value is an integer.  One stands for "true", "1", or the number; for a *)
(* device, a directory or a format it is a label.  NaN is a word std::stoul *)
(* and std::stof throw on.  A line is [section] or key = value; the options *)
(* are the short ones, and one without an argument has the value 1.         *)
(***************************************************************************)
EXTENDS Integers, Sequences

CONSTANTS CommandLines,  \* what main() may be called with: [opt, val]
          Files,         \* what the configuration file may hold
          DeviceMisses   \* by how much the card may miss what it is asked for

Options == [opt : STRING, val : Int]
Lines   == [section : STRING] \cup [key : STRING, val : Int]

ASSUME StartupAssumption ==
    /\ CommandLines \subseteq Seq(Options) /\ Files \subseteq Seq(Lines)
    /\ DeviceMisses \subseteq Int

NaN  == -1000
Word == 65536    \* uint16_t

VARIABLES
    main,      \* where main() is
    input,     \* history: the command line and the file
    next,      \* the option, or the line of the file, to be read next
    settings,  \* DaemonConfig
    sizes      \* what was granted and allocated

startupVars == <<input, next, settings, sizes>>

-----------------------------------------------------------------------------
(* DaemonConfig of common.hpp: labels from 100 on are names.                *)
Defaults ==
    [socket_path |-> 100, clips_dir |-> 101, shm_name |-> 102,
     ring_buffer_seconds |-> 60, enable_sample_sharing |-> FALSE,
     device |-> 103, sample_rate |-> 48000, channels |-> 1,
     bits_per_sample |-> 16, period_size |-> 1024, buffer_periods |-> 4,
     gain_db |-> 0, dc_remove |-> FALSE, cpu_affinity |-> -1,
     downmix_mono |-> FALSE,
     enabled |-> FALSE, output_dir |-> 104, block_duration_seconds |-> 300,
     format |-> 105, max_blocks |-> 0]

Texts    == {"socket_path", "clips_dir", "shm_name", "device", "output_dir", "format"}
Switches == {"enable_sample_sharing", "dc_remove", "downmix_mono", "enabled"}
Halves   == {"channels", "bits_per_sample"}

Throws(field, value) == value = NaN /\ field \notin Texts \cup Switches

Converted(field, value) ==
    IF field \in Switches THEN value = 1
    ELSE IF field \in Halves THEN value % Word ELSE value

(* The field an option sets.                                                *)
OptionField ==
    [s |-> "socket_path", D |-> "device", r |-> "sample_rate",
     C |-> "channels", b |-> "bits_per_sample", g |-> "gain_db",
     p |-> "period_size", B |-> "block_duration_seconds",
     S |-> "enable_sample_sharing"]

(* The keys of a section, and the fields of the settings they stand for.    *)
KeysOf(section) ==
    CASE section \in {"", "daemon"} ->
           {"socket_path", "clips_dir", "shm_name", "ring_buffer_seconds",
            "enable_sample_sharing"}
      [] section = "audio" ->
           {"device", "rate", "channels", "bits", "bits_per_sample", "period_size",
            "buffer_periods", "gain_db", "dc_remove", "cpu_affinity", "downmix_mono"}
      [] section = "block_recorder" ->
           {"enabled", "output_dir", "block_duration_seconds", "duration", "format",
            "max_blocks"}
      [] OTHER -> {}

ShortKeys == [rate |-> "sample_rate", bits |-> "bits_per_sample",
              duration |-> "block_duration_seconds"]

KeyField(key) == IF key \in DOMAIN ShortKeys THEN ShortKeys[key] ELSE key

-----------------------------------------------------------------------------
(* One case of the switch of parse_args(): -B also enables the recorder.    *)
Exits(o)  == o.opt \in {"h", "v", "?"}
Spoils(o) == o.opt \in DOMAIN OptionField /\ Throws(OptionField[o.opt], o.val)

WithOption(config, o) ==
    IF o.opt \notin DOMAIN OptionField THEN config
    ELSE LET field == OptionField[o.opt]
             set   == [config EXCEPT ![field] = Converted(field, o.val)]
         IN IF o.opt = "B" THEN [set EXCEPT !.enabled = TRUE] ELSE set

HasFile(args) == \E i \in DOMAIN args : args[i].opt = "c"

(* load_config(): the section of line i is the last one that was opened; a  *)
(* key that its section does not have sets nothing.                         *)
IsHeader(line) == "key" \notin DOMAIN line

SectionAt(lines, i) ==
    LET headers == {j \in 1..i : IsHeader(lines[j])}
    IN IF headers = {} THEN ""
       ELSE lines[CHOOSE j \in headers : \A k \in headers : k <= j].section

FieldAt(lines, i) ==
    IF IsHeader(lines[i]) \/ lines[i].key \notin KeysOf(SectionAt(lines, i))
    THEN "" ELSE KeyField(lines[i].key)

(* parse_args(), first pass: an option that cannot be read, that is unknown *)
(* or that asks for help or the version ends the program.                   *)
ReadOption ==
    /\ main = "args" /\ next <= Len(input.args)
    /\ LET o == input.args[next]
       IN IF Exits(o) \/ Spoils(o)
          THEN /\ main' = IF Exits(o) THEN "usage" ELSE "killed"
               /\ UNCHANGED <<settings, next>>
          ELSE /\ settings' = WithOption(settings, o)
               /\ next' = next + 1 /\ UNCHANGED main
    /\ UNCHANGED <<input, sizes>>

(* The file, if there is one, replaces everything.                          *)
OptionsRead ==
    /\ main = "args" /\ next > Len(input.args)
    /\ IF HasFile(input.args) THEN main' = "file" /\ settings' = Defaults
                              ELSE main' = "device" /\ UNCHANGED settings
    /\ next' = 1
    /\ UNCHANGED <<input, sizes>>

ReadLine ==
    /\ main = "file" /\ next <= Len(input.lines)
    /\ LET field == FieldAt(input.lines, next)
           value == input.lines[next].val
       IN IF field = "" THEN UNCHANGED <<main, settings>> /\ next' = next + 1
          ELSE IF Throws(field, value)
          THEN main' = "killed" /\ UNCHANGED <<settings, next>>
          ELSE /\ settings' = [settings EXCEPT ![field] = Converted(field, value)]
               /\ next' = next + 1 /\ UNCHANGED main
    /\ UNCHANGED <<input, sizes>>

(* Mutant: the command line is not parsed again.                            *)
LinesReadOnce ==
    /\ main = "file" /\ next > Len(input.lines)
    /\ main' = "device" /\ next' = 1
    /\ UNCHANGED <<input, settings, sizes>>

LinesRead ==
    /\ main = "file" /\ next > Len(input.lines)
    /\ main' = "again" /\ next' = 1
    /\ UNCHANGED <<input, settings, sizes>>

(* The second pass: what ended the first one has ended the program.         *)
ReadAgain ==
    /\ main = "again"
    /\ IF next <= Len(input.args)
       THEN /\ settings' = WithOption(settings, input.args[next])
            /\ next' = next + 1 /\ UNCHANGED main
       ELSE main' = "device" /\ next' = 1 /\ UNCHANGED settings
    /\ UNCHANGED <<input, sizes>>

-----------------------------------------------------------------------------
(* AlsaCapture::initialize(): rate and period are those nearest to what is  *)
(* asked for.  A sample takes HardwareBytes in what snd_pcm_readi() stores; *)
(* SND_PCM_FORMAT_S24_LE is 24 bits in four bytes.                          *)
HardwareBytes(bits) == IF bits \in {24, 32} THEN 4 ELSE 2

OutChannels == IF settings.downmix_mono /\ settings.channels >= 2
               THEN 1 ELSE settings.channels

Bytes == settings.bits_per_sample \div 8

(* Mutant: the buffer has the size that was asked for.                      *)
OpenAsAsked ==
    /\ main = "device" /\ settings.channels > 0
    /\ \E rate, period \in DeviceMisses :
         sizes' = [rate |-> settings.sample_rate + rate,
                   period |-> settings.period_size + period,
                   readi |-> settings.period_size * settings.channels * Bytes]
    /\ main' = "pipeline"
    /\ UNCHANGED <<input, next, settings>>

OpenDevice ==
    /\ main = "device" /\ settings.channels > 0
    /\ \E rate, period \in DeviceMisses :
         LET granted == settings.period_size + period
         IN sizes' = [rate |-> settings.sample_rate + rate,
                      period |-> granted,
                      readi |-> granted * settings.channels * Bytes]
    /\ main' = "pipeline"
    /\ UNCHANGED <<input, next, settings>>

(* Any of the calls into libasound may fail.                                *)
DeviceFailsToOpen ==
    /\ main = "device" /\ main' = "failed" /\ UNCHANGED startupVars

(* CapturePipeline::initialize(): mono_buffer_, and the sample area of      *)
(* SamplePublisher::initialize().                                           *)
InitializePipeline ==
    /\ main = "pipeline" /\ main' = "begin"
    /\ sizes' =
         [rate |-> sizes.rate, period |-> sizes.period, readi |-> sizes.readi,
          ring |-> settings.ring_buffer_seconds * sizes.rate,
          mono |-> IF OutChannels < settings.channels
                   THEN sizes.period * Bytes ELSE 0,
          shm  |-> IF settings.enable_sample_sharing
                   THEN sizes.period * OutChannels * Bytes ELSE 0]
    /\ UNCHANGED <<input, next, settings>>

(* The recorder's directory or the shared memory cannot be made.            *)
PipelineFailsToInitialize ==
    /\ main = "pipeline" /\ main' = "failed"
    /\ settings.enabled \/ settings.enable_sample_sharing
    /\ UNCHANGED startupVars

Initialize ==
    \/ ReadOption \/ OptionsRead \/ ReadLine \/ LinesRead \/ ReadAgain
    \/ OpenDevice \/ DeviceFailsToOpen
    \/ InitializePipeline \/ PipelineFailsToInitialize

StartupInit ==
    /\ main = "args" /\ next = 1
    /\ input \in [args : CommandLines, lines : Files]
    /\ settings = Defaults
    /\ sizes = [f \in {} |-> 0]

-----------------------------------------------------------------------------
(* Value v is the last thing said of field f by the first m lines of the    *)
(* file and then the first n options of the command line, or else the       *)
(* default.  -B also says that enabled is on.                               *)
Says(o, f)  == \/ o.opt \in DOMAIN OptionField /\ OptionField[o.opt] = f
               \/ o.opt = "B" /\ f = "enabled"
Said(o, f)  == IF f = "enabled" THEN TRUE ELSE Converted(f, o.val)

LastSaid(f, v, m, n) ==
    LET args  == input.args
        lines == input.lines
    IN \/ \E i \in 1..n : /\ Says(args[i], f) /\ v = Said(args[i], f)
                          /\ \A j \in (i + 1)..n : ~Says(args[j], f)
       \/ /\ \A i \in 1..n : ~Says(args[i], f)
          /\ \/ \E i \in 1..m : /\ FieldAt(lines, i) = f
                                /\ v = Converted(f, lines[i].val)
                                /\ \A j \in (i + 1)..m : FieldAt(lines, j) # f
             \/ v = Defaults[f] /\ \A i \in 1..m : FieldAt(lines, i) # f

(* config.cpp:167, "Re-parse to let CLI override config file": each setting *)
(* is what the command line says of it last, else the file, else the        *)
(* default, wherever the options and -c stand on the line.                  *)
CommandLineWins ==
    main = "device" =>
        \A f \in DOMAIN Defaults :
            LastSaid(f, settings[f],
                     IF HasFile(input.args) THEN Len(input.lines) ELSE 0,
                     Len(input.args))

(* What the device delivers as one period, of the format asked for, fits    *)
(* what was allocated for it before it was known, and so does what downmix  *)
(* and the publisher make of it; left out is every format but 16 and 32     *)
(* bits, see EveryFormatFits.                                               *)
Fits(hardware) ==
    /\ sizes.period * settings.channels * hardware <= sizes.readi
    /\ OutChannels < settings.channels => sizes.period * Bytes <= sizes.mono
    /\ settings.enable_sample_sharing =>
           sizes.period * OutChannels * Bytes <= sizes.shm

PeriodsFit ==
    main = "begin" /\ settings.bits_per_sample \in {16, 32}
        => Fits(HardwareBytes(settings.bits_per_sample))

(* alsa_capture.cpp:105, "Allocate period buffer (sized in bytes for any    *)
(* sample format)".                                                         *)
EveryFormatFits ==
    main = "begin" /\ settings.bits_per_sample \in {16, 24, 32}
        => Fits(HardwareBytes(settings.bits_per_sample))
=============================================================================
