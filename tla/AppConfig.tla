------------------------------- MODULE AppConfig -------------------------------
(***************************************************************************)
(* src/app_config.c and src/main.c: the configuration of the process is    *)
(* put together from a configuration file, the command line and defaults,  *)
(* validated, the library of the device is loaded, and main starts the cli *)
(* or the server.                                                          *)
(*                                                                         *)
(* The settings here stand for those that some code downstream relies on,  *)
(* and for one or two of each of the other kinds: the rest are numbers and *)
(* texts that are stored as given.  A file of samples is named by its      *)
(* extension (a ".gz" after it changes nothing).  0 or "none" is a         *)
(* setting that nobody gave; "" is a text that was given empty.            *)
(***************************************************************************)
EXTENDS Integers, Sequences, FiniteSetsExt

CONSTANTS Files,          \* contents of the readable configuration files, by path
          CommandLines,   \* sequences of options [name, value, joined]
          Uint32          \* values of a uint32_t: 2^32, fewer for TLC, whose integers end there

VARIABLES argv, at,       \* the command line and the next option of it
          config,         \* the settings
          libs,           \* libraries that are loaded
          configStage     \* how far main and app_config_create are

configVars == <<argv, at, config, libs, configStage>>

Texts == {"bind_address", "plutosdr_uri", "plutosdr_calib_mode", "rx_file", "tx_file", "input", "output"}
Numbers == {"port", "queue_size", "sdr_buffer_len", "read_timeout_seconds", "max_frame_size",
            "sample_rate", "plutosdr_timeout_ms", "psk_rrc_delay", "airspy_lna_gain"}
Enums == {"direction", "sdr_type", "modem", "rx_file_format", "tx_file_format",
            "log_level", "plutosdr_gain_control_mode", "airspy_gain_mode"}
Settings == Texts \cup Numbers \cup Enums

\* "none" stands for no file.
ASSUME ConfigAssumption ==
  /\ Uint32 \in Nat \ {0}
  /\ "none" \notin DOMAIN Files
  /\ \A path \in DOMAIN Files : \A name \in DOMAIN Files[path] \cap Numbers : Files[path][name] \in Int
  /\ \A line \in CommandLines :
       /\ Len(line) \in Nat
       /\ \A i \in 1..Len(line) : /\ line[i].name \in Numbers => line[i].value \in Int
                                  /\ line[i].name = "config" => line[i].value # "none"

SdrTypes == {"plutosdr", "airspy", "file"}
Formats == {"cu8", "cf32", "cs16"}

\* The values that the conversions of app_config.c know
Known == [direction |-> {"rx", "tx"}, sdr_type |-> SdrTypes,
          modem |-> {"gfsk", "bpsk", "dpsk", "sdpsk", "psk_pm"},
          rx_file_format |-> Formats, tx_file_format |-> Formats,
          log_level |-> {"error", "warn", "info", "debug"},
          plutosdr_gain_control_mode |-> {"manual", "fast_attack", "slow_attack", "hybrid"},
          airspy_gain_mode |-> {"auto", "sensitivity", "linearity", "manual"},
          airspy_lna_gain |-> 0..14]

\* A value of these that is not known ends app_config_create at once.
Strict == {"log_level", "plutosdr_gain_control_mode", "airspy_gain_mode", "airspy_lna_gain"}
Refused(name, value) == name \in Strict /\ value \notin Known[name]

Unset(name) == IF name \in Numbers THEN 0 ELSE "none"

\* How many values the unsigned fields have
Width == [port |-> 2^16, queue_size |-> 2^16, psk_rrc_delay |-> 2^8,
          sdr_buffer_len |-> Uint32, max_frame_size |-> Uint32, plutosdr_timeout_ms |-> Uint32]

\* What a field holds after it was given a value: a number is cast to the width of its field,
\* and an unknown modem is MODEM_TYPE_INVALID, which is 0.
Stored(name, value) ==
  CASE name \in DOMAIN Width                                -> value % Width[name]
    [] name \in Enums \ Strict /\ value \notin Known[name] -> IF name = "modem" THEN "none" ELSE "invalid"
    [] OTHER                                                 -> value

-----------------------------------------------------------------------------
\* The first pass of app_config_create knows only --config and ends at the first argument that
\* is no option: the value of any other option, unless it is joined to it with "=".
FirstPassOptions ==
  {i \in 1..Len(argv) : \A j \in 1..(i - 1) : argv[j].joined \/ argv[j].name = "config"}
ConfigOptions == {i \in FirstPassOptions : argv[i].name = "config"}
ConfigPath == IF ConfigOptions = {} THEN "none" ELSE argv[Max(ConfigOptions)].value

\* app_config_load_from_file: input, output and power are not looked up; the settings of a
\* device only if the file itself selects that device.
DeviceSettings ==
  [plutosdr |-> {"plutosdr_gain_control_mode", "plutosdr_timeout_ms", "plutosdr_uri", "plutosdr_calib_mode"},
   airspy   |-> {"airspy_gain_mode", "airspy_lna_gain"}]
FileSdrType(file) == IF "sdr_type" \in DOMAIN file THEN Stored("sdr_type", file["sdr_type"]) ELSE "none"
Skipped(file) ==
  {"input", "output"} \cup UNION {DeviceSettings[d] : d \in DOMAIN DeviceSettings \ {FileSdrType(file)}}
LookedUp(file) == DOMAIN file \ Skipped(file)

FromFile(file) ==
  [name \in Settings |-> IF name \in LookedUp(file) THEN Stored(name, file[name]) ELSE Unset(name)]

FileLoads(path) ==
  /\ path \in DOMAIN Files
  /\ \A name \in LookedUp(Files[path]) : ~Refused(name, Files[path][name])

ConfigInit ==
  /\ argv \in CommandLines
  /\ at = 1
  /\ config = [name \in Settings |-> Unset(name)]
  /\ libs = {}
  /\ configStage = "first_pass"

\* app_config_destroy, and main exits.
ConfigFail == configStage' = "failed" /\ libs' = {} /\ UNCHANGED <<argv, at, config>>

\* app_config_create up to the command line
LoadFromFile ==
  /\ configStage = "first_pass"
  /\ LET path == ConfigPath
     IN  \/ /\ path = "none"
            /\ configStage' = "options"
            /\ UNCHANGED <<argv, at, config, libs>>
         \/ /\ path # "none"
            /\ ~FileLoads(path)
            /\ ConfigFail
         \/ /\ FileLoads(path)
            /\ config' = FromFile(Files[path])
            /\ configStage' = "options"
            /\ UNCHANGED <<argv, at, libs>>

\* Mutant: a setting of the file is kept.
AppliedFirstWins(c, name, value) == IF c[name] = Unset(name) THEN [c EXCEPT ![name] = Stored(name, value)] ELSE c

\* The case of an option in app_config_load_from_cli
Applied(c, name, value) == [c EXCEPT ![name] = Stored(name, value)]

\* One turn of the loop of app_config_load_from_cli; --config and unknown options are skipped.
LoadFromCli ==
  /\ configStage = "options"
  /\ \/ /\ at > Len(argv)
        /\ configStage' = "validate"
        /\ UNCHANGED <<argv, at, config, libs>>
     \/ /\ at <= Len(argv)
        /\ Refused(argv[at].name, argv[at].value)
        /\ ConfigFail
     \/ /\ at <= Len(argv)
        /\ ~Refused(argv[at].name, argv[at].value)
        /\ config' = IF argv[at].name \in Settings THEN Applied(config, argv[at].name, argv[at].value)
                                                   ELSE config
        /\ at' = at + 1
        /\ UNCHANGED <<argv, libs, configStage>>

-----------------------------------------------------------------------------
CliMode(c) == c["bind_address"] = "none"

\* app_config_guess_file_format, then app_config_validate_file
FileFormat(c, file, format) ==
  IF c[file] = "none" \/ c[format] # "none" THEN c[format]
  ELSE IF c[file] \in Formats THEN c[file] ELSE "invalid"
FileUsable(c, file, format) == c[file] = "none" \/ FileFormat(c, file, format) \in Formats

\* The part of app_config_validate_and_log about the device
DeviceUsable(c) ==
  /\ c["sdr_type"] \in SdrTypes
  /\ c["sdr_type"] = "airspy" => ~(CliMode(c) /\ c["direction"] = "tx")
  /\ c["sdr_type"] = "file" => /\ CliMode(c)
                               /\ c["direction"] = "rx" => c["rx_file"] # "none"
                               /\ c["direction"] = "tx" => c["tx_file"] # "none"
                               /\ FileUsable(c, "rx_file", "rx_file_format")
                               /\ FileUsable(c, "tx_file", "tx_file_format")

\* The refusals of app_config_validate_and_log
Valid(c) ==
  /\ c["read_timeout_seconds"] >= 0
  /\ CliMode(c) => c["direction"] \in {"rx", "tx"}
  /\ ~CliMode(c) \/ c["direction"] = "tx" => c["max_frame_size"] # 0
  /\ DeviceUsable(c)
  /\ CliMode(c) /\ c["direction"] = "rx" => c["output"] # "none"
  /\ CliMode(c) /\ c["direction"] = "tx" => c["input"] # "none"
  /\ CliMode(c) => c["modem"] # "none"

\* Its defaults: for a setting that nobody gave, or that was given as 0
Default(c, name) ==
  CASE name = "port"           -> 8091
    [] name = "queue_size"     -> 64
    [] name = "sdr_buffer_len" -> 262144
    [] name = "read_timeout_seconds" -> 5
    [] name = "psk_rrc_delay"  -> 5
    [] name = "log_level"      -> "info"
    [] name = "plutosdr_timeout_ms" /\ c["sdr_type"] = "plutosdr" -> 1000
    [] name = "plutosdr_calib_mode" /\ c["sdr_type"] = "plutosdr" -> "manual_tx_quad"
    [] name = "rx_file_format" /\ c["sdr_type"] = "file" -> FileFormat(c, "rx_file", name)
    [] name = "tx_file_format" /\ c["sdr_type"] = "file" -> FileFormat(c, "tx_file", name)
    [] OTHER                   -> Unset(name)

\* An empty uri or calib_mode of plutosdr is one that was not given.
Empty(c, name) ==
  \/ c[name] = Unset(name)
  \/ name \in {"plutosdr_uri", "plutosdr_calib_mode"} /\ c[name] = "" /\ c["sdr_type"] = "plutosdr"

WithDefaults(c) == [name \in Settings |-> IF Empty(c, name) THEN Default(c, name) ELSE c[name]]

ValidateAndLog ==
  /\ configStage = "validate"
  /\ \/ /\ ~Valid(config)
        /\ ConfigFail
     \/ /\ Valid(config)
        /\ config' = WithDefaults(config)
        /\ configStage' = "library"
        /\ UNCHANGED <<argv, at, libs>>

-----------------------------------------------------------------------------
\* iio_lib_create, airspy_lib_create: the library and all the functions of it, or nothing.
IioLibCreate == config["sdr_type"] = "plutosdr" /\ libs' = {"iio"}
AirspyLibCreate == config["sdr_type"] = "airspy" /\ libs' = {"airspy"}

\* The end of app_config_create
LoadLibrary ==
  /\ configStage = "library"
  /\ \/ /\ \/ IioLibCreate \/ AirspyLibCreate
           \/ config["sdr_type"] = "file" /\ UNCHANGED libs
        /\ configStage' = "created"
        /\ UNCHANGED <<argv, at, config>>
     \/ config["sdr_type"] # "file" /\ ConfigFail

\* main.  The command line, and every setting that the mode does not go on to use, has served
\* its purpose.  tcp_server_create may fail, and does if inet_pton knows no such address; what
\* cli_create does is in Cli.
LongLived(c) ==
  {"bind_address", "sdr_type"} \cup (IF CliMode(c) THEN {"direction"} ELSE {"sdr_buffer_len", "max_frame_size"})
StartMode ==
  /\ configStage = "created"
  /\ \/ /\ CliMode(config) \/ config["bind_address"] # ""
        /\ configStage' = IF CliMode(config) THEN "cli" ELSE "server"
        /\ argv' = <<>> /\ at' = 1
        /\ config' = [name \in Settings |-> IF name \in LongLived(config) THEN config[name] ELSE Unset(name)]
        /\ UNCHANGED libs
     \/ ~CliMode(config) /\ ConfigFail

ConfigNext == LoadFromFile \/ LoadFromCli \/ ValidateAndLog \/ LoadLibrary \/ StartMode

-----------------------------------------------------------------------------
\* What was asked for: the last value on the command line, or else the one of the file that the
\* last --config names, wherever on the line it stands.  A file gives no input and no output, and
\* the settings of a device only if it selects that device.
OnLine(name) == {i \in 1..Len(argv) : argv[i].name = name}
LastOnLine(name) == argv[Max(OnLine(name))].value
NamedFile == IF OnLine("config") # {} /\ LastOnLine("config") \in DOMAIN Files
             THEN Files[LastOnLine("config")] ELSE <<>>
GivenByFile(name) ==
  /\ name \in DOMAIN NamedFile \ {"input", "output"}
  /\ \A d \in DOMAIN DeviceSettings :
       name \in DeviceSettings[d] => "sdr_type" \in DOMAIN NamedFile /\ NamedFile["sdr_type"] = d

\* A value that the field of the setting can hold
Fits(name, value) == /\ name \in DOMAIN Width => value \in 0..(Width[name] - 1)
                     /\ name \in DOMAIN Known => value \in Known[name]

\* The setting has the value that was asked for, or its default if that is 0 or missing, or an
\* empty uri or calib_mode.
SetTo(name, value) ==
  config[name] =
    IF value = Unset(name) \/ (name \in {"plutosdr_uri", "plutosdr_calib_mode"} /\ value = ""
                               /\ config["sdr_type"] = "plutosdr")
    THEN Default([config EXCEPT !["rx_file_format"] = "none", !["tx_file_format"] = "none"], name)
    ELSE value

\* What cli_create and tcp_server_create use without a check of their own: a modem and a
\* direction that the device supports (airspy has no set_tx_parameters to call), the file of the
\* direction, the library of the device, buffers and queues that hold something, a timeout.
FitForMode ==
  /\ config["sdr_buffer_len"] > 0 /\ config["queue_size"] > 0 /\ config["read_timeout_seconds"] > 0
  /\ config["sdr_type"] = "plutosdr" <=> "iio" \in libs
  /\ config["sdr_type"] = "airspy" <=> "airspy" \in libs
  /\ IF CliMode(config)
     THEN /\ config["modem"] \in Known["modem"]
          /\ \/ /\ config["direction"] = "rx" /\ config["output"] # "none"
                /\ config["sdr_type"] = "file" =>
                     config["rx_file"] # "none" /\ config["rx_file_format"] \in Formats
             \/ /\ config["direction"] = "tx" /\ config["input"] # "none"
                /\ config["max_frame_size"] > 0
                /\ config["sdr_type"] # "airspy"
                /\ config["sdr_type"] = "file" =>
                     config["tx_file"] # "none" /\ config["tx_file_format"] \in Formats
     ELSE config["max_frame_size"] > 0 /\ config["sdr_type"] \in {"plutosdr", "airspy"}

\* Every setting that the command line does not give is what the named file says, if its field
\* can hold it, or its default.
FileHonoured ==
  \A name \in Settings : OnLine(name) = {} =>
    IF GivenByFile(name) THEN Fits(name, NamedFile[name]) => SetTo(name, NamedFile[name])
                         ELSE SetTo(name, Unset(name))

\* A --config stands behind another option whose value is an argument of its own.
ConfigBehindOthers ==
  \E i \in OnLine("config") : \E j \in 1..(i - 1) : argv[j].name # "config" /\ ~argv[j].joined

\* app_config_create succeeds only with settings that are fit for the mode that main starts, and
\* with the values that were asked for where their fields can hold them: the command line before
\* the file and the file before the default; and it does not pass over a file that cannot be
\* read.  The exception: a file that is named behind other options may be missed (FileIsRead).
ConfigAsAsked ==
  configStage = "created" =>
    /\ FitForMode
    /\ \A name \in Settings : OnLine(name) # {} /\ Fits(name, LastOnLine(name)) => SetTo(name, LastOnLine(name))
    /\ ~ConfigBehindOthers =>
         /\ FileHonoured
         /\ OnLine("config") # {} => LastOnLine("config") \in DOMAIN Files

\* A --config that the second pass skips was "already handled by app_config_create", whose first
\* pass does "ignore extra options that can appear": wherever it stands on the command line, the
\* file it names gives the settings that the command line does not.
FileIsRead == configStage = "created" => FileHonoured
=============================================================================
