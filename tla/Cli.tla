--------------------------------- MODULE Cli ----------------------------------
(***************************************************************************)
(* src/cli.c and the cli mode of src/main.c: one reception or one          *)
(* transmission between a radio and a file, ended by the end of the input, *)
(* by an error or by a signal.                                             *)
(*                                                                         *)
(* Three threads of control: the main thread; with a device that pushes    *)
(* its samples (airspy) the thread that runs cli_rx_callback; and the      *)
(* signal handler, which runs on top of one of these two, stops that       *)
(* thread while it does, and is modelled in two steps because cli_stop is. *)
(* The device is external: its calls return, with success or failure.      *)
(***************************************************************************)
EXTENDS AppConfig

CONSTANTS MaxFrames,   \* bound: frames in the input file
          MaxSignals   \* bound: signals that arrive

ASSUME CliAssumption == MaxFrames \in Nat /\ MaxSignals \in Nat

VARIABLES mainPc,        \* the next step of the main thread
          sdr_set_rx_callback, \* of the device: "airspy", "null" or "unset"
          sdr_flush_tx,  \* of the device: "plutosdr", "null" or "unset"
          cli_runner,    \* "null", "live" or "freed"
          do_exit,
          wake_pipe,     \* bytes in the pipe
          sdrThread,     \* "off", "idle", "callback" or "stopping" (inside cli_stop)
          handler,       \* "none", or inside cli_stop on the "main" or "sdr" thread
          signals,       \* signals that may still arrive
          inputFrames,   \* frames left in the input file
          tail,          \* the modulator holds back the end of the last frame
          unsent,        \* a frame was modulated and not yet taken by the device
          exitCode       \* what cli_process returned; 1 before

device == <<sdr_set_rx_callback, sdr_flush_tx>>
cliVars == <<mainPc, device, cli_runner, do_exit, wake_pipe, sdrThread,
             handler, signals, inputFrames, tail, unsent, exitCode>>

txVars == <<inputFrames, tail, unsent>>
stopVars == <<do_exit, wake_pipe, handler, signals>>

direction == config["direction"]

CliInit ==
  /\ mainPc = "create"
  /\ sdr_set_rx_callback = "null" /\ sdr_flush_tx = "null"
  /\ cli_runner = "null"
  /\ do_exit = FALSE
  /\ wake_pipe = 0
  /\ sdrThread = "off"
  /\ handler = "none"
  /\ signals = MaxSignals
  /\ inputFrames = 0
  /\ tail = FALSE /\ unsent = FALSE
  /\ exitCode = 1

\* The main thread takes a step, unless the handler runs on top of it.
Main(from, to) ==
  /\ mainPc = from
  /\ handler # "main"
  /\ mainPc' = to

-----------------------------------------------------------------------------
\* Only airspy_create fills sdr_set_rx_callback in, and only plutosdr_create sdr_flush_tx.  The
\* others leave in them what malloc returned: NULL, or anything else.
DeviceCreated ==
  /\ sdr_set_rx_callback' \in IF config["sdr_type"] = "airspy" THEN {"airspy"} ELSE {"null", "unset"}
  /\ sdr_flush_tx' \in IF config["sdr_type"] = "plutosdr" THEN {"plutosdr"} ELSE {"null", "unset"}

\* cli_create, with the configuration of AppConfig: the pipe, the modem, the device, its
\* parameters and the file.  main sees cli_runner only after it; a failure of any of them
\* destroys the others and ends the process.
Create ==
  /\ configStage = "cli"
  /\ \/ /\ Main("create", "process")
        /\ cli_runner' = "live"
        /\ DeviceCreated
        /\ inputFrames' \in {n \in 0..MaxFrames : direction = "rx" => n = 0}
     \/ Main("create", "exited") /\ UNCHANGED <<cli_runner, device, inputFrames>>
  /\ UNCHANGED <<sdrThread, stopVars, tail, unsent, exitCode>>

\* cli_process, push mode: the callback is set and the device started, which may fail unseen.
ProcessPush ==
  /\ direction = "rx" /\ sdr_set_rx_callback = "airspy"
  /\ Main("process", "testExit")
  /\ sdrThread' \in {"off", "idle"}
  /\ UNCHANGED <<device, cli_runner, stopVars, txVars, exitCode>>

\* cli_process calls what sdr_set_rx_callback happens to hold.
ProcessCallsUnset ==
  /\ direction = "rx" /\ sdr_set_rx_callback = "unset"
  /\ Main("process", "crashed")
  /\ UNCHANGED <<device, cli_runner, sdrThread, stopVars, txVars, exitCode>>

\* cli_wait_for_stop: the condition of its loop
TestExit ==
  /\ \/ do_exit /\ Main("testExit", "stopRx")
     \/ ~do_exit /\ Main("testExit", "readPipe")
  /\ UNCHANGED <<device, cli_runner, sdrThread, stopVars, txVars, exitCode>>

\* Its body: read blocks until there is a byte.
ReadPipe ==
  /\ wake_pipe > 0
  /\ wake_pipe' = wake_pipe - 1
  /\ Main("readPipe", "testExit")
  /\ UNCHANGED <<device, cli_runner, do_exit, sdrThread, handler, signals, txVars, exitCode>>

\* Mutant: stop_rx does not wait for the thread of the device.
StopRxAtOnce ==
  /\ Main("stopRx", "destroy")
  /\ exitCode' = 0
  /\ UNCHANGED <<device, cli_runner, sdrThread, stopVars, txVars>>

\* stop_rx: "blocks until the sdr thread is finished, so no callbacks after this point"
StopRx ==
  /\ sdrThread \in {"off", "idle"} /\ handler # "sdr"
  /\ Main("stopRx", "destroy")
  /\ sdrThread' = "off"
  /\ exitCode' = 0
  /\ UNCHANGED <<device, cli_runner, stopVars, txVars>>

\* The device calls cli_rx_callback; once do_exit is set it returns at once.
SdrCallback ==
  /\ sdrThread = "idle" /\ handler # "sdr"
  /\ ~do_exit
  /\ sdrThread' = "callback"
  /\ UNCHANGED <<mainPc, device, cli_runner, stopVars, txVars, exitCode>>

\* It has demodulated and written.
SdrWrites ==
  /\ sdrThread = "callback" /\ handler # "sdr"
  /\ sdrThread' = "idle"
  /\ UNCHANGED <<mainPc, device, cli_runner, stopVars, txVars, exitCode>>

\* It could not write: cli_stop, first step
SdrWriteFails ==
  /\ sdrThread = "callback" /\ handler # "sdr"
  /\ do_exit' = TRUE
  /\ sdrThread' = "stopping"
  /\ UNCHANGED <<mainPc, device, cli_runner, wake_pipe, handler, signals, txVars, exitCode>>

\* cli_stop, second step
SdrStops ==
  /\ sdrThread = "stopping" /\ handler # "sdr"
  /\ wake_pipe' = wake_pipe + 1
  /\ sdrThread' = "idle"
  /\ UNCHANGED <<mainPc, device, cli_runner, do_exit, handler, signals, txVars, exitCode>>

\* cli_process, pull mode: the condition of its loop
PullTest ==
  /\ direction = "rx" /\ sdr_set_rx_callback = "null"
  /\ \/ ~do_exit /\ Main("process", "pull")
     \/ do_exit /\ Main("process", "stopRx")
  /\ UNCHANGED <<device, cli_runner, sdrThread, stopVars, txVars, exitCode>>

\* Its body: sdr_process_rx or fwrite may end it.
PullRx ==
  /\ Main("pull", "process") \/ Main("pull", "stopRx")
  /\ UNCHANGED <<device, cli_runner, sdrThread, stopVars, txVars, exitCode>>

-----------------------------------------------------------------------------
\* cli_process, transmission: fread and sdr_modem_modulate, or the end of the loop
ModulateFrame ==
  /\ direction = "tx"
  /\ \/ /\ ~do_exit /\ inputFrames > 0
        /\ Main("process", "processTx")
        /\ inputFrames' = inputFrames - 1
        /\ unsent' = TRUE /\ tail' = TRUE
     \/ /\ do_exit \/ inputFrames = 0
        /\ Main("process", "flush")
        /\ UNCHANGED txVars
  /\ UNCHANGED <<device, cli_runner, sdrThread, stopVars, exitCode>>

\* sdr_process_tx; cli_process returns when it fails.
ProcessTx ==
  /\ \/ Main("processTx", "process") /\ unsent' = FALSE /\ UNCHANGED exitCode
     \/ Main("processTx", "destroy") /\ exitCode' = -1 /\ UNCHANGED unsent
  /\ UNCHANGED <<device, cli_runner, sdrThread, stopVars, inputFrames, tail>>

\* Mutant: a transmission that was interrupted is not flushed.
FlushUnlessStopped ==
  /\ \/ /\ sdr_flush_tx # "unset"
        /\ Main("flush", "destroy") /\ exitCode' = 0 /\ tail' = (tail /\ do_exit)
     \/ Main("flush", "destroy") /\ tail /\ exitCode' = -1 /\ UNCHANGED tail
  /\ UNCHANGED <<device, cli_runner, sdrThread, stopVars, inputFrames, unsent>>

\* sdr_modem_modulate_flush, its sdr_process_tx and sdr_flush_tx
Flush ==
  /\ \/ /\ sdr_flush_tx # "unset"
        /\ Main("flush", "destroy") /\ exitCode' = 0 /\ tail' = FALSE
     \/ Main("flush", "destroy") /\ tail /\ exitCode' = -1 /\ UNCHANGED tail
  /\ UNCHANGED <<device, cli_runner, sdrThread, stopVars, inputFrames, unsent>>

\* The tail went out, and cli_process calls what sdr_flush_tx happens to hold.
FlushCallsUnset ==
  /\ sdr_flush_tx = "unset"
  /\ Main("flush", "crashed") /\ tail' = FALSE
  /\ UNCHANGED <<device, cli_runner, sdrThread, stopVars, inputFrames, unsent, exitCode>>

\* cli_destroy; cli_runner keeps its value.
Destroy ==
  /\ Main("destroy", "exited")
  /\ cli_runner' = "freed"
  /\ UNCHANGED <<device, sdrThread, stopVars, txVars, exitCode>>

-----------------------------------------------------------------------------
\* A signal arrives on the main thread, or on the thread of the device.  sdrmodem_stop_async
\* does nothing while cli_runner is NULL; otherwise this is the first step of its cli_stop.
\* A read of the pipe on that thread may end with EINTR or be restarted.
Signal(thread) ==
  /\ signals > 0 /\ handler = "none"
  /\ configStage = "cli"
  /\ mainPc \notin {"exited", "crashed"}
  /\ thread = "sdr" => sdrThread # "off"
  /\ signals' = signals - 1
  /\ \/ cli_runner = "live" /\ handler' = thread /\ do_exit' = TRUE
     \/ cli_runner = "null" /\ UNCHANGED <<handler, do_exit>>
  /\ mainPc' \in {mainPc} \cup {p \in {"testExit"} : thread = "main" /\ mainPc = "readPipe"}
  /\ UNCHANGED <<device, cli_runner, wake_pipe, sdrThread, txVars, exitCode>>

\* Mutant: cli_stop does not write to the pipe.
HandlerEndsSilently ==
  /\ handler # "none"
  /\ handler' = "none"
  /\ UNCHANGED <<mainPc, device, cli_runner, do_exit, wake_pipe, sdrThread, signals, txVars,
                 exitCode>>

\* cli_stop in the handler, second step
HandlerWrites ==
  /\ handler # "none"
  /\ handler' = "none"
  /\ wake_pipe' = wake_pipe + 1
  /\ UNCHANGED <<mainPc, device, cli_runner, do_exit, sdrThread, signals, txVars, exitCode>>

MainStep ==
  \/ Create \/ ProcessPush \/ ProcessCallsUnset \/ TestExit \/ ReadPipe \/ StopRx
  \/ PullTest \/ PullRx \/ ModulateFrame \/ ProcessTx \/ Flush
  \/ FlushCallsUnset \/ Destroy

SdrStep == SdrWrites \/ SdrWriteFails \/ SdrStops

CliNext ==
  /\ \/ MainStep
     \/ SdrStep
     \/ SdrCallback
     \/ \E thread \in {"main", "sdr"} : Signal(thread)
     \/ HandlerWrites
  /\ UNCHANGED configVars

\* Every thread goes on, and what it calls returns.  That samples come, or that a signal
\* does, is not assumed.
CliFairness == WF_cliVars(MainStep) /\ WF_cliVars(SdrStep) /\ WF_cliVars(HandlerWrites)

-----------------------------------------------------------------------------
\* "so no callbacks after this point": once stop_rx has returned neither the callback nor a
\* handler on its thread uses the modem, the file or the pipe that cli_destroy frees.
NoCallbackAfterStop ==
  mainPc \in {"destroy", "exited"} => sdrThread = "off" /\ handler # "sdr"

\* A transmission that is reported as a success went out whole: no frame that was read from the
\* file, and no tail of the last one, is left behind, also when a signal ended it early.
SuccessMeansTransmitted == direction = "tx" /\ exitCode = 0 => ~tail /\ ~unsent

\* cli_stop ends the process, whenever it is called and from whichever thread: no interleaving
\* of the flag, the pipe and the two loops leaves the main thread asleep.  (The other end is
\* the call of a sdr_set_rx_callback or sdr_flush_tx that no one set.)
StopEndsProcess == do_exit ~> (mainPc \in {"exited", "crashed"})

=============================================================================
