------------------------------- MODULE CliProofs -------------------------------
(***************************************************************************)
(* The safety of the cli mode (src/cli.c, src/main.c), for every length of *)
(* the input, every number of signals and every configuration that         *)
(* app_config_create hands to cli_create.                                  *)
(***************************************************************************)
EXTENDS Program, TLAPS

\* While the thread of the device runs the main thread is in cli_wait_for_stop or in stop_rx,
\* and a handler runs on that thread only while there is one.
ThreadInv ==
  /\ sdrThread # "off" => mainPc \in {"testExit", "readPipe", "stopRx"}
  /\ handler = "sdr" => sdrThread # "off"

\* The loop of a transmission is left with every frame sent; it never waits for a stop.
FramesInv ==
  /\ direction = "tx" => /\ mainPc \notin {"testExit", "readPipe", "pull", "stopRx"}
                         /\ mainPc \in {"process", "flush"} => ~unsent
  /\ mainPc = "create" => ~unsent
  /\ exitCode = 0 => mainPc \in {"destroy", "exited"}

\* cli_create and all that follows come after the configuration is complete.
StageInv == mainPc # "create" => configStage = "cli"

CliInv == ThreadInv /\ FramesInv /\ StageInv /\ SuccessMeansTransmitted

LEMMA CliInvInit == ASSUME Init PROVE CliInv
  BY DEF Init, CliInit, CliInv, ThreadInv, FramesInv, StageInv, SuccessMeansTransmitted

LEMMA ThreadStep == ASSUME ThreadInv, FramesInv, CliNext PROVE ThreadInv'
<1> USE DEF Main, device, stopVars, txVars, configVars
<1>1. CASE Create \/ ProcessPush \/ ProcessCallsUnset \/ TestExit \/ ReadPipe \/ StopRx
  BY <1>1 DEF Create, ProcessPush, ProcessCallsUnset, TestExit, ReadPipe, StopRx, ThreadInv
<1>2. CASE PullTest \/ PullRx \/ ModulateFrame \/ ProcessTx \/ Flush \/ FlushCallsUnset \/ Destroy
  BY <1>2 DEF PullTest, PullRx, ModulateFrame, ProcessTx, Flush, FlushCallsUnset, Destroy, ThreadInv
<1>3. CASE SdrStep \/ SdrCallback \/ HandlerWrites
  BY <1>3 DEF SdrStep, SdrWrites, SdrWriteFails, SdrStops, SdrCallback, HandlerWrites, ThreadInv
<1>4. ASSUME NEW thread \in {"main", "sdr"}, Signal(thread) PROVE ThreadInv'
  BY <1>4 DEF Signal, ThreadInv
<1> QED BY <1>1, <1>2, <1>3, <1>4 DEF CliNext, MainStep

LEMMA FramesStep ==
  ASSUME FramesInv, SuccessMeansTransmitted, CliNext PROVE FramesInv' /\ SuccessMeansTransmitted'
<1> USE DEF Main, device, stopVars, txVars
<1>0. direction' = direction
  BY DEF CliNext, configVars, direction
<1>1. CASE Create \/ ProcessPush \/ ProcessCallsUnset \/ TestExit \/ ReadPipe \/ StopRx
  BY <1>0, <1>1 DEF Create, ProcessPush, ProcessCallsUnset, TestExit, ReadPipe, StopRx, FramesInv, SuccessMeansTransmitted
<1>2. CASE PullTest \/ PullRx
  BY <1>0, <1>2 DEF PullTest, PullRx, FramesInv, SuccessMeansTransmitted
<1>3. CASE ModulateFrame \/ ProcessTx
  BY <1>0, <1>3 DEF ModulateFrame, ProcessTx, FramesInv, SuccessMeansTransmitted
<1>4. CASE Flush \/ FlushCallsUnset \/ Destroy
  BY <1>0, <1>4 DEF Flush, FlushCallsUnset, Destroy, FramesInv, SuccessMeansTransmitted
<1>5. CASE SdrStep \/ SdrCallback \/ HandlerWrites
  BY <1>0, <1>5 DEF SdrStep, SdrWrites, SdrWriteFails, SdrStops, SdrCallback, HandlerWrites, FramesInv, SuccessMeansTransmitted
<1>6. ASSUME NEW thread \in {"main", "sdr"}, Signal(thread) PROVE FramesInv' /\ SuccessMeansTransmitted'
  BY <1>0, <1>6 DEF Signal, FramesInv, SuccessMeansTransmitted
<1> QED BY <1>1, <1>2, <1>3, <1>4, <1>5, <1>6 DEF CliNext, MainStep

LEMMA StageStep == ASSUME StageInv, CliNext PROVE StageInv'
<1> USE DEF Main, device, stopVars, txVars, configVars
<1>1. CASE Create
  BY <1>1 DEF Create, StageInv, CliNext
<1>2. CASE ProcessPush \/ ProcessCallsUnset \/ TestExit \/ ReadPipe \/ StopRx \/ PullTest \/ PullRx
  BY <1>2 DEF ProcessPush, ProcessCallsUnset, TestExit, ReadPipe, StopRx, PullTest, PullRx, StageInv, CliNext
<1>3. CASE ModulateFrame \/ ProcessTx \/ Flush \/ FlushCallsUnset \/ Destroy
  BY <1>3 DEF ModulateFrame, ProcessTx, Flush, FlushCallsUnset, Destroy, StageInv, CliNext
<1>4. CASE SdrStep \/ SdrCallback \/ HandlerWrites
  BY <1>4 DEF SdrStep, SdrWrites, SdrWriteFails, SdrStops, SdrCallback, HandlerWrites, StageInv, CliNext
<1>5. ASSUME NEW thread \in {"main", "sdr"}, Signal(thread) PROVE StageInv'
  BY <1>5 DEF Signal, StageInv, CliNext
<1> QED BY <1>1, <1>2, <1>3, <1>4, <1>5 DEF CliNext, MainStep

\* The steps of the configuration are over when cli_create is called.
LEMMA ConfigStep == ASSUME CliInv, ConfigNext \/ UNCHANGED configVars, UNCHANGED cliVars PROVE CliInv'
<1>1. UNCHANGED <<mainPc, sdrThread, handler, unsent, tail, exitCode>>
  BY DEF cliVars
<1>2. CASE UNCHANGED configVars
  BY <1>1, <1>2 DEF CliInv, ThreadInv, FramesInv, StageInv, SuccessMeansTransmitted, direction, configVars
<1>3. CASE ConfigNext
  <2>1. configStage # "cli"
    BY <1>3 DEF ConfigNext, LoadFromFile, LoadFromCli, ValidateAndLog, LoadLibrary, StartMode
  <2>2. mainPc = "create"
    BY <2>1 DEF CliInv, StageInv
  <2>3. exitCode # 0 /\ ~unsent
    BY <2>2 DEF CliInv, FramesInv
  <2> QED BY <1>1, <2>2, <2>3 DEF CliInv, ThreadInv, FramesInv, StageInv, SuccessMeansTransmitted, direction
<1> QED BY <1>2, <1>3

LEMMA CliInvariant == Spec => []CliInv
<1>1. CliInv /\ [Next]_vars => CliInv'
  <2>1. CliInv /\ CliNext => CliInv'
    BY ThreadStep, FramesStep, StageStep DEF CliInv
  <2>2. Next => CliNext \/ ((ConfigNext \/ UNCHANGED configVars) /\ UNCHANGED cliVars)
    BY DEF Next, ParametersNext, Send, HandleParameters, ApplyParameters
  <2>3. UNCHANGED vars => UNCHANGED configVars /\ UNCHANGED cliVars
    BY DEF vars
  <2> QED BY <2>1, <2>2, <2>3, ConfigStep
<1> QED BY <1>1, CliInvInit, PTL DEF Spec

\* Neither the callback nor a handler on its thread runs once cli_destroy may free what they use.
THEOREM CallbacksEnd == Spec => []NoCallbackAfterStop
<1>1. CliInv => NoCallbackAfterStop
  BY DEF CliInv, ThreadInv, NoCallbackAfterStop
<1> QED BY <1>1, CliInvariant, PTL

\* cli_process returns 0 for a transmission only when nothing of it is left behind.
THEOREM ReportedIsTransmitted == Spec => []SuccessMeansTransmitted
<1>1. CliInv => SuccessMeansTransmitted
  BY DEF CliInv
<1> QED BY <1>1, CliInvariant, PTL
=============================================================================
