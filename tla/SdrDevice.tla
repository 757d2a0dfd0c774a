------------------------------- MODULE SdrDevice ------------------------------
(***************************************************************************)
(* src/sdr_utils.c and src/sdr/sdr_device.h: the one device of the         *)
(* process, of the type that the configuration names, used through the     *)
(* same table of functions.                                                *)
(***************************************************************************)
EXTENDS PlutoSdr, Airspy, SdrFile

VARIABLE sdr_type

deviceVars == <<sdr_type, plutoVars, airspyVars, fileVars>>

DeviceTypes == {"plutosdr", "airspy", "file"}

\* sdr_device_create dispatches on sdr_type.  The settings of the types that are not
\* configured are not looked at: one value stands for all.
DeviceInit ==
  /\ sdr_type \in DeviceTypes
  /\ PlutoInit /\ AirspyInit /\ SdrFileInit
  /\ sdr_type # "plutosdr" => /\ chip.rate = CHOOSE r \in Rates : r >= MIN_FIR_FILTER
                              /\ ~chip.txLo
  /\ sdr_type # "airspy" => gain_mode = "auto"
  /\ sdr_type # "file" => /\ rx_format = "cf32" /\ tx_format = "cf32"
                          /\ rxFile = "none" /\ txFile = "none"
                          /\ fileSize = CHOOSE size \in FileSizes : TRUE

\* The functions of the table, by the device behind it.
DeviceNext ==
  \/ sdr_type = "plutosdr" /\ PlutoNext /\ UNCHANGED <<sdr_type, airspyVars, fileVars>>
  \/ sdr_type = "airspy" /\ AirspyNext /\ UNCHANGED <<sdr_type, plutoVars, fileVars>>
  \/ sdr_type = "file" /\ SdrFileNext /\ UNCHANGED <<sdr_type, plutoVars, airspyVars>>

\* A thread inside a call goes on with it; when a caller makes the next call, or makes one at
\* all, is not assumed.
DeviceFairness ==
  /\ WF_deviceVars(PlutoPush /\ UNCHANGED <<sdr_type, airspyVars, fileVars>>)
  /\ WF_deviceVars(FileWriteChunk /\ UNCHANGED <<sdr_type, plutoVars, airspyVars>>)
  /\ WF_deviceVars(AirspyStage /\ UNCHANGED <<sdr_type, plutoVars, fileVars>>)
  /\ \A t \in Users :
       WF_deviceVars((RateStep(t) \/ (t = "tx" /\ PlutoCreateTxBuffer))
                     /\ UNCHANGED <<sdr_type, airspyVars, fileVars>>)

DeviceSpec == DeviceInit /\ [][DeviceNext]_deviceVars /\ DeviceFairness

-----------------------------------------------------------------------------
\* A change of the rate that runs to its end while no other thread changes it leaves the radio
\* at current_sample_rate with the filter that this rate needs, whatever failed or overlapped
\* before: no stale filter, and no write that is skipped although it is needed.  That holds until
\* a change fails half-way or overlaps another one (disturbed; rateLost for the tuner), after
\* which the code promises nothing until the next change that completes.
ConfiguredAsReported ==
  /\ /\ plutoState = "open"
     /\ ~disturbed
     /\ \A t \in Users : plutoPc[t] \notin RateWrites
     => /\ chip.rate = current_sample_rate
        /\ chip.fir = (Decimation(current_sample_rate) # 0)
        /\ chip.fir => chip.taps = Decimation(current_sample_rate)
  /\ airspyCode = 0 /\ ~rateLost => tuner = [rate |-> airspyRate, agc |-> gain_mode = "auto"]

\* Every buffer that libiio allocated is held by exactly one of rx_buffer and tx_buffer, and
\* these point to nothing else: none is used or destroyed after it was destroyed, none leaks.
BuffersOwned ==
  /\ plutoState # "closed" => /\ iioBuffers = {rx_buffer, tx_buffer} \ {0}
                              /\ rx_buffer = tx_buffer => rx_buffer = 0
  /\ plutoState = "closed" => iioBuffers = {}

\* Samples are pushed only with the oscillator powered, whatever tx_powerdown, an earlier
\* session or failed calls left behind.
TransmitsPowered == plutoPc["tx"] = "push" => chip.txLo

\* A transmission of any length comes to an end, and not behind its last sample: the loops of
\* plutosdr_process_tx and sdr_file_process_tx make progress in every turn.
ProcessTxReturns ==
  /\ [](txLeft >= 0 /\ txInput >= 0)
  /\ (plutoPc["tx"] = "push") ~> (plutoPc["tx"] # "push")
  /\ (txInput > 0) ~> (txInput = 0)

\* plutosdr_set_sample_rate promises to "ensure filter disabled if not needed": a call for a
\* rate above the filters that got as far as the gain, with no other thread about, has it off.
FilterDisabledIfNotNeeded ==
  \A t \in Threads : plutoPc[t] = "gain" /\ Decimation(want[t]) = 0 => ~chip.fir

=============================================================================
