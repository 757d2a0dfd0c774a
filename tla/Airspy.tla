-------------------------------- MODULE Airspy --------------------------------
(***************************************************************************)
(* src/sdr/airspy.c: the driver of the Airspy receiver.  libairspy calls   *)
(* airspy_rx_callback on a streaming thread of its own with blocks of any  *)
(* size; the driver hands on blocks of exactly sdr_buffer_len samples.     *)
(*                                                                         *)
(* libairspy is external: airspy_stop_rx returns after the streaming       *)
(* thread has left the callback; the driver frees the staging buffer on    *)
(* the strength of that.  A call to the tuner that fails may or may not    *)
(* have reached it.                                                        *)
(***************************************************************************)
EXTENDS Integers

CONSTANTS StagingSize,       \* sdr_buffer_len of the driver
          Transfers,         \* sample_count of the blocks of libairspy
          TunerRates,        \* rates that the tuner supports
          MaxReceived        \* bound: samples received in one streaming session

\* airspy_create refuses an sdr_buffer_len of 0.
ASSUME AirspyAssumption ==
  /\ StagingSize \in Nat \ {0}
  /\ Transfers \subseteq Nat \ {0}
  /\ TunerRates \subseteq Nat \ {0}
  /\ MaxReceived \in Nat

GainModes == {"auto", "sensitivity", "linearity", "manual"}

VARIABLES airspyState,         \* "creating", "open", "closed"
          gain_mode,
          airspyRate,          \* current_sample_rate; 0 is unknown
          tuner,               \* the tuner: its sample rate, its automatic gain control
          airspyCode,          \* what the last airspy_set_rx_parameters returned
          streaming,           \* the streaming thread runs
          staging_len,
          remaining,           \* of the block that airspy_rx_callback works on
          received, delivered, \* ghosts: samples that came, blocks that were handed on
          rateLost             \* ghost: the last airspy_set_samplerate failed

airspyVars == <<airspyState, gain_mode, airspyRate, tuner, airspyCode, streaming, staging_len,
                remaining, received, delivered, rateLost>>

streamVars == <<streaming, staging_len, remaining, received, delivered>>
tunerVars == <<airspyRate, tuner, airspyCode, rateLost>>

AirspyInit ==
  /\ airspyState = "creating"
  /\ gain_mode \in GainModes
  /\ airspyRate = 0
  /\ tuner = [rate |-> 0, agc |-> FALSE]
  /\ airspyCode = -1
  /\ streaming = FALSE
  /\ staging_len = 0 /\ remaining = 0
  /\ received = 0 /\ delivered = 0
  /\ rateLost = FALSE

-----------------------------------------------------------------------------
\* airspy_set_sample_rate of a supported rate; ok is the outcome of airspy_set_samplerate.
AirspySetRate(rate, ok) ==
  \/ ok /\ airspyRate' = rate /\ tuner' = [tuner EXCEPT !.rate = rate] /\ rateLost' = FALSE
  \/ /\ ~ok
     /\ tuner' \in {tuner, [tuner EXCEPT !.rate = rate]}
     /\ rateLost' = TRUE
     /\ UNCHANGED airspyRate

\* The end of airspy_create with settings->sample_rate; without one the rate stays unknown.
\* A failure is followed by airspy_destroy.
AirspyCreate ==
  /\ airspyState = "creating"
  /\ \/ airspyState' = "open" /\ UNCHANGED <<airspyRate, tuner, rateLost>>
     \/ \E rate \in TunerRates : AirspySetRate(rate, TRUE) /\ airspyState' = "open"
     \/ \E rate \in TunerRates : AirspySetRate(rate, FALSE) /\ airspyState' = "closed"
     \/ airspyState' = "closed" /\ UNCHANGED <<airspyRate, tuner, rateLost>>
  /\ UNCHANGED <<gain_mode, airspyCode, streamVars>>

\* A rate that the tuner does not support, or another setting out of its range.
AirspyRefuses ==
  /\ airspyState = "open"
  /\ airspyCode' = -1
  /\ UNCHANGED <<airspyState, gain_mode, airspyRate, tuner, rateLost, streamVars>>

\* airspy_apply_gain: what it writes to the gain control.
AgcOf(mode) == mode = "auto"

\* The rest of airspy_set_rx_parameters once the rate is set: frequency and gain, each of
\* whose calls may fail; t is the tuner after the rate.
AirspyTuneAndGain(t) ==
  \/ airspyCode' = 0 /\ tuner' = [t EXCEPT !.agc = AgcOf(gain_mode)]
  \/ airspyCode' = -1 /\ tuner' \in {t, [t EXCEPT !.agc = AgcOf(gain_mode)]}

\* airspy_set_rx_parameters
AirspySetParameters(rate) ==
  /\ airspyState = "open"
  /\ rate \in TunerRates
  /\ \/ airspyRate = rate /\ AirspyTuneAndGain(tuner) /\ UNCHANGED <<airspyRate, rateLost>>
     \/ /\ airspyRate # rate
        /\ AirspyTuneAndGain([tuner EXCEPT !.rate = rate])
        /\ airspyRate' = rate
        /\ rateLost' = FALSE
     \/ airspyRate # rate /\ AirspySetRate(rate, FALSE) /\ airspyCode' = -1
  /\ UNCHANGED <<airspyState, gain_mode, streamVars>>

-----------------------------------------------------------------------------
\* Mutant: what the last session left in the staging buffer stays there.
AirspyStartRxKeepsStaging ==
  /\ airspyState = "open"
  /\ ~streaming
  /\ streaming' \in BOOLEAN
  /\ received' = 0 /\ delivered' = 0
  /\ UNCHANGED <<airspyState, gain_mode, tunerVars, staging_len, remaining>>

\* airspy_start_rx; libairspy may refuse.
AirspyStartRx ==
  /\ airspyState = "open"
  /\ ~streaming
  /\ staging_len' = 0
  /\ streaming' \in BOOLEAN
  /\ received' = 0 /\ delivered' = 0
  /\ UNCHANGED <<airspyState, gain_mode, tunerVars, remaining>>

\* The streaming thread enters airspy_rx_callback.
AirspyTransfer(n) ==
  /\ streaming
  /\ remaining = 0
  /\ received + n <= MaxReceived
  /\ remaining' = n
  /\ received' = received + n
  /\ UNCHANGED <<airspyState, gain_mode, tunerVars, streaming, staging_len, delivered>>

\* One turn of its loop; a full staging buffer goes to the callback.
AirspyStage ==
  /\ remaining > 0
  /\ LET free == StagingSize - staging_len
         len  == IF free > remaining THEN remaining ELSE free
     IN  /\ remaining' = remaining - len
         /\ \/ /\ staging_len + len = StagingSize
               /\ staging_len' = 0
               /\ delivered' = delivered + 1
            \/ /\ staging_len + len # StagingSize
               /\ staging_len' = staging_len + len
               /\ UNCHANGED delivered
  /\ UNCHANGED <<airspyState, gain_mode, tunerVars, streaming, received>>

\* airspy_stop_rx: waits for the callback to return.
AirspyStopRx ==
  /\ airspyState = "open"
  /\ remaining = 0
  /\ streaming' = FALSE
  /\ UNCHANGED <<airspyState, gain_mode, tunerVars, staging_len, remaining, received, delivered>>

\* airspy_destroy of a device that was opened: it stops the stream first.
AirspyDestroy ==
  /\ airspyState = "open"
  /\ remaining = 0
  /\ streaming' = FALSE
  /\ airspyState' = "closed"
  /\ UNCHANGED <<gain_mode, tunerVars, staging_len, remaining, received, delivered>>

AirspyNext ==
  \/ AirspyCreate
  \/ AirspyRefuses
  \/ \E rate \in TunerRates : AirspySetParameters(rate)
  \/ AirspyStartRx
  \/ \E n \in Transfers : AirspyTransfer(n)
  \/ AirspyStage
  \/ AirspyStopRx
  \/ AirspyDestroy

-----------------------------------------------------------------------------
\* No sample is lost, repeated or held back by more than a block: what was received since
\* airspy_start_rx is what was handed on in blocks of sdr_buffer_len, plus what waits in the
\* staging buffer, plus what is left of the block in hand.
StagingConserves ==
  /\ received = delivered * StagingSize + staging_len + remaining
  /\ staging_len \in 0..(StagingSize - 1)

=============================================================================
