------------------------------- MODULE PlutoSdr -------------------------------
(***************************************************************************)
(* src/sdr/plutosdr.c: the driver of the PlutoSDR.  The rx worker's and    *)
(* the tx worker's threads call it without a lock between them; both       *)
(* change the one sample rate of the chip.  A call is a sequence of writes *)
(* to the chip, each of which may fail.                                    *)
(*                                                                         *)
(* The chip is external: a write that fails may or may not have reached    *)
(* it.  Frequencies, gains and the analog bandwidth are written and never  *)
(* looked at again, so only the outcome of those writes is modelled.       *)
(***************************************************************************)
EXTENDS Integers, FiniteSets

CONSTANTS Threads,         \* threads that use the device, a subset of {"rx", "tx"}
          Rates,           \* the sample rates that clients ask for
          SdrBufferLen,    \* sdr_buffer_len
          Frames           \* lengths of what is transmitted, in samples

MIN_FIR_FILTER == 520834
MIN_FIR_FILTER_2 == 1041667
MIN_NO_FIR_FILTER == 2083334

\* sdr_buffer_len / 2 is the largest batch: with one sample there would be none.
ASSUME PlutoAssumption ==
  /\ Threads \subseteq {"rx", "tx"}
  /\ Rates \subseteq Nat
  /\ Frames \subseteq Nat
  /\ SdrBufferLen \in Nat /\ SdrBufferLen >= 2

VARIABLES plutoState,                \* "creating", "hasTxLo", "open" or "closed"
          plutoPc,                   \* thread -> the next write of its call
          want,                 \* thread -> config->sample_rate of its call, 0 outside
          current_sample_rate,
          chip,                 \* the ad9361: sample rate, FIR filter, tx oscillator
          rx_buffer, tx_buffer, \* 0 stands for NULL
          iioBuffers,           \* buffers that libiio has allocated
          txLeft,               \* samples that plutosdr_process_tx still has to push
          alone,                \* ghost, thread -> no other changed the rate during its change
          disturbed             \* ghost: the last change of the rate failed or was not alone

plutoVars == <<plutoState, plutoPc, want, current_sample_rate, chip, rx_buffer, tx_buffer,
           iioBuffers, txLeft, alone, disturbed>>

Users == {"rx", "tx"}

-----------------------------------------------------------------------------
\* plutosdr_select_fir_filter_config: 0 stands for no filter.
Decimation(rate) ==
  CASE rate < MIN_FIR_FILTER_2 -> 4
    [] rate >= MIN_FIR_FILTER_2 /\ rate < MIN_NO_FIR_FILTER -> 2
    [] OTHER -> 0

\* plutosdr_create up to the sample rate: the chip comes as the previous user left it.
\* A rate in the settings is written by the same function as later ones.
PlutoInit ==
  /\ \E rate \in Rates \cap {r \in Nat : r >= MIN_FIR_FILTER}, lo \in BOOLEAN :
       /\ chip = [rate |-> rate, fir |-> Decimation(rate) # 0, taps |-> Decimation(rate), txLo |-> lo]
       /\ current_sample_rate = rate
  /\ plutoState = "creating"
  /\ plutoPc = [t \in Users |-> "idle"]
  /\ want = [t \in Users |-> 0]
  /\ rx_buffer = 0 /\ tx_buffer = 0
  /\ iioBuffers = {}
  /\ txLeft = 0
  /\ alone = [t \in Users |-> TRUE]
  /\ disturbed = FALSE

\* Never changed while parameters are set.
bufferVars == <<rx_buffer, tx_buffer, iioBuffers, txLeft>>

Goto(t, p) == plutoPc' = [plutoPc EXCEPT ![t] = p]

\* Return from the call of thread t.
Return(t) == Goto(t, "idle") /\ want' = [want EXCEPT ![t] = 0]

Calling(t, p) == t \in Threads /\ plutoPc[t] = p

\* The writes of plutosdr_set_sample_rate, and the assignment that follows it.
RateWrites == {"firTaps", "firOn", "rate", "bandwidth", "firOff", "cache"}

\* Where plutosdr_set_sample_rate starts for a rate.
FirstWrite(rate) == IF Decimation(rate) # 0 THEN "firTaps" ELSE "rate"

\* plutosdr_set_sample_rate is entered; the ghost records whom it overlaps with.
EnterSetRate(t, rate) ==
  LET others == {u \in Users \ {t} : plutoPc[u] \in RateWrites}
  IN  /\ Goto(t, FirstWrite(rate))
      /\ alone' = [u \in Users |-> IF u = t THEN others = {} ELSE alone[u] /\ u \notin others]

\* plutosdr_set_sample_rate fails; in plutosdr_create that is the end of the device.
RateFails(t) ==
  /\ Goto(t, IF plutoState = "hasTxLo" THEN "failed" ELSE "idle")
  /\ want' = [want EXCEPT ![t] = 0]
  /\ alone' = [alone EXCEPT ![t] = TRUE]
  /\ disturbed' = TRUE

\* plutosdr_create finds the tx oscillator; tx_powerdown is a setting and the outcome of
\* its write is ignored.
PlutoCreateFindsTxLo ==
  /\ plutoState = "creating"
  /\ plutoState' = "hasTxLo"
  /\ \E lo \in {FALSE, chip.txLo} : chip' = [chip EXCEPT !.txLo = lo]
  /\ UNCHANGED <<plutoPc, want, current_sample_rate, alone, disturbed, bufferVars>>

\* plutosdr_create with settings->sample_rate; too low a rate is refused.
PlutoCreateSetsRate(rate) ==
  /\ plutoState = "hasTxLo"
  /\ plutoPc["rx"] = "idle"
  /\ rate # current_sample_rate
  /\ \/ rate < MIN_FIR_FILTER /\ Goto("rx", "failed") /\ UNCHANGED <<want, alone>>
     \/ /\ rate >= MIN_FIR_FILTER
        /\ EnterSetRate("rx", rate)
        /\ want' = [want EXCEPT !["rx"] = rate]
  /\ UNCHANGED <<plutoState, current_sample_rate, chip, disturbed, bufferVars>>

\* The end of plutosdr_create when the settings give no other rate.
PlutoCreateEnds ==
  /\ plutoState = "hasTxLo"
  /\ plutoPc["rx"] = "idle"
  /\ plutoState' = "open"
  /\ UNCHANGED <<plutoPc, want, current_sample_rate, chip, alone, disturbed, bufferVars>>

-----------------------------------------------------------------------------
\* Mutant: the oscillator is not powered up for a transmission.
PoweredForForgotten(t) == chip

\* The previous session or tx_powerdown could have left the tx oscillator powered down.
PoweredFor(t) == IF t = "tx" THEN [chip EXCEPT !.txLo = TRUE] ELSE chip

\* plutosdr_set_rx_parameters and plutosdr_set_tx_parameters: the ranges are checked,
\* then the oscillator is set, for tx after it was powered up.
PlutoSetParameters(t, rate) ==
  /\ plutoState = "open"
  /\ Calling(t, "idle")
  /\ \/ rate < MIN_FIR_FILTER /\ Return(t) /\ UNCHANGED chip
     \/ rate >= MIN_FIR_FILTER /\ Return(t) /\ chip' \in {chip, PoweredFor(t)}
     \/ /\ rate >= MIN_FIR_FILTER
        /\ chip' = PoweredFor(t)
        /\ want' = [want EXCEPT ![t] = rate]
        /\ Goto(t, "compare")
  /\ UNCHANGED <<plutoState, current_sample_rate, alone, disturbed, bufferVars>>

\* current_sample_rate is compared with the rate of the call.
CompareRate(t) ==
  /\ Calling(t, "compare")
  /\ \/ current_sample_rate = want[t] /\ Goto(t, "gain") /\ UNCHANGED alone
     \/ current_sample_rate # want[t] /\ EnterSetRate(t, want[t])
  /\ UNCHANGED <<plutoState, want, current_sample_rate, chip, disturbed, bufferVars>>

\* A write p of plutosdr_set_sample_rate that makes the chip c.
Write(t, p, c, next) ==
  /\ Calling(t, p)
  /\ \/ chip' = c /\ Goto(t, next) /\ UNCHANGED <<want, alone, disturbed>>
     \/ chip' \in {chip, c} /\ RateFails(t)
  /\ UNCHANGED <<plutoState, current_sample_rate, bufferVars>>

\* "filter_fir_config"
WriteFirTaps(t) == Write(t, "firTaps", [chip EXCEPT !.taps = Decimation(want[t])], "firOn")

\* "in_out_voltage_filter_fir_en", on
WriteFirOn(t) == Write(t, "firOn", [chip EXCEPT !.fir = TRUE], "rate")

\* "sampling_frequency"
WriteRate(t) == Write(t, "rate", [chip EXCEPT !.rate = want[t]], "bandwidth")

\* "rf_bandwidth": its failure counts only when the filter is used.
WriteBandwidth(t) ==
  \/ Decimation(want[t]) # 0 /\ Write(t, "bandwidth", chip, "cache")
  \/ /\ Decimation(want[t]) = 0
     /\ Calling(t, "bandwidth")
     /\ Goto(t, "firOff")
     /\ UNCHANGED <<plutoState, want, current_sample_rate, chip, alone, disturbed, bufferVars>>

\* Mutant: the filter stays on.
WriteFirOffForgotten(t) == Write(t, "firOff", chip, "cache")

\* "ensure filter disabled if not needed"
WriteFirOff(t) == Write(t, "firOff", [chip EXCEPT !.fir = FALSE], "cache")

\* current_sample_rate follows a change that succeeded as a whole.
CacheRate(t) ==
  /\ Calling(t, "cache")
  /\ current_sample_rate' = want[t]
  /\ disturbed' = ~alone[t]
  /\ alone' = [alone EXCEPT ![t] = TRUE]
  /\ \/ plutoState = "hasTxLo" /\ plutoState' = "open" /\ Return(t)
     \/ plutoState = "open" /\ Goto(t, "gain") /\ UNCHANGED <<plutoState, want>>
  /\ UNCHANGED <<chip, bufferVars>>

\* "hardwaregain" (for rx in the manual mode only); tx goes on to its buffer.
WriteGain(t) ==
  /\ Calling(t, "gain")
  /\ \/ Return(t)
     \/ t = "tx" /\ Goto(t, "buffer") /\ UNCHANGED want
  /\ UNCHANGED <<plutoState, current_sample_rate, chip, alone, disturbed, bufferVars>>

-----------------------------------------------------------------------------
\* iio_device_create_buffer in place of a buffer that was destroyed; it may fail.
\* External: the allocation is libiio's.
NewBuffer(old, left, new) ==
  \/ /\ new = 1 + CHOOSE n \in 0..2 : n + 1 \notin left \ {old}
     /\ iioBuffers' = (left \ {old}) \cup {new}
  \/ new = 0 /\ iioBuffers' = left \ {old}

\* Mutant: a buffer that is replaced is not destroyed.
PlutoCreateTxBufferLeaks ==
  /\ Calling("tx", "buffer")
  /\ \E b \in 0..3 : NewBuffer(0, iioBuffers, b) /\ tx_buffer' = b
  /\ Return("tx")
  /\ UNCHANGED <<plutoState, current_sample_rate, chip, rx_buffer, txLeft, alone, disturbed>>

\* The end of plutosdr_set_tx_parameters
PlutoCreateTxBuffer ==
  /\ Calling("tx", "buffer")
  /\ \E b \in 0..3 : NewBuffer(tx_buffer, iioBuffers, b) /\ tx_buffer' = b
  /\ Return("tx")
  /\ UNCHANGED <<plutoState, current_sample_rate, chip, rx_buffer, txLeft, alone, disturbed>>

\* plutosdr_start_rx
PlutoStartRx ==
  /\ plutoState = "open"
  /\ Calling("rx", "idle")
  /\ \E b \in 0..3 : NewBuffer(rx_buffer, iioBuffers, b) /\ rx_buffer' = b
  /\ UNCHANGED <<plutoState, plutoPc, want, current_sample_rate, chip, tx_buffer, txLeft, alone,
                 disturbed>>

\* plutosdr_stop_rx
PlutoStopRx ==
  /\ plutoState = "open"
  /\ Calling("rx", "idle")
  /\ iioBuffers' = iioBuffers \ {rx_buffer}
  /\ rx_buffer' = 0
  /\ UNCHANGED <<plutoState, plutoPc, want, current_sample_rate, chip, tx_buffer, txLeft, alone,
                 disturbed>>

\* plutosdr_process_tx: without a buffer it fails at once.
PlutoProcessTx(len) ==
  /\ plutoState = "open"
  /\ Calling("tx", "idle")
  /\ tx_buffer # 0
  /\ len > 0
  /\ txLeft' = len
  /\ Goto("tx", "push")
  /\ UNCHANGED <<plutoState, want, current_sample_rate, chip, rx_buffer, tx_buffer, iioBuffers,
                 alone, disturbed>>

\* Mutant: the last batch is one sample short.
BatchTooShort == IF txLeft > SdrBufferLen \div 2 THEN SdrBufferLen \div 2 ELSE txLeft - 1

\* The number of samples of the next push.
Batch == IF txLeft > SdrBufferLen \div 2 THEN SdrBufferLen \div 2 ELSE txLeft

\* One turn of its loop.
PlutoPush ==
  /\ Calling("tx", "push")
  /\ txLeft' = txLeft - Batch
  /\ Goto("tx", IF txLeft' = 0 THEN "idle" ELSE "push")
  /\ UNCHANGED <<plutoState, want, current_sample_rate, chip, rx_buffer, tx_buffer, iioBuffers,
                 alone, disturbed>>

\* iio_buffer_push_partial fails: the rest of the frame is dropped.
PlutoPushFails ==
  /\ Calling("tx", "push")
  /\ txLeft' = 0
  /\ Goto("tx", "idle")
  /\ UNCHANGED <<plutoState, want, current_sample_rate, chip, rx_buffer, tx_buffer, iioBuffers,
                 alone, disturbed>>

\* plutosdr_destroy, called when plutosdr_create fails, or after both workers have ended.  The
\* oscillator is powered down if it was found and the write succeeds.
PlutoDestroy ==
  /\ plutoState \in {"creating", "hasTxLo", "open"}
  /\ \A t \in Users : plutoPc[t] \in {"idle", "failed"}
  /\ plutoState' = "closed"
  /\ iioBuffers' = iioBuffers \ {rx_buffer, tx_buffer}
  /\ \/ UNCHANGED chip
     \/ plutoState # "creating" /\ chip' = [chip EXCEPT !.txLo = FALSE]
  /\ UNCHANGED <<plutoPc, want, current_sample_rate, rx_buffer, tx_buffer, txLeft, alone, disturbed>>

RateStep(t) ==
  \/ CompareRate(t) \/ WriteFirTaps(t) \/ WriteFirOn(t) \/ WriteRate(t)
  \/ WriteBandwidth(t) \/ WriteFirOff(t) \/ CacheRate(t) \/ WriteGain(t)

PlutoNext ==
  \/ PlutoCreateFindsTxLo
  \/ \E rate \in Rates : PlutoCreateSetsRate(rate)
  \/ PlutoCreateEnds
  \/ \E t \in Users : RateStep(t)
  \/ \E t \in Users, rate \in Rates : PlutoSetParameters(t, rate)
  \/ PlutoCreateTxBuffer
  \/ PlutoStartRx
  \/ PlutoStopRx
  \/ \E len \in Frames : PlutoProcessTx(len)
  \/ PlutoPush
  \/ PlutoPushFails
  \/ PlutoDestroy

=============================================================================
