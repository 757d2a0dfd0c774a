------------------------------- MODULE SdrModem -------------------------------
(***************************************************************************)
(* src/dsp/sdr_modem.c around the modems it wraps: gfsk_modem.c, with a    *)
(* sync word and without, bpsk_modem.c and psk_pm_modem.c.  On rx the      *)
(* samples go through freq_offset.c and halfband_decim.c to the            *)
(* demodulator; on tx from the modulator and its resampler through         *)
(* halfband_interp.c and freq_offset.c.                                    *)
(*                                                                         *)
(* A buffer is its length.  A filter of the tx chain is "empty", holds     *)
(* "signal" that has not come out yet, or only the "tail" that was pushed  *)
(* in to get the signal out.  Time is counted in samples.                  *)
(***************************************************************************)
EXTENDS GfskCorrelator, ModemSettings, Sequences, FiniteSetsExt

CONSTANTS BufferSize,  \* buffer_size of sdr_modem_create
          Creations,   \* what a modem may be created with: settings, and the timestamps of a
                       \* frequency offset file; <<>>: no file
          Now,         \* the times a modem may be created at
          TxFlushLen, ResamplerMargin, HalfbandTail, \* lengths of the tx chain
          MaxCalls     \* bound: calls of sdr_modem_modulate and its flush

ASSUME ModemAssumption ==
  /\ \A c \in Creations : /\ c[1] \in SettingsRecords
                          /\ c[2] \in Seq(Nat)
                          /\ \A i, j \in 1..Len(c[2]) : i <= j => c[2][i] <= c[2][j]
  /\ {BufferSize, TxFlushLen, ResamplerMargin, HalfbandTail, MaxCalls} \subseteq Nat
  /\ Now \subseteq Nat

VARIABLES direction,       \* a modem is used for rx or for tx
          settings,        \* it was created with
          step,            \* "create", "refused" by the modem, "noOffset", "idle", "mix",
                           \* "decimate", "demodulate"
          bufferLen,       \* samples of the call
          processed,       \* of them, through freq_offset_process
          entries, current_index, virtual_time, \* freq_offset
          history_offset,  \* halfband_decim
          tx_pending,      \* of sdr_modem
          modemPending,    \* tx_pending of the wrapped modem
          reference,       \* tx_last_bit, tx_prev_symbol or the state of modemcf; 0: the initial one
          subcarrier,      \* phase of subcarrier_nco, on tx; 0: the initial one
          mod, resampler_tx, halfband_tx, \* filters of the tx chain
          calls,           \* bound
          rawIn,           \* ghost: samples of the stream so far
          demodulated,     \* ghost: samples that the wrapped modem was given
          refused,         \* ghost: a stage has refused a buffer as too long
          truncated        \* ghost: a filter was reset with signal in it

offsetVars == <<entries, current_index, virtual_time>>
txVars == <<tx_pending, modemPending, reference, subcarrier, mod, resampler_tx, halfband_tx, truncated>>
modemVars == <<direction, settings, step, bufferLen, processed, offsetVars, history_offset, txVars,
               calls, rawIn, demodulated, refused, correlatorVars>>

-----------------------------------------------------------------------------
Filters == {"empty", "signal", "tail"}

Decimation == Shift(HalfbandStages(settings))
Halfband == HalfbandStages(settings) > 0

\* The chain of the wrapped modem
ChainSps == SamplesPerSymbol(settings, BasebandRate(settings))
ChainRate == InternalRate(settings, BasebandRate(settings))
Resampling == NeedsResampling(settings, BasebandRate(settings))
\* gfsk with a sync word
Correlates == settings.modem_type = "gfsk" /\ settings.syncword_bits > 0
CeilDiv(a, b) == (a + b - 1) \div b
\* What a resampler from one rate to another makes of n samples
Resampled(n, from, to) == IF Resampling THEN {(n * to) \div from, CeilDiv(n * to, from)} ELSE {n}

\* GFSK_MODEM_TX_TAIL_SYMBOLS, and tx_tail_symbols of bpsk_modem_create
TailSymbols == IF settings.modem_type = "gfsk" THEN 6 ELSE 2 * settings.rrc_delay
FlushLen == IF Resampling THEN TxFlushLen ELSE 0

\* gfsk_modem_create and bpsk_modem_create: a byte is 8 bits, and a buffer fits the data or the
\* tail.
ModulationLen == (8 * BufferSize + TailSymbols) * ChainSps + FlushLen
\* max_modulation_buffer_length of the wrapped modem
WrappedOutputLen ==
  IF Resampling THEN CeilDiv(ModulationLen * BasebandRate(settings), ChainRate) + ResamplerMargin
                ELSE ModulationLen
\* halfband_interp_create
HalfbandOutputLen == (WrappedOutputLen + HalfbandTail) * Decimation
\* sdr_modem_max_modulation_buffer_length
ModemOutputLen == IF Halfband THEN HalfbandOutputLen ELSE WrappedOutputLen
\* resampler_rx_output_len of gfsk_modem_create, the longest input of the correlator
CorrelatorInputLen ==
  IF Resampling THEN CeilDiv(BufferSize * ChainRate, BasebandRate(settings)) + ResamplerMargin
                ELSE BufferSize
\* Mutant: the frequency offset has room for the rx buffer only.
OffsetOutputLenRxOnly == BufferSize
\* The buffer of freq_offset, in sdr_modem_create
OffsetOutputLen == Max({BufferSize, ModemOutputLen})

\* The number of the first entries a time has passed, at least one: where freq_offset_advance,
\* and the search in freq_offset_create, come to stand when they start from entry i.
Interval(file, i, time) ==
  Max({j \in i..Len(file) : \A k \in (i + 1)..j : file[k] <= time})

\* freq_offset_create: a file that starts at 0 goes with a recording.
OffsetInit ==
  \/ /\ entries = <<>> /\ current_index = 1 /\ virtual_time = 0
  \/ /\ Len(entries) > 0 /\ entries[1] = 0
     /\ current_index = 1 /\ virtual_time = 0
  \/ /\ Len(entries) > 0 /\ entries[1] # 0
     /\ virtual_time \in Now
     /\ current_index = Interval(entries, 1, virtual_time)

\* It refuses a file that has ended.
OffsetEnded ==
  /\ entries # <<>> /\ entries[1] # 0
  /\ current_index = Len(entries) /\ entries[current_index] < virtual_time

\* sdr_modem_create is called.
ModemInit ==
  /\ direction \in {"rx", "tx"}
  /\ \E c \in Creations : settings = c[1] /\ entries = c[2]
  /\ step = "create" /\ bufferLen = 0 /\ processed = 0
  /\ OffsetInit
  /\ history_offset = 0
  /\ tx_pending = FALSE /\ modemPending = FALSE /\ reference = 0 /\ subcarrier = 0
  /\ mod = "empty" /\ resampler_tx = "empty" /\ halfband_tx = "empty"
  /\ calls = 0 /\ rawIn = 0 /\ demodulated = 0 /\ refused = FALSE /\ truncated = FALSE
  /\ max_input_buffer_length = IF Correlates /\ WrappedAccepts(settings, BasebandRate(settings))
                               THEN CorrelatorInputLen ELSE 0
  /\ CorrelatorInit

\* sdr_modem_create: the wrapped modem is created for the rate behind the half-band stages, and
\* then the frequency offset, if there is a file; it may also be missing or malformed.
ModemCreate ==
  /\ step = "create"
  /\ \/ ~WrappedAccepts(settings, BasebandRate(settings)) /\ step' = "refused"
     \/ WrappedAccepts(settings, BasebandRate(settings)) /\ entries # <<>> /\ step' = "noOffset"
     \/ WrappedAccepts(settings, BasebandRate(settings)) /\ ~OffsetEnded /\ step' = "idle"
  /\ UNCHANGED <<direction, settings, bufferLen, processed, offsetVars, history_offset, txVars,
                 calls, rawIn, demodulated, refused, correlatorVars>>

-----------------------------------------------------------------------------
\* max_batch_samples: the smallest gap between entries, at least one sample
MaxBatch == Max({1, Min({entries[i + 1] - entries[i] : i \in 1..(Len(entries) - 1)})})

ChunkLen ==
  IF Len(entries) > 1 THEN Min({bufferLen - processed, MaxBatch}) ELSE bufferLen - processed

\* A call of freq_offset_process, if there is a file
StartMix(len, next) ==
  IF entries # <<>> /\ len > OffsetOutputLen
  THEN /\ refused' = TRUE /\ bufferLen' = 0 /\ step' = next
  ELSE /\ bufferLen' = len /\ UNCHANGED refused
       /\ step' = IF entries # <<>> THEN "mix" ELSE next

\* Mutant: freq_offset_advance stops after one entry.
AdvanceOne(time) ==
  IF current_index < Len(entries) /\ time >= entries[current_index + 1]
  THEN current_index + 1 ELSE current_index

\* freq_offset_advance
Advance(time) == Interval(entries, current_index, time)

\* One chunk of freq_offset_process, mixed with one frequency
MixChunk ==
  /\ step = "mix" /\ processed < bufferLen
  /\ virtual_time' = virtual_time + ChunkLen
  /\ current_index' = Advance(virtual_time')
  /\ processed' = processed + ChunkLen
  /\ UNCHANGED <<direction, settings, step, bufferLen, entries, history_offset, txVars,
                 calls, rawIn, demodulated, refused, correlatorVars>>

\* freq_offset_process returns.
MixEnd ==
  /\ step = "mix" /\ processed = bufferLen
  /\ processed' = 0
  /\ step' = IF direction = "rx" THEN "decimate" ELSE "idle"
  /\ UNCHANGED <<direction, settings, bufferLen, offsetVars, history_offset, txVars,
                 calls, rawIn, demodulated, refused, correlatorVars>>

\* sdr_modem_demodulate is called with what the SDR has received.
Demodulate(input_len) ==
  /\ direction = "rx" /\ step = "idle"
  /\ rawIn + input_len <= MaxTotal
  /\ rawIn' = rawIn + input_len
  /\ StartMix(input_len, "decimate")
  /\ UNCHANGED <<direction, settings, processed, offsetVars, history_offset, txVars,
                 calls, demodulated, correlatorVars>>

\* Mutant: samples that do not fill a block are dropped.
HalfbandHistoryDropped(working_len, blocks) == 0

\* The samples that halfband_decim_process keeps for the next call
HalfbandHistory(working_len, blocks) == working_len - blocks * Decimation

\* gfsk_correlator_process is called, with what the resampler has made of the samples.
CallCorrelator(m) ==
  IF m > max_input_buffer_length
  THEN refused' = TRUE /\ step' = "idle" /\ UNCHANGED correlatorVars
  ELSE UNCHANGED refused /\ step' = "demodulate" /\ CorrelatorProcess(m)

\* The wrapped modem is given n samples.  The correlator goes through them one by one; the
\* symbol synchronizer of the other demodulators takes the whole block.
CallDemodulator(n) ==
  /\ demodulated' = demodulated + n
  /\ \/ n > BufferSize /\ refused' = TRUE /\ step' = "idle" /\ UNCHANGED correlatorVars
     \/ /\ n <= BufferSize /\ Correlates
        /\ \E m \in Resampled(n, BasebandRate(settings), ChainRate) : CallCorrelator(m)
     \/ /\ n <= BufferSize /\ ~Correlates
        /\ step' = "idle" /\ UNCHANGED <<refused, correlatorVars>>

\* halfband_decim_process, if there is one, and the call of the wrapped modem
Decimate ==
  /\ step = "decimate"
  /\ LET working_len == history_offset + bufferLen
         blocks == Min({working_len \div Decimation, BufferSize \div Decimation + 1})
     IN  IF Halfband
         THEN history_offset' = HalfbandHistory(working_len, blocks) /\ CallDemodulator(blocks)
         ELSE CallDemodulator(bufferLen) /\ UNCHANGED history_offset
  /\ UNCHANGED <<direction, settings, bufferLen, processed, offsetVars, txVars, calls, rawIn>>

\* gfsk_correlator_process in gfsk_modem_demodulate
DemodulateStep ==
  /\ step = "demodulate"
  /\ CorrelatorStep
  /\ step' = IF loop' = "idle" THEN "idle" ELSE step
  /\ UNCHANGED <<direction, settings, bufferLen, processed, offsetVars, history_offset, txVars,
                 calls, rawIn, demodulated, refused>>

-----------------------------------------------------------------------------
\* gfsk_modem_modulate, bpsk_modem_modulate: the bits go through the modulator and the resampler.
ModulateBits(input_len) ==
  IF input_len > 0
  THEN /\ modemPending' = TRUE
       /\ reference' \in {0, 1}
       /\ mod' = "signal"
       /\ resampler_tx' = IF Resampling THEN "signal" ELSE resampler_tx
  ELSE UNCHANGED <<modemPending, reference, mod, resampler_tx>>

\* psk_pm_modem_modulate: they also turn the subcarrier.
PhaseModulate(input_len) ==
  subcarrier' \in IF input_len > 0 /\ settings.modem_type = "psk_pm" THEN {0, 1} ELSE {subcarrier}

\* sdr_modem_modulate; the wrapped modem refuses more than it was created for.
Modulate(input_len) ==
  /\ direction = "tx" /\ step = "idle"
  /\ calls < MaxCalls /\ calls' = calls + 1
  /\ input_len <= BufferSize
  /\ ModulateBits(input_len) /\ PhaseModulate(input_len)
  /\ tx_pending' = IF input_len > 0 THEN TRUE ELSE tx_pending
  /\ halfband_tx' = IF Halfband /\ input_len > 0 THEN "signal" ELSE halfband_tx
  /\ \E n \in Resampled(8 * input_len * ChainSps, ChainRate, BasebandRate(settings)) :
       IF Halfband /\ n > WrappedOutputLen
       THEN refused' = TRUE /\ UNCHANGED <<bufferLen, step>>
       ELSE StartMix(n * Decimation, "idle")
  /\ UNCHANGED <<direction, settings, processed, offsetVars, history_offset, truncated, rawIn,
                 demodulated, correlatorVars>>

\* Pushing a tail through a filter brings the signal out.
Pushed(filter) == IF filter = "signal" THEN "tail" ELSE filter

\* Mutant: the carrier stops at the last bit.
FlushedFiltersNoTail == {mod, Pushed(resampler_tx), Pushed(halfband_tx)}

\* gfsk_modem_modulate_flush, bpsk_modem_modulate_flush and halfband_interp_process_flush: the
\* modulator, the resampler and the interpolator when their tails are through
FlushedFilters == {Pushed(mod), Pushed(resampler_tx), Pushed(halfband_tx)}

\* The samples of the tail, for the modulator and then for the resampler
TailLen == TailSymbols * ChainSps + FlushLen

\* The end of the flush of the wrapped modem; psk_pm_modem_modulate_flush restarts the
\* subcarrier as well.
WrappedReset ==
  /\ mod' = "empty" /\ resampler_tx' = "empty" /\ reference' = 0
  /\ subcarrier' = 0

\* sdr_modem_modulate_flush; with nothing pending there is no output.
ModulateFlush ==
  /\ direction = "tx" /\ step = "idle"
  /\ calls < MaxCalls /\ calls' = calls + 1
  /\ IF ~tx_pending
     THEN UNCHANGED <<txVars, bufferLen, step, refused>>
     ELSE /\ \E n \in IF modemPending THEN Resampled(TailLen, ChainRate, BasebandRate(settings)) ELSE {0} :
               IF Halfband /\ n > WrappedOutputLen
               THEN refused' = TRUE /\ UNCHANGED <<bufferLen, step>>
               ELSE StartMix(IF Halfband THEN (n + HalfbandTail) * Decimation ELSE n, "idle")
          /\ IF modemPending THEN WrappedReset ELSE UNCHANGED <<mod, resampler_tx, reference, subcarrier>>
          /\ truncated' = (truncated \/ "signal" \in FlushedFilters)
          /\ halfband_tx' = "empty"
          /\ modemPending' = FALSE /\ tx_pending' = FALSE
  /\ UNCHANGED <<direction, settings, processed, offsetVars, history_offset, rawIn, demodulated,
                 correlatorVars>>

ModemNext ==
  \/ ModemCreate
  \/ \E input_len \in 0..BufferSize : Demodulate(input_len)
  \/ Decimate
  \/ DemodulateStep
  \/ MixChunk
  \/ MixEnd
  \/ \E input_len \in 0..BufferSize : Modulate(input_len)
  \/ ModulateFlush

ModemSpec == ModemInit /\ [][ModemNext]_modemVars

-----------------------------------------------------------------------------
\* Between two calls every sample of the stream has either gone to the demodulator, and there
\* through the correlator, or waits in the half-band decimator for the rest of its block: the
\* lengths the SDR delivers in do not matter.
SamplesConserved ==
  step = "idle" /\ direction = "rx" =>
    /\ rawIn = demodulated * Decimation + history_offset
    /\ Correlates /\ ~Resampling => base = demodulated

\* Because of the half-band stages sdr_modem_create refuses settings that the wrapped modem takes
\* at the sample rate of the SDR, but only these: gfsk with a bandwidth below its symbol rate, and
\* a low-pass cutoff at the symbol rate or above it ("lowpass cutoff is not valid at internal
\* sample rate", although the tests of bpsk_modem.c create the modem alone with 4800 and 6000 at
\* 4800 baud).  In all other settings the rate behind the stages is enough for the modem.
DecimationHarmConfined ==
  step = "refused" /\ WrappedAccepts(settings, settings.sample_rate) => BeyondEstimate(settings)

\* Whenever an offset is interpolated, the time is in the interval "virtual_time currently falls
\* in", so that the fraction is one: also behind entries with the same timestamp.
OffsetInInterval ==
  step = "mix" /\ processed < bufferLen =>
    \/ virtual_time <= entries[1]
    \/ current_index = Len(entries) /\ entries[current_index] <= virtual_time
    \/ /\ current_index < Len(entries)
       /\ entries[current_index] <= virtual_time /\ virtual_time < entries[current_index + 1]

\* No stage refuses what the stage before it makes of a buffer the modem has accepted, tails
\* and rounding included.
NothingRefused == ~refused

\* What modulate leaves in a filter comes out with the flush before the filter is reset, and
\* after the flush nothing is left in any of them: "every frame is a separate transmission".
FlushEndsTransmission ==
  /\ ~truncated
  /\ tx_pending = modemPending
  /\ ~tx_pending => /\ mod = "empty" /\ resampler_tx = "empty" /\ halfband_tx = "empty"
                    /\ reference = 0 /\ subcarrier = 0

=============================================================================
