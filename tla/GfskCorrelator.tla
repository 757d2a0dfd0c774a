---------------------------- MODULE GfskCorrelator ----------------------------
(***************************************************************************)
(* src/dsp/gfsk_correlator.c: finds the sync word in a stream of samples   *)
(* and samples the symbols of the burst behind it.  The stream comes in    *)
(* calls of any length up to max_input_buffer_length; every position is an *)
(* index into a buffer that is shifted at the end of each call.            *)
(*                                                                         *)
(* The samples themselves are abstracted to how strongly the window that   *)
(* ends at each of them correlates: 0 is below the threshold.  The values  *)
(* are compared and never computed with.  sample_position, the one         *)
(* fractional index, is counted in half samples; the interpolation of the  *)
(* peak moves it by at most one of them either way.                        *)
(***************************************************************************)
EXTENDS Integers

CONSTANTS Sps,               \* samples per symbol
          SyncwordBits,      \* syncword_bits
          PeakSearchSymbols, \* GFSK_CORRELATOR_PEAK_SEARCH_SYMBOLS
          BurstSymbols,      \* burst_symbols
          Strengths,         \* correlation values
          MaxTotal           \* bound: samples of the stream

\* What gfsk_correlator_create accepts.
ASSUME CorrelatorAssumption ==
  /\ Sps \in Nat /\ Sps >= 2 /\ Sps % 2 = 0
  /\ SyncwordBits \in Nat \ {0}
  /\ PeakSearchSymbols \in Nat \ {0}
  /\ BurstSymbols \in Nat
  /\ Strengths \subseteq Nat /\ 0 \in Strengths
  /\ MaxTotal \in Nat

\* gfsk_correlator_create
TemplateLen == SyncwordBits * Sps
PeakSearchLen == PeakSearchSymbols * Sps
BurstLen == BurstSymbols * Sps
\* Mutant: the sampler does not wait for the end of the search.
SamplerLagShort == TemplateLen + Sps
SamplerLag == TemplateLen + PeakSearchLen + Sps
\* Mutant: no room for the interpolation.
HistoryLenTight == SamplerLag
HistoryLen == SamplerLag + 2 * Sps

VARIABLES max_input_buffer_length,
          loop,              \* "idle" between calls, "correlate", "sample" in the loops
          samples_len,
          correlator_index, holdoff_index,
          peak_search, peak_index, peak_value,
          burst_peak, burst_end_index,
          sample_position,   \* in half samples
          num_symbols,
          base,              \* ghost: samples shifted out; an index + base is absolute
          lastSymbol,        \* ghost: absolute position of the last symbol, in half samples
          holdoffAt, burstEndAt \* ghosts: absolute holdoff_index and burst_end_index

\* Mutant: no room for the fractional sample position.
OutputLenExact == max_input_buffer_length \div Sps
\* The symbols that output has room for
OutputLen == max_input_buffer_length \div Sps + 4

peakVars == <<peak_search, peak_index, peak_value>>
burstVars == <<holdoff_index, burst_peak, burst_end_index, holdoffAt, burstEndAt>>
correlatorVars == <<max_input_buffer_length, loop, samples_len, correlator_index, peakVars,
                    burstVars, sample_position, num_symbols, base, lastSymbol>>

CorrelatorInit ==
  /\ max_input_buffer_length \in Nat
  /\ loop = "idle"
  /\ samples_len = HistoryLen
  /\ correlator_index = HistoryLen
  /\ holdoff_index = 0 /\ holdoffAt = 0
  /\ peak_search = FALSE /\ peak_index = 0 /\ peak_value = 0
  /\ burst_peak = 0 /\ burst_end_index = 0 /\ burstEndAt = 0
  /\ sample_position = 2 * HistoryLen
  /\ num_symbols = 0
  /\ base = 0
  /\ lastSymbol = -2 * Sps

-----------------------------------------------------------------------------
\* gfsk_correlator_process is called; a longer input is refused.
CorrelatorProcess(input_len) ==
  /\ loop = "idle"
  /\ input_len <= max_input_buffer_length
  /\ base + input_len <= MaxTotal
  /\ loop' = "correlate"
  /\ samples_len' = HistoryLen + input_len
  /\ num_symbols' = 0
  /\ UNCHANGED <<max_input_buffer_length, correlator_index, peakVars, burstVars, sample_position,
                 base, lastSymbol>>

\* Mutant: a sync word in the payload re-times the burst whatever its strength.
MinValueIgnored == 0

\* What a correlation has to exceed.
MinValue == IF correlator_index < burst_end_index THEN burst_peak ELSE 0

\* A better candidate for the peak
Detects(value) ==
  /\ correlator_index >= holdoff_index
  /\ value >= 1
  /\ value > MinValue
  /\ peak_search => value > peak_value

\* The search for the peak has come to its end.
SyncDue == peak_search /\ correlator_index - peak_index >= PeakSearchLen

\* The window that ends at correlator_index correlates better than all before it.
Detect(value) ==
  /\ loop = "correlate" /\ correlator_index < samples_len
  /\ Detects(value)
  /\ peak_search' = TRUE
  /\ peak_index' = correlator_index
  /\ peak_value' = value
  /\ loop' = "sample"
  /\ UNCHANGED <<max_input_buffer_length, samples_len, correlator_index, burstVars,
                 sample_position, num_symbols, base, lastSymbol>>

\* It does not, and the search goes on or there is none.
NoPeak(value) ==
  /\ loop = "correlate" /\ correlator_index < samples_len
  /\ ~Detects(value) /\ ~SyncDue
  /\ loop' = "sample"
  /\ UNCHANGED <<max_input_buffer_length, samples_len, correlator_index, peakVars, burstVars,
                 sample_position, num_symbols, base, lastSymbol>>

\* The centre of the first symbol of the sync word that ends at the peak
SyncPosition(fraction) ==
  2 * peak_index + fraction - 2 * (TemplateLen - 1) + 2 * (Sps \div 2)

\* gfsk_correlator_sync
Sync(value, fraction) ==
  /\ loop = "correlate" /\ correlator_index < samples_len
  /\ ~Detects(value) /\ SyncDue
  /\ sample_position' = SyncPosition(fraction)
  /\ holdoff_index' = peak_index + TemplateLen
  /\ holdoffAt' = base + peak_index + TemplateLen
  /\ peak_search' = FALSE
  /\ burst_peak' = peak_value
  /\ burst_end_index' = peak_index + BurstLen
  /\ burstEndAt' = base + peak_index + BurstLen
  /\ loop' = "sample"
  /\ UNCHANGED <<max_input_buffer_length, samples_len, correlator_index, peak_index, peak_value,
                 num_symbols, base, lastSymbol>>

\* The sampler is so far behind that the next symbol is due.
SymbolDue == sample_position + 2 * SamplerLag <= 2 * correlator_index

\* gfsk_correlator_output_symbol
OutputSymbol ==
  /\ loop = "sample" /\ SymbolDue
  /\ num_symbols' = num_symbols + 1
  /\ lastSymbol' = sample_position + 2 * base
  /\ sample_position' = sample_position + 2 * Sps
  /\ UNCHANGED <<max_input_buffer_length, loop, samples_len, correlator_index, peakVars,
                 burstVars, base>>

\* The next sample of the input
NextSample ==
  /\ loop = "sample" /\ ~SymbolDue
  /\ correlator_index' = correlator_index + 1
  /\ loop' = "correlate"
  /\ UNCHANGED <<max_input_buffer_length, samples_len, peakVars, burstVars, sample_position,
                 num_symbols, base, lastSymbol>>

\* Mutant: an index is not shifted with the buffer.
ShiftedForgotten(index, shift) == index

\* A position that does not go below 0.
Shifted(index, shift) == IF index > shift THEN index - shift ELSE 0

\* The end of gfsk_correlator_process: the history moves to the front.
ShiftHistory ==
  /\ loop = "correlate" /\ correlator_index >= samples_len
  /\ LET shift == samples_len - HistoryLen
     IN  /\ correlator_index' = correlator_index - shift
         /\ sample_position' = sample_position - 2 * shift
         /\ holdoff_index' = Shifted(holdoff_index, shift)
         /\ burst_end_index' = Shifted(burst_end_index, shift)
         /\ peak_index' = IF peak_search THEN peak_index - shift ELSE peak_index
         /\ base' = base + shift
  /\ loop' = "idle"
  /\ UNCHANGED <<max_input_buffer_length, samples_len, peak_search, peak_value, burst_peak,
                 holdoffAt, burstEndAt, num_symbols, lastSymbol>>

CorrelatorStep ==
  \/ \E value \in Strengths : Detect(value) \/ NoPeak(value)
  \/ \E value \in Strengths, fraction \in -1..1 : Sync(value, fraction)
  \/ OutputSymbol
  \/ NextSample
  \/ ShiftHistory

CorrelatorNext ==
  \/ \E input_len \in 0..max_input_buffer_length : CorrelatorProcess(input_len)
  \/ CorrelatorStep

CorrelatorSpec == CorrelatorInit /\ [][CorrelatorNext]_correlatorVars

-----------------------------------------------------------------------------
CorrelatorTypeOK ==
  /\ max_input_buffer_length \in Nat
  /\ loop \in {"idle", "correlate", "sample"}
  /\ samples_len \in HistoryLen..(HistoryLen + max_input_buffer_length)
  /\ correlator_index \in HistoryLen..samples_len
  /\ holdoff_index \in Nat /\ burst_end_index \in Nat
  /\ peak_search \in BOOLEAN /\ peak_index \in Nat
  /\ peak_value \in Strengths /\ burst_peak \in Strengths
  /\ sample_position \in Int
  /\ num_symbols \in Nat
  /\ base \in Nat /\ lastSymbol \in Int /\ holdoffAt \in Nat /\ burstEndAt \in Nat

\* Every read stays inside the part of the buffer that holds samples: the two neighbours of a
\* symbol, and the windows around a peak, which may lie in the history of an earlier call.
ReadsInBounds ==
  /\ loop = "sample" /\ SymbolDue => /\ 0 <= sample_position
                                     /\ sample_position + 2 <= 2 * correlator_index
  /\ loop = "correlate" /\ SyncDue => /\ TemplateLen <= peak_index
                                      /\ peak_index + 1 <= correlator_index

\* However the sampler is re-timed and the stream cut into calls, it only moves forward: the
\* next symbol is at least a symbol behind the last one, so that no part of the stream is
\* sampled twice.
SampledOnce == sample_position + 2 * base >= lastSymbol + 2 * Sps

\* Inside a burst "only a stronger correlation than burst_peak starts a new one", and "the same
\* sync word is not detected twice": the candidate for the peak is behind the sync word that
\* was found last, and stronger than it as long as its burst goes on, also when calls have
\* shifted the positions since.
OnlyStrongerRetimes ==
  peak_search => /\ base + peak_index >= holdoffAt
                 /\ base + peak_index < burstEndAt => peak_value > burst_peak

\* It does not matter how the stream is cut into calls: a window is held off, and belongs to the
\* burst, exactly when it does in the stream as a whole, although the positions are shifted with
\* the buffer and stop at 0.
CutsInvisible ==
  /\ correlator_index >= holdoff_index <=> base + correlator_index >= holdoffAt
  /\ correlator_index < burst_end_index <=> base + correlator_index < burstEndAt

\* The symbols of a call fit into the output buffer.
OutputFits == num_symbols <= OutputLen

=============================================================================
