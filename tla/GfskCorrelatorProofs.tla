------------------------- MODULE GfskCorrelatorProofs -------------------------
(***************************************************************************)
(* The correlator for every number of samples per symbol, sync word,       *)
(* search and burst length, and for calls of any length: it reads inside   *)
(* its buffer, samples no part of the stream twice, is re-timed only by a  *)
(* stronger sync word, and does not see how the stream was cut.            *)
(***************************************************************************)
EXTENDS GfskCorrelator, TLAPS

\* Where the loops of gfsk_correlator_process stand: between the calls the correlator is at the
\* end of the history.
LoopInv ==
  /\ loop = "idle" => correlator_index = HistoryLen
  /\ loop = "sample" => correlator_index < samples_len

\* The sampler is behind the correlator by the lag, and less than a sample more: all that is due
\* at an index is output there.  What was output last was due.
SamplerInv ==
  /\ sample_position + 2 * SamplerLag > 2 * (correlator_index - 1)
  /\ lastSymbol + 2 * SamplerLag <=
       2 * (base + correlator_index) - (IF loop = "sample" THEN 0 ELSE 2)
  /\ SampledOnce

\* The candidate for the peak is not older than the search is long.
SearchInv ==
  peak_search =>
    /\ peak_index + PeakSearchLen >= correlator_index + (IF loop = "sample" THEN 1 ELSE 0)
    /\ peak_index <= correlator_index - (IF loop = "sample" THEN 0 ELSE 1)

\* The shifted positions and the absolute ones
ShiftInv ==
  /\ holdoff_index = IF holdoffAt > base THEN holdoffAt - base ELSE 0
  /\ burst_end_index = IF burstEndAt > base THEN burstEndAt - base ELSE 0

CorrelatorInv ==
  /\ CorrelatorTypeOK
  /\ LoopInv
  /\ SamplerInv
  /\ SearchInv
  /\ ShiftInv
  /\ OnlyStrongerRetimes

\* The lengths gfsk_correlator_create computes
LEMMA Lengths ==
  /\ Sps \in Nat /\ Sps >= 2
  /\ TemplateLen \in Nat /\ TemplateLen >= 1
  /\ PeakSearchLen \in Nat /\ PeakSearchLen >= 1
  /\ BurstLen \in Nat
  /\ SamplerLag \in Nat /\ SamplerLag = TemplateLen + PeakSearchLen + Sps
  /\ HistoryLen \in Nat /\ HistoryLen = SamplerLag + 2 * Sps
  /\ Sps \div 2 \in Nat
  /\ Strengths \subseteq Nat /\ 0 \in Strengths
<1>1. /\ Sps \in Nat /\ Sps >= 2 /\ BurstSymbols \in Nat
      /\ SyncwordBits \in Nat /\ SyncwordBits >= 1
      /\ PeakSearchSymbols \in Nat /\ PeakSearchSymbols >= 1
  BY CorrelatorAssumption
<1>2. \A a, b \in Nat : a >= 1 /\ b >= 2 => a * b \in Nat /\ a * b >= 1
  OBVIOUS
<1>3. /\ TemplateLen \in Nat /\ TemplateLen >= 1
      /\ PeakSearchLen \in Nat /\ PeakSearchLen >= 1
  BY <1>1, <1>2 DEF TemplateLen, PeakSearchLen
<1>4. BurstLen \in Nat
  <2>1. \A a, b \in Nat : a * b \in Nat
    OBVIOUS
  <2>2. QED
    BY <1>1, <2>1 DEF BurstLen
<1>5. Sps \div 2 \in Nat
  BY <1>1
<1>6. Strengths \subseteq Nat /\ 0 \in Strengths
  BY CorrelatorAssumption
<1>7. QED
  BY <1>1, <1>3, <1>4, <1>5, <1>6 DEF SamplerLag, HistoryLen

\* gfsk_correlator_create establishes the invariant.
LEMMA InitInv == CorrelatorInit => CorrelatorInv
<1>1. SUFFICES ASSUME CorrelatorInit PROVE CorrelatorInv
  OBVIOUS
<1>2. CorrelatorTypeOK /\ LoopInv
  <2>1. peak_search \in BOOLEAN
    BY <1>1 DEF CorrelatorInit
  <2>2. QED
    BY <1>1, <2>1, Lengths DEF CorrelatorInit, CorrelatorTypeOK, LoopInv
<1>3. SamplerInv
  BY <1>1, Lengths DEF CorrelatorInit, SamplerInv, SampledOnce
<1>4. SearchInv /\ ShiftInv /\ OnlyStrongerRetimes
  BY <1>1 DEF CorrelatorInit, SearchInv, ShiftInv, OnlyStrongerRetimes
<1>5. QED
  BY <1>2, <1>3, <1>4 DEF CorrelatorInv

\* A call of gfsk_correlator_process keeps the invariant.
LEMMA ProcessInv ==
  ASSUME CorrelatorInv, NEW input_len \in 0..max_input_buffer_length,
         CorrelatorProcess(input_len)
  PROVE  CorrelatorInv'
<1> USE Lengths DEF CorrelatorInv, CorrelatorProcess, peakVars, burstVars
<1>1. CorrelatorTypeOK'
  BY DEF CorrelatorTypeOK, LoopInv
<1>2. LoopInv'
  BY DEF LoopInv
<1>3. SamplerInv'
  BY DEF SamplerInv, SampledOnce
<1>4. SearchInv'
  BY DEF SearchInv
<1>5. ShiftInv'
  BY DEF ShiftInv
<1>6. OnlyStrongerRetimes'
  BY DEF OnlyStrongerRetimes
<1>7. QED
  BY <1>1, <1>2, <1>3, <1>4, <1>5, <1>6

\* So does a better candidate for the peak.
LEMMA DetectInv ==
  ASSUME CorrelatorInv, NEW value \in Strengths,
         Detect(value)
  PROVE  CorrelatorInv'
<1> USE Lengths DEF CorrelatorInv, Detect, burstVars
<1>1. CorrelatorTypeOK'
  BY DEF CorrelatorTypeOK
<1>2. LoopInv'
  BY DEF LoopInv
<1>3. SamplerInv'
  BY DEF SamplerInv, SampledOnce, CorrelatorTypeOK
<1>4. SearchInv'
  BY DEF SearchInv, CorrelatorTypeOK
<1>5. ShiftInv'
  BY DEF ShiftInv
<1>6. OnlyStrongerRetimes'
  BY DEF OnlyStrongerRetimes, ShiftInv, CorrelatorTypeOK, Detects, MinValue
<1>7. QED
  BY <1>1, <1>2, <1>3, <1>4, <1>5, <1>6

\* So does a window without a peak.
LEMMA NoPeakInv ==
  ASSUME CorrelatorInv, NEW value \in Strengths,
         NoPeak(value)
  PROVE  CorrelatorInv'
<1> USE Lengths DEF CorrelatorInv, NoPeak, peakVars, burstVars
<1>1. CorrelatorTypeOK'
  BY DEF CorrelatorTypeOK
<1>2. LoopInv'
  BY DEF LoopInv
<1>3. SamplerInv'
  BY DEF SamplerInv, SampledOnce, CorrelatorTypeOK
<1>4. SearchInv'
  BY DEF SearchInv, CorrelatorTypeOK, SyncDue
<1>5. ShiftInv'
  BY DEF ShiftInv
<1>6. OnlyStrongerRetimes'
  BY DEF OnlyStrongerRetimes
<1>7. QED
  BY <1>1, <1>2, <1>3, <1>4, <1>5, <1>6

\* So does gfsk_correlator_sync: the search ends exactly PeakSearchLen behind the peak, and the
\* lag puts all that was output before it in front of the sync word.
LEMMA SyncInv ==
  ASSUME CorrelatorInv, NEW value \in Strengths, NEW fraction \in -1..1,
         Sync(value, fraction)
  PROVE  CorrelatorInv'
<1> USE Lengths DEF CorrelatorInv, Sync
<1>1. CorrelatorTypeOK'
  <2>1. SyncPosition(fraction) \in Int
    BY DEF CorrelatorTypeOK, SyncPosition
  <2>2. peak_search' \in BOOLEAN
    OBVIOUS
  <2>3. QED
    BY <2>1, <2>2 DEF CorrelatorTypeOK
<1>2. LoopInv'
  BY DEF LoopInv
<1>3. SamplerInv'
  BY DEF SamplerInv, SampledOnce, SearchInv, CorrelatorTypeOK, SyncDue, SyncPosition
<1>4. SearchInv'
  BY DEF SearchInv
<1>5. ShiftInv'
  BY DEF ShiftInv, CorrelatorTypeOK
<1>6. OnlyStrongerRetimes'
  BY DEF OnlyStrongerRetimes
<1>7. QED
  BY <1>1, <1>2, <1>3, <1>4, <1>5, <1>6

\* So does gfsk_correlator_output_symbol.
LEMMA OutputSymbolInv ==
  ASSUME CorrelatorInv,
         OutputSymbol
  PROVE  CorrelatorInv'
<1> USE Lengths DEF CorrelatorInv, OutputSymbol, peakVars, burstVars
<1>1. CorrelatorTypeOK'
  BY DEF CorrelatorTypeOK
<1>2. LoopInv'
  BY DEF LoopInv
<1>3. SamplerInv'
  BY DEF SamplerInv, SampledOnce, CorrelatorTypeOK, SymbolDue
<1>4. SearchInv'
  BY DEF SearchInv
<1>5. ShiftInv'
  BY DEF ShiftInv
<1>6. OnlyStrongerRetimes'
  BY DEF OnlyStrongerRetimes
<1>7. QED
  BY <1>1, <1>2, <1>3, <1>4, <1>5, <1>6

\* So does the next sample.
LEMMA NextSampleInv ==
  ASSUME CorrelatorInv,
         NextSample
  PROVE  CorrelatorInv'
<1> USE Lengths DEF CorrelatorInv, NextSample, peakVars, burstVars
<1>1. CorrelatorTypeOK'
  BY DEF CorrelatorTypeOK, LoopInv
<1>2. LoopInv'
  BY DEF LoopInv
<1>3. SamplerInv'
  BY DEF SamplerInv, SampledOnce, CorrelatorTypeOK, SymbolDue
<1>4. SearchInv'
  BY DEF SearchInv, CorrelatorTypeOK
<1>5. ShiftInv'
  BY DEF ShiftInv
<1>6. OnlyStrongerRetimes'
  BY DEF OnlyStrongerRetimes
<1>7. QED
  BY <1>1, <1>2, <1>3, <1>4, <1>5, <1>6

\* So does the shift of the history: the absolute positions stay.
LEMMA ShiftHistoryInv ==
  ASSUME CorrelatorInv,
         ShiftHistory
  PROVE  CorrelatorInv'
<1> USE Lengths DEF CorrelatorInv, ShiftHistory
<1>1. CorrelatorTypeOK'
  BY DEF CorrelatorTypeOK, SearchInv, Shifted
<1>2. LoopInv'
  BY DEF LoopInv, CorrelatorTypeOK
<1>3. SamplerInv'
  BY DEF SamplerInv, SampledOnce, CorrelatorTypeOK
<1>4. SearchInv'
  BY DEF SearchInv, CorrelatorTypeOK
<1>5. ShiftInv'
  BY DEF ShiftInv, CorrelatorTypeOK, Shifted
<1>6. OnlyStrongerRetimes'
  BY DEF OnlyStrongerRetimes, CorrelatorTypeOK
<1>7. QED
  BY <1>1, <1>2, <1>3, <1>4, <1>5, <1>6

\* Every step keeps the invariant.
LEMMA StepInv == CorrelatorInv /\ [CorrelatorNext]_correlatorVars => CorrelatorInv'
<1>1. SUFFICES ASSUME CorrelatorInv, [CorrelatorNext]_correlatorVars PROVE CorrelatorInv'
  OBVIOUS
<1>2. ASSUME NEW input_len \in 0..max_input_buffer_length, CorrelatorProcess(input_len) PROVE CorrelatorInv'
  BY <1>1, <1>2, ProcessInv
<1>3. ASSUME NEW value \in Strengths, Detect(value) PROVE CorrelatorInv'
  BY <1>1, <1>3, DetectInv
<1>4. ASSUME NEW value \in Strengths, NoPeak(value) PROVE CorrelatorInv'
  BY <1>1, <1>4, NoPeakInv
<1>5. ASSUME NEW value \in Strengths, NEW fraction \in -1..1, Sync(value, fraction)
      PROVE  CorrelatorInv'
  BY <1>1, <1>5, SyncInv
<1>6. CASE OutputSymbol
  BY <1>1, <1>6, OutputSymbolInv
<1>7. CASE NextSample
  BY <1>1, <1>7, NextSampleInv
<1>8. CASE ShiftHistory
  BY <1>1, <1>8, ShiftHistoryInv
<1>9. CASE UNCHANGED correlatorVars
  BY <1>1, <1>9 DEF correlatorVars, peakVars, burstVars, CorrelatorInv, CorrelatorTypeOK, LoopInv,
                    SamplerInv, SampledOnce, SearchInv, ShiftInv, OnlyStrongerRetimes
<1>10. QED
  BY <1>1, <1>2, <1>3, <1>4, <1>5, <1>6, <1>7, <1>8, <1>9 DEF CorrelatorNext, CorrelatorStep

\* What the invariant says about the reads and about the cuts
LEMMA InvImplies == CorrelatorInv => ReadsInBounds /\ CutsInvisible
<1>1. SUFFICES ASSUME CorrelatorInv PROVE ReadsInBounds /\ CutsInvisible
  OBVIOUS
<1>2. ReadsInBounds
  BY <1>1, Lengths DEF CorrelatorInv, CorrelatorTypeOK, SamplerInv, SearchInv, ReadsInBounds,
                       SymbolDue, SyncDue
<1>3. CutsInvisible
  BY <1>1, Lengths DEF CorrelatorInv, CorrelatorTypeOK, ShiftInv, CutsInvisible
<1>4. QED
  BY <1>2, <1>3

\* The inductive invariant holds in every state of the correlator.
THEOREM Invariance == CorrelatorSpec => []CorrelatorInv
BY InitInv, StepInv, PTL DEF CorrelatorSpec

\* gfsk_correlator_output_symbol and gfsk_correlator_sync read only samples the buffer holds,
\* for every number of samples per symbol, every sync word and every length of the calls.
THEOREM ReadsAreInBounds == CorrelatorSpec => []ReadsInBounds
BY Invariance, InvImplies, PTL

\* gfsk_correlator_process outputs no part of the stream twice, however gfsk_correlator_sync
\* re-times the sampler.
THEOREM NoPartSampledTwice == CorrelatorSpec => []SampledOnce
<1>1. CorrelatorInv => SampledOnce
  BY DEF CorrelatorInv, SamplerInv
<1>2. QED
  BY <1>1, Invariance, PTL

\* A burst is re-timed by a stronger sync word only, and by no sync word twice.
THEOREM RetimedByStronger == CorrelatorSpec => []OnlyStrongerRetimes
<1>1. CorrelatorInv => OnlyStrongerRetimes
  BY DEF CorrelatorInv
<1>2. QED
  BY <1>1, Invariance, PTL

\* The detection does not depend on how the stream is cut into calls of gfsk_correlator_process.
THEOREM CallsAreInvisible == CorrelatorSpec => []CutsInvisible
BY Invariance, InvImplies, PTL

-----------------------------------------------------------------------------
(* The number of symbols of a call. *)

\* What is left of a quotient when one divisor more was taken
LEMMA QuotientBound ==
  ASSUME NEW n \in Nat, NEW m \in Nat, NEW d \in Nat, d >= 1, d * n < m + d
  PROVE  n <= m \div d + 1
<1>1. m \div d \in Nat /\ m < d * (m \div d) + d
  OBVIOUS
<1> DEFINE q == m \div d
<1>2. d * n < d * q + 2 * d
  BY <1>1
<1> HIDE DEF q
<1>3. q \in Nat
  BY <1>1 DEF q
<1>4. d * (q + 2) = d * q + 2 * d
  BY <1>3
<1>5. n >= q + 2 => d * n >= d * (q + 2)
  BY <1>3
<1>6. n < q + 2
  <2>1. d * n \in Int /\ d * q \in Int /\ d * (q + 2) \in Int
    BY <1>3
  <2> QED BY <1>2, <1>3, <1>4, <1>5, <2>1
<1> QED BY <1>3, <1>6 DEF q

\* The symbols of the call are a symbol apart, and the first of them was not due before it.
OutputInv ==
  /\ OutputFits
  /\ loop # "idle" /\ num_symbols > 0 =>
       2 * (Sps * num_symbols) + 2 * (HistoryLen - SamplerLag) <= lastSymbol - 2 * base + 2 * Sps + 1

\* gfsk_correlator_output_symbol keeps it: the next symbol is at least a symbol behind the last
\* one, and it is due inside the input.
LEMMA OutputSymbolFits ==
  ASSUME CorrelatorInv, OutputInv, OutputSymbol PROVE OutputInv'
<1> USE Lengths
<1> DEFINE n == num_symbols
<1>0. /\ n \in Nat /\ num_symbols' = n + 1 /\ UNCHANGED <<loop, base>> /\ loop = "sample"
      /\ lastSymbol' = sample_position + 2 * base
      /\ sample_position \in Int /\ base \in Int /\ lastSymbol \in Int
      /\ correlator_index \in Int /\ correlator_index >= HistoryLen
      /\ correlator_index < HistoryLen + max_input_buffer_length
      /\ max_input_buffer_length \in Nat /\ UNCHANGED max_input_buffer_length
  BY DEF CorrelatorInv, CorrelatorTypeOK, LoopInv, OutputSymbol
<1>1. /\ Sps * (n + 1) = Sps * n + Sps /\ Sps * n \in Int
      /\ n = 0 => Sps * n = 0
  BY <1>0
<1>2. /\ sample_position + 2 * SamplerLag > 2 * (correlator_index - 1)
      /\ sample_position + 2 * base >= lastSymbol + 2 * Sps
      /\ sample_position + 2 * SamplerLag <= 2 * correlator_index
  BY DEF CorrelatorInv, SamplerInv, SampledOnce, OutputSymbol, SymbolDue
<1>3. n > 0 => 2 * (Sps * n) + 2 * (HistoryLen - SamplerLag) <= lastSymbol - 2 * base + 2 * Sps + 1
  BY <1>0 DEF OutputInv
<1> DEFINE p == Sps * n
<1> HIDE DEF p, n
<1>4. 2 * (p + Sps) + 2 * (HistoryLen - SamplerLag) <= sample_position + 2 * Sps + 1
  BY <1>0, <1>1, <1>2, <1>3 DEF p
<1>5. p + Sps < max_input_buffer_length + Sps
  BY <1>0, <1>1, <1>2, <1>4 DEF p
<1>6. n + 1 <= max_input_buffer_length \div Sps + 1
  <2>1. /\ Sps * (n + 1) < max_input_buffer_length + Sps /\ n + 1 \in Nat
        /\ Sps \in Nat /\ Sps >= 1 /\ max_input_buffer_length \in Nat
    BY <1>0, <1>1, <1>5 DEF p, n
  <2> QED BY ONLY <2>1, QuotientBound, Zenon
<1>7. OutputFits'
  <2>1. max_input_buffer_length \div Sps \in Nat
    BY <1>0
  <2> QED BY <1>0, <1>6, <2>1 DEF OutputFits, OutputLen, n
<1>8. 2 * (Sps * num_symbols') + 2 * (HistoryLen - SamplerLag) <= lastSymbol' - 2 * base' + 2 * Sps + 1
  BY <1>0, <1>1, <1>4 DEF p
<1> QED BY <1>7, <1>8 DEF OutputInv

\* The symbols that gfsk_correlator_process returns fit into the output buffer of
\* gfsk_correlator_create, for every number of samples per symbol and every sequence of calls
\* and sync words: re-timing never makes up symbols.
THEOREM SymbolsFit == CorrelatorSpec => []OutputFits
<1>1. CorrelatorInit => OutputInv
  <2> SUFFICES ASSUME CorrelatorInit PROVE OutputInv
    OBVIOUS
  <2>1. max_input_buffer_length \div Sps \in Nat
    BY Lengths DEF CorrelatorInit
  <2> QED BY <2>1 DEF CorrelatorInit, OutputInv, OutputFits, OutputLen
<1>2. CorrelatorInv /\ OutputInv /\ [CorrelatorNext]_correlatorVars => OutputInv'
  <2> SUFFICES ASSUME CorrelatorInv, OutputInv, [CorrelatorNext]_correlatorVars PROVE OutputInv'
    OBVIOUS
  <2>1. ASSUME NEW input_len \in 0..max_input_buffer_length, CorrelatorProcess(input_len) PROVE OutputInv'
    <3>1. max_input_buffer_length \div Sps \in Nat
      BY Lengths DEF CorrelatorInv, CorrelatorTypeOK
    <3> QED BY <2>1, <3>1 DEF CorrelatorProcess, OutputInv, OutputFits, OutputLen
  <2>2. ASSUME UNCHANGED <<max_input_buffer_length, num_symbols, lastSymbol, base>>, loop # "idle"
        PROVE  OutputInv'
    BY <2>2 DEF OutputInv, OutputFits, OutputLen
  <2>3. ASSUME NEW value \in Strengths, Detect(value) \/ NoPeak(value) PROVE OutputInv'
    BY <2>2, <2>3 DEF Detect, NoPeak
  <2>4. ASSUME NEW value \in Strengths, NEW fraction \in -1..1, Sync(value, fraction) PROVE OutputInv'
    BY <2>2, <2>4 DEF Sync
  <2>5. CASE OutputSymbol
    BY <2>5, OutputSymbolFits
  <2>6. CASE NextSample
    BY <2>2, <2>6 DEF NextSample
  <2>7. CASE ShiftHistory
    BY <2>7 DEF ShiftHistory, OutputInv, OutputFits, OutputLen
  <2>8. CASE UNCHANGED correlatorVars
    BY <2>8 DEF correlatorVars, OutputInv, OutputFits, OutputLen
  <2> QED BY <2>1, <2>3, <2>4, <2>5, <2>6, <2>7, <2>8 DEF CorrelatorNext, CorrelatorStep
<1>3. OutputInv => OutputFits
  BY DEF OutputInv
<1> QED BY <1>1, <1>2, <1>3, Invariance, PTL DEF CorrelatorSpec

=============================================================================
