---------------------------- MODULE SdrModemProofs ----------------------------
(***************************************************************************)
(* What src/dsp/sdr_modem.c promises for all settings, buffer sizes and    *)
(* frequency offset files.                                                 *)
(***************************************************************************)
EXTENDS SdrModem, GfskCorrelatorProofs, TLAPS, WellFoundedInduction

-----------------------------------------------------------------------------
(* The half-band stages, for all settings. *)

LEMMA ShiftValues ==
  /\ Shift(0) = 1 /\ Shift(1) = 2 /\ Shift(2) = 4 /\ Shift(3) = 8 /\ Shift(4) = 16 /\ Shift(5) = 32
  /\ Shift(6) = 64
  BY DEF Shift

\* A decimation is a positive number, and at least 2 if there is a stage.
LEMMA ShiftPositive ==
  ASSUME NEW n \in 0..MaxStages
  PROVE  Shift(n) \in Nat \ {0} /\ (n > 0 => Shift(n) >= 2)
<1>1. n = 0 \/ n = 1 \/ n = 2 \/ n = 3 \/ n = 4 \/ n = 5 \/ n = 6
  BY DEF MaxStages
<1> QED BY <1>1, ShiftValues

\* The loop of sdr_modem_estimate_halfband_stages ends with a number of stages at which the
\* rate is still enough.
LEMMA StagesChosen ==
  ASSUME NEW s \in SettingsRecords
  PROVE  /\ HalfbandStages(s) \in 0..MaxStages
         /\ HalfbandStages(s) > 0 => s.sample_rate \div Shift(HalfbandStages(s)) >= RequiredRate(s)
         /\ HalfbandStages(s) > 0 => Bandwidth(s) # 0
         /\ Bandwidth(s) # 0 /\ HalfbandStages(s) < MaxStages =>
              s.sample_rate \div Shift(HalfbandStages(s) + 1) < RequiredRate(s)
<1> DEFINE enough(k) == s.sample_rate \div Shift(k) >= RequiredRate(s)
           P(n) == /\ n > 0 => enough(n)
                   /\ n < MaxStages => s.sample_rate \div Shift(n + 1) < RequiredRate(s)
<1>1. CASE Bandwidth(s) = 0
  BY <1>1 DEF HalfbandStages, MaxStages
<1>2. CASE Bandwidth(s) # 0
  <2>1. \A k \in 1..MaxStages : enough(k) \/ s.sample_rate \div Shift(k) < RequiredRate(s)
    <3> SUFFICES ASSUME NEW k \in 1..MaxStages
                 PROVE  enough(k) \/ s.sample_rate \div Shift(k) < RequiredRate(s)
      BY Zenon
    <3>1. s.sample_rate \div Shift(k) \in Int
      BY ShiftPositive DEF SettingsRecords, MaxStages
    <3>2. RequiredRate(s) \in Int
      BY DEF RequiredRate, Bandwidth, Sidebands, SettingsRecords
    <3> QED BY <3>1, <3>2
  <2>2. \E n \in 0..MaxStages : P(n)
    <3> HIDE DEF enough
    <3>1. CASE ~enough(1)
      <4>1. P(0)
        BY <2>1, <3>1 DEF MaxStages
      <4> QED BY <4>1 DEF MaxStages
    <3>2. CASE enough(1) /\ ~enough(2)
      <4>1. P(1)
        BY <2>1, <3>2 DEF MaxStages
      <4> QED BY <4>1 DEF MaxStages
    <3>3. CASE enough(2) /\ ~enough(3)
      <4>1. P(2)
        BY <2>1, <3>3 DEF MaxStages
      <4> QED BY <4>1 DEF MaxStages
    <3>4. CASE enough(3) /\ ~enough(4)
      <4>1. P(3)
        BY <2>1, <3>4 DEF MaxStages
      <4> QED BY <4>1 DEF MaxStages
    <3>5. CASE enough(4) /\ ~enough(5)
      <4>1. P(4)
        BY <2>1, <3>5 DEF MaxStages
      <4> QED BY <4>1 DEF MaxStages
    <3>6. CASE enough(5) /\ ~enough(6)
      <4>1. P(5)
        BY <2>1, <3>6 DEF MaxStages
      <4> QED BY <4>1 DEF MaxStages
    <3>7. CASE enough(6)
      <4>1. P(6)
        BY <3>7 DEF MaxStages
      <4> QED BY <4>1 DEF MaxStages
    <3> QED BY <3>1, <3>2, <3>3, <3>4, <3>5, <3>6, <3>7, Zenon
  <2>3. HalfbandStages(s) = CHOOSE n \in 0..MaxStages : P(n)
    BY <1>2, Zenon DEF HalfbandStages
  <2>4. HalfbandStages(s) \in 0..MaxStages /\ P(HalfbandStages(s))
    <3> HIDE DEF P
    <3> QED BY <2>2, <2>3, Zenon
  <2> QED BY <1>2, <2>4, Zenon
<1> QED BY <1>1, <1>2, Zenon

\* Division, as far as the modem needs it.
LEMMA AtLeastTwice ==
  ASSUME NEW a \in Nat, NEW b \in Nat \ {0}, a >= 2 * b
  PROVE  a \div b \in Nat /\ a \div b >= 2
  OBVIOUS

LEMMA SidebandsCover ==
  ASSUME NEW s \in SettingsRecords
  PROVE  Sidebands(s) \in Nat /\ Sidebands(s) >= s.baud_rate
<1>1. s.rrc_beta \in Nat /\ s.baud_rate \in Nat
  BY Zenon DEF SettingsRecords
<1> DEFINE product == (100 + s.rrc_beta) * s.baud_rate
<1>2. product \in Nat /\ product >= 100 * s.baud_rate
  BY <1>1
<1> HIDE DEF product
<1>3. product \div 100 \in Nat /\ product \div 100 >= s.baud_rate
  BY <1>1, <1>2
<1> QED BY <1>3, Zenon DEF Sidebands, product

\* A rate of two samples per symbol is enough for the psk modems, and for a cutoff below the
\* symbol rate.
LEMMA TwoSamplesSuffice ==
  ASSUME NEW s \in SettingsRecords, NEW rate \in Nat, s.modem_type # "gfsk", s.baud_rate > 0,
         rate >= 2 * s.baud_rate, s.bandwidth < s.baud_rate
  PROVE  /\ SamplesPerSymbol(s, rate) >= 2
         /\ 2 * s.bandwidth < InternalRate(s, rate)
<1>1. s.baud_rate \in Nat \ {0} /\ s.bandwidth \in Nat
  BY DEF SettingsRecords
<1>2. rate \div s.baud_rate \in Nat /\ rate \div s.baud_rate >= 2
  BY <1>1, AtLeastTwice, Zenon
<1>3. SamplesPerSymbol(s, rate) \in Nat /\ SamplesPerSymbol(s, rate) >= 2
  BY <1>2 DEF SamplesPerSymbol, TargetSps
<1> DEFINE sps == SamplesPerSymbol(s, rate)
<1>4. sps * s.baud_rate >= 2 * s.baud_rate
  <2> HIDE DEF sps
  <2>1. sps \in Nat /\ sps >= 2
    BY <1>3, Zenon DEF sps
  <2> QED BY <2>1, <1>1
<1>5. 2 * s.bandwidth < 2 * s.baud_rate
  BY <1>1
<1>6. sps * s.baud_rate \in Nat
  BY <1>1, <1>3
<1>7. 2 * s.bandwidth < sps * s.baud_rate
  <2> HIDE DEF sps
  <2> QED BY <1>1, <1>4, <1>5, <1>6
<1> QED BY <1>3, <1>7, Zenon DEF InternalRate

\* Settings that the wrapped modem accepts at the rate of the SDR it accepts behind the stages.
LEMMA StagesKeepAcceptance ==
  ASSUME NEW s \in SettingsRecords, ~BeyondEstimate(s), WrappedAccepts(s, s.sample_rate)
  PROVE  WrappedAccepts(s, BasebandRate(s))
<1> DEFINE n == HalfbandStages(s)
           rate == BasebandRate(s)
<1>1. /\ s.sample_rate \in Nat /\ s.baud_rate \in Nat /\ s.bandwidth \in Nat
      /\ s.subcarrier_frequency \in Nat
  BY Zenon DEF SettingsRecords
<1>2. n \in 0..MaxStages
  BY StagesChosen, Zenon
<1>3. CASE n = 0
  <2>1. rate = s.sample_rate \div 1
    BY <1>3, ShiftValues, Zenon DEF BasebandRate
  <2>2. rate = s.sample_rate
    BY <2>1, <1>1
  <2> QED BY <2>2, Zenon
<1>4. CASE n > 0
  <2>1. rate \in Nat
    <3>1. Shift(n) \in Nat \ {0}
      BY <1>2, ShiftPositive, Zenon
    <3>2. rate = s.sample_rate \div Shift(n)
      BY Zenon DEF BasebandRate
    <3> HIDE DEF n, rate
    <3> QED BY <3>1, <3>2, <1>1
  <2>2. rate >= 2 * Bandwidth(s) /\ Bandwidth(s) # 0
    BY <1>4, StagesChosen, Zenon DEF BasebandRate, RequiredRate
  <2>3. Sidebands(s) \in Nat /\ Sidebands(s) >= s.baud_rate
    BY SidebandsCover, Zenon
  <2> HIDE DEF n, rate
  <2>4. CASE s.modem_type = "gfsk"
    <3>1. Bandwidth(s) = s.bandwidth
      BY <2>4, Zenon DEF Bandwidth
    <3>2. s.bandwidth >= s.baud_rate
      BY <1>1, <2>2, <2>4, <3>1 DEF BeyondEstimate
    <3>3. rate >= 2 * s.baud_rate
      BY <2>1, <2>2, <3>1, <3>2, <1>1
    <3>4. GfskAccepts(s, s.sample_rate)
      BY <2>4, Zenon DEF WrappedAccepts
    <3>5. GfskAccepts(s, rate)
      BY <3>3, <3>4, Zenon DEF GfskAccepts
    <3> QED BY <2>4, <3>5, Zenon DEF WrappedAccepts, rate
  <2>5. CASE s.modem_type = "psk_pm"
    <3>1. Bandwidth(s) = 2 * (s.subcarrier_frequency + Sidebands(s))
      BY <2>5, Zenon DEF Bandwidth
    <3>2. rate >= 2 * s.baud_rate
      BY <2>1, <2>2, <2>3, <3>1, <1>1
    <3>3. PskPmAccepts(s, s.sample_rate)
      BY <2>5, Zenon DEF WrappedAccepts
    <3>4. s.subcarrier_frequency # 0 /\ BpskAccepts(s, s.sample_rate)
      BY <3>3, Zenon DEF PskPmAccepts
    <3>5. 2 * s.subcarrier_frequency < rate
      BY <2>1, <2>2, <2>3, <3>1, <3>4, <1>1
    <3>6. s.bandwidth < s.baud_rate
      BY <1>1, <2>5 DEF BeyondEstimate
    <3>7. s.baud_rate > 0
      BY <3>4, Zenon DEF BpskAccepts
    <3>8. BpskAccepts(s, rate)
      BY <2>1, <2>5, <3>2, <3>4, <3>6, <3>7, TwoSamplesSuffice, Zenon DEF BpskAccepts
    <3> QED BY <2>5, <3>4, <3>5, <3>8, Zenon DEF WrappedAccepts, PskPmAccepts, rate
  <2>6. CASE s.modem_type # "gfsk" /\ s.modem_type # "psk_pm"
    <3>1. Bandwidth(s) = Sidebands(s)
      BY <2>6, Zenon DEF Bandwidth
    <3>2. rate >= 2 * s.baud_rate
      BY <2>1, <2>2, <2>3, <3>1, <1>1
    <3>3. BpskAccepts(s, s.sample_rate)
      BY <2>6, Zenon DEF WrappedAccepts
    <3>4. s.bandwidth < s.baud_rate
      BY <1>1, <2>6 DEF BeyondEstimate
    <3>5. s.baud_rate > 0
      BY <3>3, Zenon DEF BpskAccepts
    <3>6. BpskAccepts(s, rate)
      BY <2>1, <2>6, <3>2, <3>3, <3>4, <3>5, TwoSamplesSuffice, Zenon DEF BpskAccepts
    <3> QED BY <2>6, <3>6, Zenon DEF WrappedAccepts, rate
  <2> QED BY <2>4, <2>5, <2>6, Zenon
<1> QED BY <1>2, <1>3, <1>4

\* BeyondEstimate is not idle: bpsk at 4800 baud with a cutoff of 4800 Hz, which bpsk_modem_create
\* takes at 52000 samples per second, is refused behind the two half-band stages that
\* sdr_modem_estimate_halfband_stages puts in front of it.
THEOREM DecimationCanRefuse ==
  \E s \in SettingsRecords :
    /\ s.modem_type = "bpsk" /\ s.baud_rate = 4800 /\ s.bandwidth = 4800
    /\ WrappedAccepts(s, s.sample_rate)
    /\ ~WrappedAccepts(s, BasebandRate(s))
<1> DEFINE s == [modem_type |-> "bpsk", sample_rate |-> 52000, baud_rate |-> 4800, bandwidth |-> 4800,
                 rrc_beta |-> 35, rrc_delay |-> 2, subcarrier_frequency |-> 0, syncword_bits |-> 0,
                 inRange |-> TRUE]
<1>1. s \in SettingsRecords
  BY DEF SettingsRecords, ModemTypes, PskTypes
<1>2. /\ s.modem_type = "bpsk" /\ s.sample_rate = 52000 /\ s.baud_rate = 4800 /\ s.bandwidth = 4800
      /\ s.rrc_beta = 35 /\ s.rrc_delay = 2 /\ s.inRange = TRUE
  OBVIOUS
<1> HIDE DEF s
<1>3. Bandwidth(s) = 6480 /\ RequiredRate(s) = 12960
  BY <1>2 DEF Bandwidth, RequiredRate, Sidebands
<1>4. HalfbandStages(s) = 2
  <2> DEFINE n == HalfbandStages(s)
  <2>1. n \in 0..MaxStages /\ (n > 0 => 52000 \div Shift(n) >= 12960)
    BY <1>1, <1>2, <1>3, StagesChosen
  <2>2. n < MaxStages => 52000 \div Shift(n + 1) < 12960
    <3>1. Bandwidth(s) # 0
      BY <1>3
    <3> QED BY <1>1, <1>2, <1>3, <3>1, StagesChosen
  <2> HIDE DEF n
  <2>3. n = 0 \/ n = 1 \/ n = 2 \/ n = 3 \/ n = 4 \/ n = 5 \/ n = 6
    BY <2>1 DEF MaxStages
  <2>4. n = 2
    BY <2>1, <2>2, <2>3, ShiftValues DEF MaxStages
  <2> QED BY <2>4 DEF n
<1>5. BasebandRate(s) = 13000
  BY <1>2, <1>4, ShiftValues DEF BasebandRate
<1>6. SamplesPerSymbol(s, 52000) = 10 /\ SamplesPerSymbol(s, 13000) = 2
  BY <1>2 DEF SamplesPerSymbol, TargetSps
<1>7. InternalRate(s, 52000) = 48000 /\ InternalRate(s, 13000) = 9600
  BY <1>2, <1>6 DEF InternalRate
<1>8. BpskAccepts(s, 52000)
  <2>1. /\ s.baud_rate > 0 /\ SamplesPerSymbol(s, 52000) >= 2
        /\ 2 * s.bandwidth < InternalRate(s, 52000) /\ s.rrc_delay > 0 /\ s.rrc_beta <= 100
    BY <1>2, <1>6, <1>7
  <2> QED BY <1>2, <2>1 DEF BpskAccepts
<1>9. ~BpskAccepts(s, 13000)
  <2>1. s.bandwidth # 0 /\ ~(2 * s.bandwidth < InternalRate(s, 13000))
    BY <1>2, <1>7
  <2> QED BY <2>1 DEF BpskAccepts
<1>10. s.modem_type # "gfsk" /\ s.modem_type # "psk_pm"
  BY <1>2
<1>11. \A rate : WrappedAccepts(s, rate) <=> BpskAccepts(s, rate)
  BY <1>10 DEF WrappedAccepts
<1>12. WrappedAccepts(s, s.sample_rate) /\ ~WrappedAccepts(s, BasebandRate(s))
  BY <1>2, <1>5, <1>8, <1>9, <1>11
<1> QED BY <1>1, <1>2, <1>12

-----------------------------------------------------------------------------
(* The steps of the modem. *)

\* A creation fails only because the wrapped modem refuses, and the settings stay.
CreationInv ==
  /\ settings \in SettingsRecords
  /\ step = "refused" => ~WrappedAccepts(settings, BasebandRate(settings))

\* The settings that sdr_modem_create refuses only because of its half-band stages are beyond the
\* estimate of sdr_modem_get_bandwidth, whatever the rates and the type of the modem.
THEOREM DecimationHarmIsConfined == ModemSpec => []DecimationHarmConfined
<1>1. ModemInit => CreationInv
  BY ModemAssumption, Zenon DEF ModemInit, CreationInv
<1>2. CreationInv /\ [ModemNext]_modemVars => CreationInv'
  <2> SUFFICES ASSUME CreationInv, [ModemNext]_modemVars PROVE CreationInv'
    BY Zenon
  <2>1. CASE ModemCreate
    BY <2>1, Zenon DEF ModemCreate, CreationInv
  <2>2. ASSUME UNCHANGED settings, step' # "refused" \/ step' = step PROVE CreationInv'
    BY <2>2, Zenon DEF CreationInv
  <2>3. ASSUME NEW input_len \in 0..BufferSize, Demodulate(input_len) \/ Modulate(input_len)
        PROVE  CreationInv'
    BY <2>2, <2>3, Zenon DEF Demodulate, Modulate, StartMix
  <2>4. CASE ModulateFlush
    BY <2>2, <2>4, Zenon DEF ModulateFlush, StartMix
  <2>5. CASE Decimate
    BY <2>2, <2>5, Zenon DEF Decimate, CallDemodulator, CallCorrelator
  <2>6. CASE DemodulateStep
    BY <2>2, <2>6, Zenon DEF DemodulateStep
  <2>7. CASE MixChunk \/ MixEnd
    BY <2>2, <2>7, Zenon DEF MixChunk, MixEnd
  <2>8. CASE UNCHANGED modemVars
    BY <2>2, <2>8, Zenon DEF modemVars
  <2> QED BY <2>1, <2>3, <2>4, <2>5, <2>6, <2>7, <2>8, Zenon DEF ModemNext
<1>3. CreationInv => DecimationHarmConfined
  BY StagesKeepAcceptance, Zenon DEF CreationInv, DecimationHarmConfined
<1> QED BY <1>1, <1>2, <1>3, PTL DEF ModemSpec

-----------------------------------------------------------------------------
(* The flush of a transmission. *)

\* After sdr_modem_modulate_flush every filter, flag and reference of the tx chain is in its
\* initial state, and no signal was cut off, for all settings and all sequences of calls.
THEOREM FlushIsComplete == ModemSpec => []FlushEndsTransmission
<1>1. ModemInit => FlushEndsTransmission
  BY Zenon DEF ModemInit, FlushEndsTransmission
<1>2. FlushEndsTransmission /\ [ModemNext]_modemVars => FlushEndsTransmission'
  <2> SUFFICES ASSUME FlushEndsTransmission, [ModemNext]_modemVars PROVE FlushEndsTransmission'
    BY Zenon
  <2>1. ASSUME UNCHANGED txVars PROVE FlushEndsTransmission'
    BY <2>1, Zenon DEF FlushEndsTransmission, txVars
  <2>2. ASSUME NEW input_len \in 0..BufferSize, Modulate(input_len) PROVE FlushEndsTransmission'
    <3>1. CASE input_len > 0
      BY <2>2, <3>1, Zenon DEF Modulate, ModulateBits, PhaseModulate, FlushEndsTransmission
    <3>2. CASE ~(input_len > 0)
      BY <2>2, <3>2, <2>1, Zenon DEF Modulate, ModulateBits, PhaseModulate, txVars
    <3> QED BY <3>1, <3>2, Zenon
  <2>3. CASE ModulateFlush
    <3>1. CASE ~tx_pending
      BY <2>1, <2>3, <3>1, Zenon DEF ModulateFlush
    <3>2. CASE tx_pending
      <4>1. modemPending
        BY <3>2, Zenon DEF FlushEndsTransmission
      <4>2. "signal" \notin FlushedFilters
        BY DEF FlushedFilters, Pushed
      <4>3. ~truncated'
        BY <2>3, <3>2, <4>2, Zenon DEF ModulateFlush, FlushEndsTransmission
      <4>4. /\ mod' = "empty" /\ resampler_tx' = "empty" /\ reference' = 0 /\ subcarrier' = 0
            /\ halfband_tx' = "empty" /\ modemPending' = FALSE /\ tx_pending' = FALSE
        BY <2>3, <3>2, <4>1, Zenon DEF ModulateFlush, WrappedReset
      <4> QED BY <4>3, <4>4, Zenon DEF FlushEndsTransmission
    <3> QED BY <3>1, <3>2, Zenon
  <2>4. ASSUME NEW input_len \in 0..BufferSize, Demodulate(input_len) PROVE FlushEndsTransmission'
    BY <2>1, <2>4, Zenon DEF Demodulate
  <2>5. CASE ModemCreate \/ Decimate \/ DemodulateStep \/ MixChunk \/ MixEnd
    BY <2>1, <2>5, Zenon DEF ModemCreate, Decimate, DemodulateStep, MixChunk, MixEnd
  <2>6. CASE UNCHANGED modemVars
    BY <2>1, <2>6, Zenon DEF modemVars
  <2> QED BY <2>2, <2>3, <2>4, <2>5, <2>6, Zenon DEF ModemNext
<1> QED BY <1>1, <1>2, PTL DEF ModemSpec

-----------------------------------------------------------------------------
(* The lengths of the buffers. *)

LEMMA DivMonotone ==
  ASSUME NEW a \in Nat, NEW b \in Nat, NEW c \in Nat \ {0}, a <= b
  PROVE  a \div c \in Nat /\ b \div c \in Nat /\ a \div c <= b \div c
  OBVIOUS

LEMMA DivBounds ==
  ASSUME NEW a \in Nat, NEW c \in Nat \ {0}
  PROVE  a \div c \in Nat /\ (a \div c) * c <= a /\ a - (a \div c) * c < c
  OBVIOUS

LEMMA ProductMonotone ==
  ASSUME NEW a \in Nat, NEW b \in Nat, NEW c \in Nat, a <= b
  PROVE  a * c \in Nat /\ b * c \in Nat /\ a * c <= b * c
  OBVIOUS

LEMMA CeilDivMonotone ==
  ASSUME NEW a \in Nat, NEW b \in Nat, NEW c \in Nat \ {0}, a <= b
  PROVE  /\ CeilDiv(a, c) \in Nat /\ CeilDiv(b, c) \in Nat
         /\ a \div c <= CeilDiv(b, c) /\ CeilDiv(a, c) <= CeilDiv(b, c)
<1>1. a + c - 1 \in Nat /\ b + c - 1 \in Nat /\ a + c - 1 <= b + c - 1 /\ a <= b + c - 1
  OBVIOUS
<1> QED BY <1>1, DivMonotone, Zenon DEF CeilDiv

\* The larger of two numbers
LEMMA MaxOfTwo ==
  ASSUME NEW a \in Nat, NEW b \in Nat
  PROVE  Max({a, b}) \in Nat /\ Max({a, b}) >= a /\ Max({a, b}) >= b
<1>1. \E x \in {a, b} : \A y \in {a, b} : x >= y
  <2>1. CASE a >= b
    BY <2>1
  <2>2. CASE b >= a
    BY <2>2
  <2> QED BY <2>1, <2>2
<1>2. Max({a, b}) \in {a, b} /\ \A y \in {a, b} : Max({a, b}) >= y
  BY <1>1, Zenon DEF Max
<1> QED BY <1>2, Zenon

\* The smaller of two numbers
LEMMA MinOfTwo ==
  ASSUME NEW a \in Nat, NEW b \in Nat, a <= b
  PROVE  Min({a, b}) = a
<1>1. \E x \in {a, b} : \A y \in {a, b} : x <= y
  OBVIOUS
<1>2. Min({a, b}) \in {a, b} /\ \A y \in {a, b} : Min({a, b}) <= y
  BY <1>1, Zenon DEF Min
<1> QED BY <1>2

\* What the half-band decimator makes of the samples it keeps and those of a call
LEMMA BlockCount ==
  ASSUME NEW kept \in Nat, NEW len \in Nat, NEW limit \in Nat, NEW d \in Nat \ {0},
         kept < d, len <= limit
  PROVE  /\ (kept + len) \div d \in Nat /\ limit \div d + 1 \in Nat
         /\ (kept + len) \div d <= limit \div d + 1
         /\ (kept + len) \div d <= limit
<1> DEFINE q == (kept + len) \div d
           r == limit \div d
<1>1. q \in Nat /\ q * d <= kept + len
  BY DivBounds
<1>2. r \in Nat /\ limit - r * d < d
  BY DivBounds, Zenon
<1>3. q * d < (r + 2) * d
  <2> HIDE DEF q, r
  <2>1. (r + 2) * d = r * d + 2 * d
    BY <1>2
  <2>2. q * d \in Nat /\ r * d \in Nat
    BY <1>1, <1>2
  <2> QED BY <1>1, <1>2, <2>1, <2>2
<1>4. q < r + 2
  <2> HIDE DEF q, r
  <2>1. CASE q >= r + 2
    BY <1>1, <1>2, <1>3, <2>1, ProductMonotone
  <2> QED BY <1>1, <1>2, <2>1
<1>5. q <= limit
  <2> HIDE DEF q, r
  <2>1. CASE q >= limit + 1
    <3>1. (limit + 1) * d <= q * d
      BY <1>1, <2>1, ProductMonotone
    <3>2. (limit + 1) * d = limit * d + d /\ limit * d >= limit
      OBVIOUS
    <3>3. q * d \in Nat /\ limit * d \in Nat /\ (limit + 1) * d \in Nat
      BY <1>1
    <3> QED BY <1>1, <3>1, <3>2, <3>3
  <2> QED BY <1>1, <2>1
<1> HIDE DEF q, r
<1>6. q <= r + 1
  BY <1>1, <1>2, <1>4
<1> QED BY <1>1, <1>2, <1>5, <1>6 DEF q, r

LEMMA BlocksMove ==
  ASSUME NEW raw \in Nat, NEW n \in Nat, NEW kept \in Nat, NEW len \in Nat, NEW blocks \in Nat,
         NEW d \in Nat \ {0}, raw = n * d + kept + len
  PROVE  raw = (n + blocks) * d + (kept + len - blocks * d)
<1>1. (n + blocks) * d = n * d + blocks * d
  OBVIOUS
<1>2. n * d \in Nat /\ blocks * d \in Nat
  OBVIOUS
<1> QED BY <1>1, <1>2

LEMMA DecimationType ==
  ASSUME NEW s \in SettingsRecords
  PROVE  /\ HalfbandStages(s) \in 0..MaxStages
         /\ Shift(HalfbandStages(s)) \in Nat \ {0}
         /\ HalfbandStages(s) = 0 => Shift(HalfbandStages(s)) = 1
         /\ BasebandRate(s) \in Nat
<1>1. HalfbandStages(s) \in 0..MaxStages
  BY StagesChosen, Zenon
<1>2. Shift(HalfbandStages(s)) \in Nat \ {0}
  BY <1>1, ShiftPositive, Zenon
<1>3. s.sample_rate \in Nat
  BY Zenon DEF SettingsRecords
<1> QED BY <1>1, <1>2, <1>3, ShiftValues, DivBounds, Zenon DEF BasebandRate

\* A modem that was created has a chain to run.
LEMMA ChainType ==
  ASSUME settings \in SettingsRecords, WrappedAccepts(settings, BasebandRate(settings))
  PROVE  ChainSps \in Nat \ {0} /\ ChainRate \in Nat \ {0} /\ TailSymbols \in Nat /\ FlushLen \in Nat
<1> DEFINE rate == BasebandRate(settings)
<1>1. rate \in Nat
  BY DecimationType, Zenon
<1>2. /\ settings.baud_rate \in Nat /\ settings.rrc_delay \in Nat /\ settings.modem_type \in ModemTypes
  BY Zenon DEF SettingsRecords
<1> HIDE DEF rate
<1>3. settings.baud_rate \in Nat \ {0}
  BY <1>2 DEF WrappedAccepts, GfskAccepts, PskPmAccepts, BpskAccepts, ModemTypes, PskTypes, rate
<1>4. SamplesPerSymbol(settings, rate) \in Nat \ {0}
  <2>1. CASE settings.modem_type = "gfsk"
    BY <2>1 DEF SamplesPerSymbol, GfskSps
  <2>2. CASE settings.modem_type # "gfsk"
    <3>1. SamplesPerSymbol(settings, rate) >= 2
      BY <1>2, <2>2, Zenon DEF WrappedAccepts, PskPmAccepts, BpskAccepts, ModemTypes, PskTypes, rate
    <3>2. rate \div settings.baud_rate \in Nat
      BY <1>1, <1>3, DivBounds, Zenon
    <3>3. SamplesPerSymbol(settings, rate) \in Nat
      BY <2>2, <3>2, Zenon DEF SamplesPerSymbol, TargetSps
    <3> QED BY <3>1, <3>3
  <2> QED BY <2>1, <2>2, Zenon
<1>5. InternalRate(settings, rate) \in Nat \ {0}
  <2> DEFINE sps == SamplesPerSymbol(settings, rate)
  <2> HIDE DEF sps
  <2>1. sps \in Nat \ {0}
    BY <1>4, Zenon DEF sps
  <2>2. sps * settings.baud_rate \in Nat \ {0}
    BY <1>3, <2>1
  <2> QED BY <2>2, Zenon DEF InternalRate, sps
<1>6. TailSymbols \in Nat /\ FlushLen \in Nat
  BY <1>2, ModemAssumption DEF TailSymbols, FlushLen
<1> QED BY <1>4, <1>5, <1>6, Zenon DEF ChainSps, ChainRate, rate

\* The output buffer of the wrapped modem has room for all it can make of a buffer or a tail.
LEMMA WrappedFits ==
  ASSUME settings \in SettingsRecords, WrappedAccepts(settings, BasebandRate(settings)),
         NEW len \in Nat, ModulationLen \in Nat, len <= ModulationLen,
         NEW n \in Resampled(len, ChainRate, BasebandRate(settings))
  PROVE  n \in Nat /\ WrappedOutputLen \in Nat /\ n <= WrappedOutputLen
<1> DEFINE to == BasebandRate(settings)
           from == ChainRate
           all == ModulationLen
<1>1. to \in Nat /\ from \in Nat \ {0} /\ all \in Nat /\ len <= all /\ ResamplerMargin \in Nat
  BY DecimationType, ChainType, ModemAssumption, Zenon
<1>2. CASE ~Resampling
  BY <1>2, Zenon DEF Resampled, WrappedOutputLen
<1>3. CASE Resampling
  <2>1. n = (len * to) \div from \/ n = CeilDiv(len * to, from)
    BY <1>3, Zenon DEF Resampled
  <2>2. WrappedOutputLen = CeilDiv(all * to, from) + ResamplerMargin
    BY <1>3, Zenon DEF WrappedOutputLen
  <2> HIDE DEF to, from, all
  <2>3. len * to \in Nat /\ all * to \in Nat /\ len * to <= all * to
    BY <1>1, ProductMonotone, Zenon
  <2>4. /\ CeilDiv(len * to, from) \in Nat /\ CeilDiv(all * to, from) \in Nat
        /\ (len * to) \div from <= CeilDiv(all * to, from)
        /\ CeilDiv(len * to, from) <= CeilDiv(all * to, from)
    BY <1>1, <2>3, CeilDivMonotone, Zenon
  <2>5. (len * to) \div from \in Nat
    BY <1>1, <2>3, DivBounds, Zenon
  <2>6. n \in Nat /\ n <= CeilDiv(all * to, from)
    BY <2>1, <2>4, <2>5, Zenon
  <2> QED BY <1>1, <2>2, <2>4, <2>6
<1> QED BY <1>2, <1>3, Zenon

\* The data of a call, and the tail, are no longer than the modulation buffer.
LEMMA ModulationFits ==
  ASSUME settings \in SettingsRecords, WrappedAccepts(settings, BasebandRate(settings)),
         NEW len \in 0..BufferSize
  PROVE  /\ ModulationLen \in Nat
         /\ 8 * len * ChainSps \in Nat /\ 8 * len * ChainSps <= ModulationLen
         /\ TailLen \in Nat /\ TailLen <= ModulationLen
<1> DEFINE sps == ChainSps
           tail == TailSymbols
           bits == 8 * BufferSize
<1>1. sps \in Nat /\ tail \in Nat /\ FlushLen \in Nat /\ bits \in Nat /\ 8 * len \in Nat /\ 8 * len <= bits + tail
  BY ChainType, ModemAssumption
<1> HIDE DEF sps, tail, bits
<1>2. 8 * len * sps \in Nat /\ (bits + tail) * sps \in Nat /\ 8 * len * sps <= (bits + tail) * sps
  BY <1>1, ProductMonotone
<1>3. tail * sps \in Nat /\ tail * sps <= (bits + tail) * sps
  BY <1>1, ProductMonotone
<1>4. ModulationLen = (bits + tail) * sps + FlushLen /\ TailLen = tail * sps + FlushLen
  BY Zenon DEF ModulationLen, TailLen, sps, tail, bits
<1>5. /\ ModulationLen \in Nat /\ 8 * len * sps <= ModulationLen
      /\ TailLen \in Nat /\ TailLen <= ModulationLen
  BY <1>1, <1>2, <1>3, <1>4
<1> QED BY <1>2, <1>5, Zenon DEF sps

\* The buffer of the frequency offset has room for what leaves the half-band interpolator, and
\* for what the SDR delivers.
LEMMA OffsetFits ==
  ASSUME settings \in SettingsRecords, NEW n \in Nat, WrappedOutputLen \in Nat, n <= WrappedOutputLen
  PROVE  /\ n * Decimation \in Nat
         /\ OffsetOutputLen \in Nat
         /\ n * Decimation <= OffsetOutputLen
         /\ Halfband => /\ (n + HalfbandTail) * Decimation \in Nat
                        /\ (n + HalfbandTail) * Decimation <= OffsetOutputLen
         /\ ~Halfband => n <= OffsetOutputLen
         /\ BufferSize <= OffsetOutputLen
<1> DEFINE d == Decimation
           w == WrappedOutputLen
<1>1. d \in Nat \ {0} /\ HalfbandTail \in Nat /\ BufferSize \in Nat /\ (~Halfband => d = 1)
  <2>1. HalfbandStages(settings) \in 0..MaxStages
    BY DecimationType, Zenon
  <2>2. ~Halfband => HalfbandStages(settings) = 0
    BY <2>1 DEF Halfband
  <2> QED BY <2>2, DecimationType, ModemAssumption, Zenon DEF Decimation
<1>2. w \in Nat /\ n <= w
  BY Zenon
<1>3. ModemOutputLen = IF Halfband THEN (w + HalfbandTail) * d ELSE w
  BY Zenon DEF ModemOutputLen, HalfbandOutputLen
<1> HIDE DEF d, w
<1>4. /\ n * d \in Nat /\ (n + HalfbandTail) * d \in Nat /\ (w + HalfbandTail) * d \in Nat
      /\ n * d <= (w + HalfbandTail) * d
      /\ (n + HalfbandTail) * d <= (w + HalfbandTail) * d
  <2>1. n + HalfbandTail \in Nat /\ w + HalfbandTail \in Nat /\ n <= w + HalfbandTail /\ n + HalfbandTail <= w + HalfbandTail
    BY <1>1, <1>2
  <2> QED BY <1>1, <2>1, ProductMonotone, Zenon
<1>5. ~Halfband => n * d = n
  BY <1>1
<1>6. /\ ModemOutputLen \in Nat
      /\ Halfband => n * d <= ModemOutputLen /\ (n + HalfbandTail) * d <= ModemOutputLen
      /\ ~Halfband => n <= ModemOutputLen
  BY <1>2, <1>3, <1>4, Zenon
<1>7. OffsetOutputLen \in Nat /\ OffsetOutputLen >= BufferSize /\ OffsetOutputLen >= ModemOutputLen
  BY <1>1, <1>6, MaxOfTwo, Zenon DEF OffsetOutputLen
<1>8. n * d <= OffsetOutputLen
  <2>1. CASE Halfband
    BY <1>4, <1>6, <1>7, <2>1
  <2>2. CASE ~Halfband
    BY <1>4, <1>5, <1>6, <1>7, <2>2
  <2> QED BY <2>1, <2>2, Zenon
<1>9. Halfband => (n + HalfbandTail) * d <= OffsetOutputLen
  BY <1>4, <1>6, <1>7
<1>10. ~Halfband => n <= OffsetOutputLen
  BY <1>6, <1>7
<1> QED BY <1>4, <1>7, <1>8, <1>9, <1>10, <1>1, Zenon DEF d

-----------------------------------------------------------------------------
(* The chain from call to call. *)

\* The samples of a call on their way to the decimator
InHand == IF step \in {"mix", "decimate"} THEN bufferLen ELSE 0

\* gfsk_modem_create has made room in the correlator for what the resampler can hand on.
CorrelatorRoom ==
  Correlates /\ WrappedAccepts(settings, BasebandRate(settings)) =>
    max_input_buffer_length = CorrelatorInputLen

\* The inductive invariant of the chain.
ChainInv ==
  /\ settings \in SettingsRecords
  /\ step \in {"create", "refused", "noOffset", "idle", "mix", "decimate", "demodulate"}
  /\ step \notin {"create", "refused", "noOffset"} => WrappedAccepts(settings, BasebandRate(settings))
  /\ ~refused
  /\ step \in {"decimate", "demodulate"} => direction = "rx"
  /\ bufferLen \in Nat /\ rawIn \in Nat /\ demodulated \in Nat /\ history_offset \in Nat
  /\ history_offset < Decimation
  /\ direction = "rx" => /\ bufferLen <= BufferSize
                         /\ rawIn = demodulated * Decimation + history_offset + InHand
  /\ CorrelatorRoom

\* The samples that the correlator was given are those it has shifted out or works on.
CorrelatorFed ==
  /\ loop = "idle" <=> step # "demodulate"
  /\ Correlates /\ ~Resampling =>
       /\ base \in Int /\ samples_len \in Int
       /\ demodulated = IF step = "demodulate" THEN base + (samples_len - HistoryLen) ELSE base

LEMMA HistoryLenType == HistoryLen \in Int
  BY CorrelatorAssumption DEF HistoryLen, SamplerLag, TemplateLen, PeakSearchLen

\* sdr_modem_demodulate and sdr_modem_modulate never change what the modem was created with.
LEMMA CreatedOnce ==
  ASSUME [ModemNext]_modemVars
  PROVE  /\ UNCHANGED <<settings, direction>>
         /\ Decimation' = Decimation /\ Halfband' = Halfband
         /\ Correlates' = Correlates /\ Resampling' = Resampling
         /\ CorrelatorRoom => CorrelatorRoom'
<1>1. UNCHANGED <<settings, direction>>
  BY Zenon DEF ModemNext, modemVars, ModemCreate, Demodulate, Decimate, DemodulateStep, MixChunk, MixEnd,
         Modulate, ModulateFlush
<1>2. max_input_buffer_length' = max_input_buffer_length
  <2>1. CASE UNCHANGED correlatorVars
    BY <2>1, Zenon DEF correlatorVars
  <2>2. CASE CorrelatorStep
    BY <2>2, Zenon DEF CorrelatorStep, Detect, NoPeak, Sync, OutputSymbol, NextSample, ShiftHistory
  <2>3. CASE Decimate
    <3>1. \E n : CallDemodulator(n)
      BY <2>3, Zenon DEF Decimate
    <3> QED BY <2>1, <3>1, Zenon DEF CallDemodulator, CallCorrelator, CorrelatorProcess
  <2>4. CASE DemodulateStep
    BY <2>2, <2>4, Zenon DEF DemodulateStep
  <2> QED BY <2>1, <2>3, <2>4, Zenon DEF ModemNext, modemVars, ModemCreate, Demodulate, MixChunk, MixEnd,
             Modulate, ModulateFlush
<1>3. CorrelatorRoom => CorrelatorRoom'
  BY <1>1, <1>2, Zenon DEF CorrelatorRoom, Correlates, CorrelatorInputLen, ChainRate, Resampling
<1> QED BY <1>1, <1>3, Zenon DEF Decimation, Halfband, Correlates, Resampling

LEMMA ChainInit ==
  ASSUME ModemInit PROVE ChainInv /\ CorrelatorFed
<1>1. settings \in SettingsRecords
  BY ModemAssumption, Zenon DEF ModemInit
<1>2. Decimation \in Nat \ {0}
  BY <1>1, DecimationType, Zenon DEF Decimation
<1>3. 0 * Decimation = 0
  BY <1>2
<1>4. /\ step = "create" /\ ~refused /\ bufferLen = 0 /\ rawIn = 0 /\ demodulated = 0 /\ history_offset = 0
      /\ loop = "idle" /\ base = 0 /\ samples_len = HistoryLen
  BY Zenon DEF ModemInit, CorrelatorInit
<1>5. InHand = 0
  BY <1>4, Zenon DEF InHand
<1>6. rawIn = demodulated * Decimation + history_offset + InHand
  BY <1>3, <1>4, <1>5
<1>7. ChainInv
  <2>1. CorrelatorRoom
    BY Zenon DEF ModemInit, CorrelatorRoom
  <2> QED BY <1>1, <1>2, <1>4, <1>6, <2>1, ModemAssumption DEF ChainInv
<1> QED BY <1>4, <1>7, HistoryLenType DEF CorrelatorFed

\* A call of freq_offset_process with a buffer that fits
LEMMA MixAccepted ==
  ASSUME NEW len \in Nat, NEW next, OffsetOutputLen \in Nat, len <= OffsetOutputLen, StartMix(len, next)
  PROVE  /\ bufferLen' = len /\ refused' = refused
         /\ step' = "mix" \/ step' = next
  BY DEF StartMix

\* The buffer of the frequency offset has room for what the SDR delivers.
LEMMA InputFits ==
  ASSUME settings \in SettingsRecords, WrappedAccepts(settings, BasebandRate(settings)), NEW len \in 0..BufferSize
  PROVE  OffsetOutputLen \in Nat /\ len <= OffsetOutputLen
<1>1. 0 \in 0..BufferSize /\ BufferSize \in Nat
  BY ModemAssumption
<1>2. ModulationLen \in Nat /\ 0 <= ModulationLen
  BY <1>1, ModulationFits
<1>3. PICK n : n \in Resampled(0, ChainRate, BasebandRate(settings))
  BY Zenon DEF Resampled
<1>4. n \in Nat /\ WrappedOutputLen \in Nat /\ n <= WrappedOutputLen
  BY <1>2, <1>3, WrappedFits, Zenon
<1>5. OffsetOutputLen \in Nat /\ BufferSize <= OffsetOutputLen
  BY <1>4, OffsetFits, Zenon
<1> QED BY <1>1, <1>5

\* sdr_modem_demodulate takes a buffer over.
LEMMA DemodulateKeepsChain ==
  ASSUME ChainInv, CorrelatorFed, NEW len \in 0..BufferSize, Demodulate(len), [ModemNext]_modemVars
  PROVE  ChainInv' /\ CorrelatorFed'
<1>1. /\ UNCHANGED <<settings, direction>> /\ Decimation' = Decimation
      /\ Correlates' = Correlates /\ Resampling' = Resampling
  BY CreatedOnce, Zenon
<1>2. /\ step = "idle" /\ direction = "rx" /\ rawIn' = rawIn + len /\ demodulated' = demodulated
      /\ history_offset' = history_offset /\ UNCHANGED <<loop, base, samples_len>>
  BY Zenon DEF Demodulate, correlatorVars
<1>3. WrappedAccepts(settings, BasebandRate(settings))
  BY <1>2, Zenon DEF ChainInv
<1>4. OffsetOutputLen \in Nat /\ len <= OffsetOutputLen
  BY <1>3, InputFits, Zenon DEF ChainInv
<1>5. len \in Nat /\ len <= BufferSize
  BY ModemAssumption
<1>6. bufferLen' = len /\ ~refused' /\ step' \in {"mix", "decimate"}
  BY <1>4, <1>5, MixAccepted, Zenon DEF Demodulate, ChainInv
<1>7. InHand = 0 /\ InHand' = len
  BY <1>2, <1>6, Zenon DEF InHand
<1>8. rawIn' = demodulated' * Decimation' + history_offset' + InHand'
  <2>1. demodulated * Decimation \in Nat
    BY DecimationType DEF ChainInv, Decimation
  <2>2. rawIn = demodulated * Decimation + history_offset + 0
    BY <1>2, <1>7, Zenon DEF ChainInv
  <2> QED BY <1>1, <1>2, <1>5, <1>7, <2>1, <2>2 DEF ChainInv
<1>9. rawIn' \in Nat
  BY <1>2, <1>5 DEF ChainInv
<1>10. ChainInv'
  BY <1>1, <1>2, <1>3, <1>5, <1>6, <1>8, <1>9, CreatedOnce, Zenon DEF ChainInv
<1> QED BY <1>1, <1>2, <1>6, <1>10, Zenon DEF CorrelatorFed

\* What the wrapped modem makes of a block at its own rate fits into the correlator.
LEMMA ResampledFits ==
  ASSUME ChainInv, step = "decimate", Correlates, NEW n \in Nat, n <= BufferSize,
         NEW m \in Resampled(n, BasebandRate(settings), ChainRate)
  PROVE  m \in Nat /\ max_input_buffer_length \in Nat /\ m <= max_input_buffer_length
<1> DEFINE from == BasebandRate(settings)
           to == ChainRate
<1>1. settings \in SettingsRecords /\ WrappedAccepts(settings, from)
  BY Zenon DEF ChainInv
<1>2. to \in Nat
  BY <1>1, ChainType, Zenon
<1>3. from \in Nat \ {0}
  <2>1. from \in Nat /\ settings.baud_rate \in Nat
    BY <1>1, DecimationType, Zenon DEF SettingsRecords
  <2>2. settings.baud_rate > 0 /\ from >= 2 * settings.baud_rate
    BY <1>1, Zenon DEF WrappedAccepts, GfskAccepts, Correlates
  <2> HIDE DEF from
  <2> QED BY <2>1, <2>2
<1>4. BufferSize \in Nat /\ ResamplerMargin \in Nat /\ max_input_buffer_length = CorrelatorInputLen
  BY <1>1, ModemAssumption, Zenon DEF ChainInv, CorrelatorRoom
<1>5. CASE ~Resampling
  BY <1>4, <1>5, Zenon DEF Resampled, CorrelatorInputLen
<1>6. CASE Resampling
  <2>1. m = (n * to) \div from \/ m = CeilDiv(n * to, from)
    BY <1>6, Zenon DEF Resampled
  <2>2. max_input_buffer_length = CeilDiv(BufferSize * to, from) + ResamplerMargin
    BY <1>4, <1>6, Zenon DEF CorrelatorInputLen
  <2> HIDE DEF from, to
  <2>3. n * to \in Nat /\ BufferSize * to \in Nat /\ n * to <= BufferSize * to
    BY <1>2, <1>4, ProductMonotone, Zenon
  <2>4. /\ CeilDiv(n * to, from) \in Nat /\ CeilDiv(BufferSize * to, from) \in Nat
        /\ (n * to) \div from <= CeilDiv(BufferSize * to, from)
        /\ CeilDiv(n * to, from) <= CeilDiv(BufferSize * to, from)
    BY <1>3, <2>3, CeilDivMonotone, Zenon
  <2>5. (n * to) \div from \in Nat
    BY <1>3, <2>3, DivBounds, Zenon
  <2>6. m \in Nat /\ m <= CeilDiv(BufferSize * to, from)
    BY <2>1, <2>4, <2>5, Zenon
  <2> QED BY <1>4, <2>2, <2>4, <2>6
<1> QED BY <1>5, <1>6, Zenon

\* The wrapped modem is given what it has room for.
LEMMA DemodulatorCalled ==
  ASSUME ChainInv, CorrelatorFed, NEW n \in Nat, n <= BufferSize, CallDemodulator(n), step = "decimate",
         settings' = settings
  PROVE  /\ ~refused' /\ step' \in {"idle", "demodulate"} /\ demodulated' = demodulated + n
         /\ CorrelatorFed'
<1>0. ~refused /\ demodulated \in Nat
  BY Zenon DEF ChainInv
<1>1. /\ ~refused' /\ demodulated' = demodulated + n
      /\ \/ /\ Correlates /\ step' = "demodulate"
            /\ \E m \in Resampled(n, BasebandRate(settings), ChainRate) : CorrelatorProcess(m)
         \/ ~Correlates /\ step' = "idle" /\ UNCHANGED correlatorVars
  <2>1. ~(n > BufferSize)
    BY ModemAssumption
  <2>2. CASE ~Correlates
    <3>1. /\ demodulated' = demodulated + n /\ step' = "idle"
          /\ UNCHANGED refused /\ UNCHANGED correlatorVars
      BY <2>1, <2>2, Zenon DEF CallDemodulator
    <3> QED BY <1>0, <2>2, <3>1, Zenon
  <2>3. CASE Correlates
    <3>1. PICK m \in Resampled(n, BasebandRate(settings), ChainRate) : CallCorrelator(m)
      BY <2>1, <2>3, Zenon DEF CallDemodulator
    <3>2. m \in Nat /\ max_input_buffer_length \in Nat /\ m <= max_input_buffer_length
      BY <2>3, <3>1, ResampledFits, Zenon
    <3>3. ~(m > max_input_buffer_length)
      BY <3>2
    <3> QED BY <1>0, <2>1, <2>3, <3>1, <3>3, Zenon DEF CallDemodulator, CallCorrelator
  <2> QED BY <2>2, <2>3, Zenon
<1>2. Correlates' = Correlates /\ Resampling' = Resampling
  BY Zenon DEF Correlates, Resampling
<1>3. CASE ~Correlates
  BY <1>1, <1>2, <1>3, Zenon DEF CorrelatorFed, correlatorVars
<1>4. CASE Correlates
  <2>1. step' = "demodulate"
    BY <1>1, <1>4, Zenon
  <2>2. PICK m \in Resampled(n, BasebandRate(settings), ChainRate) : CorrelatorProcess(m)
    BY <1>1, <1>4, Zenon
  <2>3. loop' = "correlate" /\ samples_len' = HistoryLen + m /\ base' = base
    BY <2>2, Zenon DEF CorrelatorProcess
  <2>4. ASSUME ~Resampling
        PROVE  /\ base' \in Int /\ samples_len' \in Int
               /\ demodulated' = base' + (samples_len' - HistoryLen)
    <3>1. m = n
      BY <2>4, <2>2, Zenon DEF Resampled
    <3>2. base \in Int /\ demodulated = base
      BY <1>4, <2>4, Zenon DEF CorrelatorFed
    <3> QED BY <1>0, <1>1, <2>3, <3>1, <3>2, HistoryLenType
  <2> QED BY <1>1, <1>2, <2>1, <2>3, <2>4, Zenon DEF CorrelatorFed
<1> QED BY <1>1, <1>3, <1>4, Zenon

\* The decimator hands on the whole blocks it has, and keeps the rest.
LEMMA BlocksHandedOn ==
  ASSUME ChainInv, Decimate
  PROVE  \E n \in Nat : /\ n <= BufferSize /\ CallDemodulator(n)
                        /\ history_offset' = history_offset + bufferLen - n * Decimation
                        /\ history_offset' \in Nat /\ history_offset' < Decimation
<1> DEFINE d == Decimation
           working_len == history_offset + bufferLen
<1>2. step = "decimate"
  BY Zenon DEF Decimate
<1>3. /\ history_offset \in Nat /\ bufferLen \in Nat /\ rawIn \in Nat /\ demodulated \in Nat
      /\ history_offset < d /\ direction = "rx" /\ bufferLen <= BufferSize /\ ~refused
      /\ BufferSize \in Nat
  BY <1>2, ModemAssumption, Zenon DEF ChainInv
<1>4. d \in Nat \ {0} /\ (~Halfband => d = 1)
  <2>1. HalfbandStages(settings) \in 0..MaxStages
    BY DecimationType, Zenon DEF ChainInv
  <2>2. ~Halfband => HalfbandStages(settings) = 0
    BY <2>1 DEF Halfband
  <2> QED BY <2>2, DecimationType, Zenon DEF Decimation, ChainInv
<1>5. CASE Halfband
  <2> DEFINE q == working_len \div d
             limit == BufferSize \div d + 1
  <2>1. q \in Nat /\ limit \in Nat /\ q <= limit /\ q <= BufferSize
    <3> HIDE DEF d
    <3> QED BY <1>3, <1>4, BlockCount, Zenon
  <2>2. Min({q, limit}) = q
    <3> HIDE DEF q, limit
    <3> QED BY <2>1, MinOfTwo, Zenon
  <2>3. history_offset' = HalfbandHistory(working_len, q) /\ CallDemodulator(q)
    BY <1>5, <2>2, Zenon DEF Decimate
  <2>4. history_offset' = working_len - q * d
    BY <2>3, Zenon DEF HalfbandHistory
  <2>5. q * d \in Nat /\ q * d <= working_len /\ working_len - q * d < d /\ working_len \in Nat
    <3> HIDE DEF d
    <3>1. working_len \in Nat
      BY <1>3
    <3> HIDE DEF working_len
    <3>2. q \in Nat /\ q * d <= working_len /\ working_len - q * d < d
      BY <1>4, <3>1, DivBounds, Zenon
    <3> HIDE DEF q
    <3> QED BY <1>4, <3>1, <3>2
  <2>6. history_offset' \in Nat /\ history_offset' < d
    <3> HIDE DEF q
    <3> QED BY <2>4, <2>5
  <2>7. history_offset' = history_offset + bufferLen - q * d
    <3> HIDE DEF q
    <3> QED BY <1>3, <2>4, <2>5
  <2>8. q \in Nat /\ q <= BufferSize /\ CallDemodulator(q)
    BY <2>1, <2>3, Zenon
  <2> HIDE DEF q
  <2> QED BY <2>6, <2>7, <2>8, Zenon
<1>6. CASE ~Halfband
  <2>1. CallDemodulator(bufferLen) /\ history_offset' = history_offset
    BY <1>6, Zenon DEF Decimate
  <2>2. history_offset = history_offset + bufferLen - bufferLen * 1
    BY <1>3
  <2> QED BY <1>3, <1>4, <1>6, <2>1, <2>2, Zenon
<1> QED BY <1>5, <1>6, Zenon

\* halfband_decim_process
LEMMA DecimateKeepsChain ==
  ASSUME ChainInv, CorrelatorFed, Decimate, [ModemNext]_modemVars
  PROVE  ChainInv' /\ CorrelatorFed'
<1> DEFINE d == Decimation
<1>1. /\ UNCHANGED <<settings, direction>> /\ Decimation' = d
  BY CreatedOnce, Zenon
<1>2. /\ step = "decimate" /\ UNCHANGED <<bufferLen, rawIn>>
  BY Zenon DEF Decimate
<1>3. /\ history_offset \in Nat /\ bufferLen \in Nat /\ rawIn \in Nat /\ demodulated \in Nat
      /\ history_offset < d /\ direction = "rx" /\ bufferLen <= BufferSize /\ ~refused
      /\ BufferSize \in Nat
  BY <1>2, ModemAssumption, Zenon DEF ChainInv
<1>4. d \in Nat \ {0} /\ (~Halfband => d = 1)
  <2>1. HalfbandStages(settings) \in 0..MaxStages
    BY DecimationType, Zenon DEF ChainInv
  <2>2. ~Halfband => HalfbandStages(settings) = 0
    BY <2>1 DEF Halfband
  <2> QED BY <2>2, DecimationType, Zenon DEF Decimation, ChainInv
<1>5. rawIn = demodulated * d + history_offset + bufferLen
  BY <1>2, <1>3, Zenon DEF ChainInv, InHand
<1>6. \E n \in Nat : /\ n <= BufferSize /\ CallDemodulator(n)
                     /\ history_offset' = history_offset + bufferLen - n * d
                     /\ history_offset' \in Nat /\ history_offset' < d
  BY BlocksHandedOn, Zenon
<1>7. PICK n \in Nat : /\ n <= BufferSize /\ CallDemodulator(n)
                       /\ history_offset' = history_offset + bufferLen - n * d
                       /\ history_offset' \in Nat /\ history_offset' < d
  BY <1>6, Zenon
<1>8. /\ ~refused' /\ step' \in {"idle", "demodulate"} /\ demodulated' = demodulated + n
      /\ CorrelatorFed'
  BY <1>1, <1>2, <1>3, <1>7, DemodulatorCalled, Zenon
<1>9. rawIn = (demodulated + n) * d + (history_offset + bufferLen - n * d)
  <2> HIDE DEF d
  <2> QED BY <1>3, <1>4, <1>5, BlocksMove
<1>10. InHand' = 0
  BY <1>8, Zenon DEF InHand
<1>11. (demodulated + n) * d \in Nat
  <2> HIDE DEF d
  <2> QED BY <1>3, <1>4
<1>12. rawIn' = demodulated' * Decimation' + history_offset' + InHand'
  <2> HIDE DEF d
  <2>1. rawIn = (demodulated + n) * d + history_offset'
    BY <1>7, <1>9, Zenon
  <2>2. (demodulated + n) * d + history_offset' + 0 = (demodulated + n) * d + history_offset'
    BY <1>7, <1>11
  <2> QED BY <1>1, <1>2, <1>8, <1>10, <2>1, <2>2, Zenon
<1>13. WrappedAccepts(settings, BasebandRate(settings))
  BY <1>2, Zenon DEF ChainInv
<1>14. demodulated' \in Nat
  BY <1>3, <1>8
<1>15. ChainInv'
  <2> HIDE DEF d
  <2> QED BY <1>1, <1>2, <1>3, <1>7, <1>8, <1>12, <1>13, <1>14, CreatedOnce, Zenon DEF ChainInv
<1> QED BY <1>8, <1>15, Zenon

\* A step that hands no sample on, towards a step of the chain that is as far.
LEMMA ChainUndisturbed ==
  ASSUME ChainInv, [ModemNext]_modemVars, UNCHANGED <<rawIn, demodulated, history_offset, refused>>,
         bufferLen' \in Nat, step' \in {"create", "refused", "noOffset", "idle", "mix", "decimate", "demodulate"},
         step' \notin {"create", "refused", "noOffset"} => WrappedAccepts(settings, BasebandRate(settings)),
         step' \in {"decimate", "demodulate"} => direction = "rx",
         direction = "rx" => bufferLen' <= BufferSize /\ InHand' = InHand
  PROVE  ChainInv'
<1>1. UNCHANGED <<settings, direction>> /\ Decimation' = Decimation
  BY CreatedOnce, Zenon
<1>2. direction = "rx" => rawIn' = demodulated' * Decimation' + history_offset' + InHand'
  BY <1>1, Zenon DEF ChainInv
<1> QED BY <1>1, <1>2, CreatedOnce, Zenon DEF ChainInv

\* The correlator shifts out what it was given.
LEMMA CorrelatorStepKeepsFed ==
  ASSUME CorrelatorFed, DemodulateStep, [ModemNext]_modemVars
  PROVE  CorrelatorFed'
<1>1. Correlates' = Correlates /\ Resampling' = Resampling
  BY CreatedOnce, Zenon
<1>2. step = "demodulate" /\ demodulated' = demodulated /\ CorrelatorStep
      /\ step' = (IF loop' = "idle" THEN "idle" ELSE step)
  BY Zenon DEF DemodulateStep
<1>3. CASE ShiftHistory
  <2>1. loop' = "idle" /\ base' = base + (samples_len - HistoryLen) /\ samples_len' = samples_len
    BY <1>3, Zenon DEF ShiftHistory
  <2>2. step' = "idle"
    BY <1>2, <2>1, Zenon
  <2>3. ASSUME Correlates, ~Resampling
        PROVE  base' \in Int /\ samples_len' \in Int /\ demodulated' = base'
    <3>1. base \in Int /\ samples_len \in Int /\ demodulated = base + (samples_len - HistoryLen)
      BY <1>2, <2>3, Zenon DEF CorrelatorFed
    <3> QED BY <1>2, <2>1, <3>1, HistoryLenType
  <2> QED BY <1>1, <2>1, <2>2, <2>3, Zenon DEF CorrelatorFed
<1>4. CASE ~ShiftHistory
  <2>1. loop' # "idle" /\ UNCHANGED <<base, samples_len>>
    <3>1. CASE \E value \in Strengths : Detect(value) \/ NoPeak(value)
      BY <3>1, Zenon DEF Detect, NoPeak
    <3>2. CASE \E value \in Strengths, fraction \in -1..1 : Sync(value, fraction)
      BY <3>2, Zenon DEF Sync
    <3>3. CASE OutputSymbol
      BY <3>3, Zenon DEF OutputSymbol
    <3>4. CASE NextSample
      BY <3>4, Zenon DEF NextSample
    <3> QED BY <1>2, <1>4, <3>1, <3>2, <3>3, <3>4, Zenon DEF CorrelatorStep
  <2>2. step' = step
    BY <1>2, <2>1, Zenon
  <2> QED BY <1>1, <1>2, <2>1, <2>2, Zenon DEF CorrelatorFed
<1> QED BY <1>3, <1>4, Zenon

\* What leaves the modulator, or the tail, goes through the chain.
LEMMA ModulatedFits ==
  ASSUME ChainInv, step = "idle", NEW len \in Nat, ModulationLen \in Nat, len <= ModulationLen,
         NEW n \in Resampled(len, ChainRate, BasebandRate(settings))
  PROVE  /\ ~(Halfband /\ n > WrappedOutputLen)
         /\ n * Decimation \in Nat /\ OffsetOutputLen \in Nat /\ n * Decimation <= OffsetOutputLen
         /\ n \in Nat
         /\ Halfband => /\ (n + HalfbandTail) * Decimation \in Nat
                        /\ (n + HalfbandTail) * Decimation <= OffsetOutputLen
         /\ ~Halfband => n <= OffsetOutputLen
<1>1. settings \in SettingsRecords /\ WrappedAccepts(settings, BasebandRate(settings))
  BY Zenon DEF ChainInv
<1>2. n \in Nat /\ WrappedOutputLen \in Nat /\ n <= WrappedOutputLen
  BY <1>1, WrappedFits, Zenon
<1>3. ~(n > WrappedOutputLen)
  BY <1>2
<1> QED BY <1>1, <1>2, <1>3, OffsetFits, Zenon

\* sdr_modem_modulate and sdr_modem_modulate_flush
LEMMA ModulateKeepsChain ==
  ASSUME ChainInv, CorrelatorFed, [ModemNext]_modemVars,
         ModulateFlush \/ \E len \in 0..BufferSize : Modulate(len)
  PROVE  ChainInv' /\ CorrelatorFed'
<1>1. /\ step = "idle" /\ direction = "tx"
      /\ UNCHANGED <<rawIn, demodulated, history_offset, loop, base, samples_len>>
  BY Zenon DEF ModulateFlush, Modulate, correlatorVars
<1>2. settings \in SettingsRecords /\ WrappedAccepts(settings, BasebandRate(settings)) /\ ~refused /\ bufferLen \in Nat
  BY <1>1, Zenon DEF ChainInv
<1>3. refused' = refused /\ bufferLen' \in Nat /\ step' \in {"idle", "mix"}
  <2>1. ASSUME NEW len \in 0..BufferSize, Modulate(len)
        PROVE  refused' = refused /\ bufferLen' \in Nat /\ step' \in {"idle", "mix"}
    <3>1. ModulationLen \in Nat /\ 8 * len * ChainSps \in Nat /\ 8 * len * ChainSps <= ModulationLen
      BY <1>2, ModulationFits, Zenon
    <3>2. PICK n \in Resampled(8 * len * ChainSps, ChainRate, BasebandRate(settings)) :
            IF Halfband /\ n > WrappedOutputLen
            THEN refused' = TRUE /\ UNCHANGED <<bufferLen, step>>
            ELSE StartMix(n * Decimation, "idle")
      BY <2>1, Zenon DEF Modulate
    <3>3. /\ ~(Halfband /\ n > WrappedOutputLen)
          /\ n * Decimation \in Nat /\ OffsetOutputLen \in Nat /\ n * Decimation <= OffsetOutputLen
      BY <1>1, <3>1, ModulatedFits, Zenon
    <3>4. StartMix(n * Decimation, "idle")
      BY <3>2, <3>3, Zenon
    <3>5. bufferLen' = n * Decimation /\ refused' = refused /\ (step' = "mix" \/ step' = "idle")
      BY <3>3, <3>4, MixAccepted, Zenon
    <3> QED BY <1>2, <3>3, <3>5, Zenon
  <2>2. CASE ModulateFlush
    <3>1. CASE ~tx_pending
      BY <1>1, <1>2, <2>2, <3>1, Zenon DEF ModulateFlush
    <3>2. CASE tx_pending
      <4>1. 0 \in 0..BufferSize
        BY ModemAssumption
      <4>2. ModulationLen \in Nat /\ TailLen \in Nat /\ TailLen <= ModulationLen /\ 0 <= ModulationLen
        BY <1>2, <4>1, ModulationFits
      <4> DEFINE lens == IF modemPending THEN Resampled(TailLen, ChainRate, BasebandRate(settings)) ELSE {0}
                 out(n) == IF Halfband THEN (n + HalfbandTail) * Decimation ELSE n
      <4>3. PICK n \in lens :
              IF Halfband /\ n > WrappedOutputLen
              THEN refused' = TRUE /\ UNCHANGED <<bufferLen, step>>
              ELSE StartMix(out(n), "idle")
        BY <2>2, <3>2, Zenon DEF ModulateFlush
      <4>4. /\ ~(Halfband /\ n > WrappedOutputLen) /\ OffsetOutputLen \in Nat
            /\ out(n) \in Nat /\ out(n) <= OffsetOutputLen
        <5>1. CASE modemPending
          BY <1>1, <4>2, <4>3, <5>1, ModulatedFits, Zenon
        <5>2. CASE ~modemPending
          <6>1. n = 0
            BY <4>3, <5>2, Zenon
          <6>2. PICK m : m \in Resampled(0, ChainRate, BasebandRate(settings))
            BY Zenon DEF Resampled
          <6>3. WrappedOutputLen \in Nat
            BY <1>2, <4>2, <6>2, WrappedFits, Zenon
          <6>4. n \in Nat /\ n <= WrappedOutputLen /\ ~(n > WrappedOutputLen)
            BY <6>1, <6>3
          <6> QED BY <1>2, <6>3, <6>4, OffsetFits, Zenon
        <5> QED BY <5>1, <5>2, Zenon
      <4>5. StartMix(out(n), "idle")
        BY <4>3, <4>4, Zenon
      <4>6. bufferLen' = out(n) /\ refused' = refused /\ (step' = "mix" \/ step' = "idle")
        <5> HIDE DEF out
        <5> QED BY <4>4, <4>5, MixAccepted, Zenon
      <4> QED BY <1>2, <4>4, <4>6, Zenon
    <3> QED BY <3>1, <3>2, Zenon
  <2> QED BY <2>1, <2>2, Zenon
<1>4. ChainInv'
  BY <1>1, <1>2, <1>3, ChainUndisturbed, Zenon
<1>5. Correlates' = Correlates /\ Resampling' = Resampling
  BY CreatedOnce, Zenon
<1> QED BY <1>1, <1>3, <1>4, <1>5, Zenon DEF CorrelatorFed

LEMMA ChainStep ==
  ASSUME ChainInv, CorrelatorFed, [ModemNext]_modemVars
  PROVE  ChainInv' /\ CorrelatorFed'
<1>0. Correlates' = Correlates /\ Resampling' = Resampling
  BY CreatedOnce, Zenon
<1>1. CASE ModemCreate
  <2>1. /\ step = "create" /\ UNCHANGED <<rawIn, demodulated, history_offset, refused, bufferLen, loop, base, samples_len>>
        /\ step' \in {"refused", "noOffset"} \/ (WrappedAccepts(settings, BasebandRate(settings)) /\ step' = "idle")
    BY <1>1, Zenon DEF ModemCreate, correlatorVars
  <2>2. bufferLen \in Nat /\ (direction = "rx" => bufferLen <= BufferSize) /\ InHand' = InHand
    BY <2>1, Zenon DEF ChainInv, InHand
  <2>3. ChainInv'
    BY <2>1, <2>2, ChainUndisturbed, Zenon
  <2> QED BY <1>0, <2>1, <2>3, Zenon DEF CorrelatorFed
<1>2. CASE MixChunk \/ UNCHANGED modemVars
  <2>1. UNCHANGED <<step, rawIn, demodulated, history_offset, refused, bufferLen, loop, base, samples_len>>
    BY <1>2, Zenon DEF MixChunk, modemVars, correlatorVars
  <2>2. InHand' = InHand
    BY <2>1, Zenon DEF InHand
  <2>3. ChainInv'
    BY <2>1, <2>2, ChainUndisturbed, Zenon DEF ChainInv
  <2> QED BY <1>0, <2>1, <2>3, Zenon DEF CorrelatorFed
<1>3. CASE MixEnd
  <2>1. /\ step = "mix" /\ UNCHANGED <<rawIn, demodulated, history_offset, refused, bufferLen, loop, base, samples_len>>
        /\ step' = IF direction = "rx" THEN "decimate" ELSE "idle"
    BY <1>3, Zenon DEF MixEnd, correlatorVars
  <2>2. direction = "rx" => InHand' = InHand
    BY <2>1, Zenon DEF InHand
  <2>3. ChainInv'
    BY <2>1, <2>2, ChainUndisturbed, Zenon DEF ChainInv
  <2> QED BY <1>0, <2>1, <2>3, Zenon DEF CorrelatorFed
<1>4. CASE DemodulateStep
  <2>1. /\ step = "demodulate" /\ step' \in {"idle", "demodulate"}
        /\ UNCHANGED <<rawIn, demodulated, history_offset, refused, bufferLen>>
    BY <1>4, Zenon DEF DemodulateStep
  <2>2. InHand' = InHand
    BY <2>1, Zenon DEF InHand
  <2>3. ChainInv'
    BY <2>1, <2>2, ChainUndisturbed, Zenon DEF ChainInv
  <2> QED BY <1>4, <2>3, CorrelatorStepKeepsFed, Zenon
<1>5. CASE Decimate
  BY <1>5, DecimateKeepsChain, Zenon
<1>6. CASE \E len \in 0..BufferSize : Demodulate(len)
  BY <1>6, DemodulateKeepsChain, Zenon
<1>7. CASE ModulateFlush \/ \E len \in 0..BufferSize : Modulate(len)
  BY <1>7, ModulateKeepsChain, Zenon
<1> QED BY <1>1, <1>2, <1>3, <1>4, <1>5, <1>6, <1>7, Zenon DEF ModemNext

\* No sample is lost or repeated between two calls, for all settings that a modem can be created
\* with and all lengths of the calls.
THEOREM ConservesSamples == ModemSpec => []SamplesConserved
<1>1. ModemInit => ChainInv /\ CorrelatorFed
  BY ChainInit, Zenon
<1>2. ChainInv /\ CorrelatorFed /\ [ModemNext]_modemVars => ChainInv' /\ CorrelatorFed'
  BY ChainStep, Zenon
<1>3. ChainInv /\ CorrelatorFed => SamplesConserved
  <2> SUFFICES ASSUME ChainInv, CorrelatorFed, step = "idle", direction = "rx"
               PROVE  /\ rawIn = demodulated * Decimation + history_offset
                      /\ Correlates /\ ~Resampling => base = demodulated
    BY Zenon DEF SamplesConserved
  <2>1. demodulated * Decimation \in Nat
    BY DecimationType DEF ChainInv, Decimation
  <2>2. rawIn = demodulated * Decimation + history_offset + 0 /\ history_offset \in Nat
    BY Zenon DEF ChainInv, InHand
  <2>3. rawIn = demodulated * Decimation + history_offset
    BY <2>1, <2>2
  <2> QED BY <2>3, Zenon DEF CorrelatorFed
<1> QED BY <1>1, <1>2, <1>3, PTL DEF ModemSpec

\* No stage refuses what the stage before it hands on, for all settings that a modem can be
\* created with.
THEOREM EveryBufferFits == ModemSpec => []NothingRefused
<1>1. ModemInit => ChainInv /\ CorrelatorFed
  BY ChainInit, Zenon
<1>2. ChainInv /\ CorrelatorFed /\ [ModemNext]_modemVars => ChainInv' /\ CorrelatorFed'
  BY ChainStep, Zenon
<1>3. ChainInv => NothingRefused
  BY Zenon DEF ChainInv, NothingRefused
<1> QED BY <1>1, <1>2, <1>3, PTL DEF ModemSpec

\* A step of the modem is a call or a step of the correlator, or does not touch it.
LEMMA StepOfCorrelator ==
  ASSUME ChainInv, [ModemNext]_modemVars
  PROVE  [CorrelatorNext]_correlatorVars
<1>1. CASE Decimate
  <2>1. PICK n \in Nat : n <= BufferSize /\ CallDemodulator(n)
    BY <1>1, BlocksHandedOn, Zenon
  <2>2. CASE UNCHANGED correlatorVars
    BY <2>2, Zenon
  <2>3. CASE Correlates /\ \E m \in Resampled(n, BasebandRate(settings), ChainRate) : CorrelatorProcess(m)
    <3>1. PICK m \in Resampled(n, BasebandRate(settings), ChainRate) : CorrelatorProcess(m)
      BY <2>3, Zenon
    <3>2. m \in Nat /\ max_input_buffer_length \in Nat /\ m <= max_input_buffer_length
      BY <1>1, <2>1, <2>3, ResampledFits, Zenon DEF Decimate
    <3>3. m \in 0..max_input_buffer_length
      BY <3>2
    <3> QED BY <3>1, <3>3, Zenon DEF CorrelatorNext
  <2> QED BY <2>1, <2>2, <2>3, Zenon DEF CallDemodulator, CallCorrelator
<1>2. CASE DemodulateStep
  BY <1>2, Zenon DEF DemodulateStep, CorrelatorNext
<1>3. CASE ModemCreate \/ MixChunk \/ MixEnd \/ ModulateFlush
  BY <1>3, Zenon DEF ModemCreate, MixChunk, MixEnd, ModulateFlush
<1>4. CASE \E len \in 0..BufferSize : Demodulate(len) \/ Modulate(len)
  BY <1>4, Zenon DEF Demodulate, Modulate
<1>5. CASE UNCHANGED modemVars
  BY <1>5, Zenon DEF modemVars
<1> QED BY <1>1, <1>2, <1>3, <1>4, <1>5, Zenon DEF ModemNext

\* Inside the modem the correlator is driven exactly as on its own: whatever the settings, the
\* half-band stages and the resampler make of the calls, gfsk_correlator_process is called with
\* no more than its buffer holds, and nothing but its own loops touches its state.
THEOREM ModemDrivesCorrelator == ModemSpec => CorrelatorSpec
<1>1. ModemInit => ChainInv /\ CorrelatorFed /\ CorrelatorInit
  BY ChainInit, Zenon DEF ModemInit
<1>2. ChainInv /\ CorrelatorFed /\ [ModemNext]_modemVars => ChainInv' /\ CorrelatorFed'
  BY ChainStep, Zenon
<1>3. ChainInv /\ [ModemNext]_modemVars => [CorrelatorNext]_correlatorVars
  BY StepOfCorrelator, Zenon
<1> QED BY <1>1, <1>2, <1>3, PTL DEF ModemSpec, CorrelatorSpec

\* Therefore all that is proved of gfsk_correlator.c alone holds in the modem around it: its
\* reads are in bounds, no part of the stream is sampled twice, only a stronger sync word
\* re-times a burst, the calls are invisible and the symbols fit into the output.
THEOREM CorrelatorInsideModem ==
  ModemSpec => [](ReadsInBounds /\ SampledOnce /\ OnlyStrongerRetimes /\ CutsInvisible /\ OutputFits)
BY ModemDrivesCorrelator, ReadsAreInBounds, NoPartSampledTwice, RetimedByStronger, CallsAreInvisible,
   SymbolsFit, PTL

-----------------------------------------------------------------------------
(* The intervals of a frequency offset file. *)

Less == {ss \in Nat \X Nat : ss[1] < ss[2]}

LEMMA LessIsLess == OpToRel(<, Nat) = Less
  BY Zenon DEF OpToRel, Less

\* A set of numbers has a least one,
LEMMA LeastNumber ==
  ASSUME NEW S, S \subseteq Nat, S # {}
  PROVE  \E x \in S : \A y \in S : x <= y
<1>1. IsWellFoundedOn(Less, Nat)
  BY NatLessThanWellFounded, LessIsLess, Zenon
<1>2. PICK x \in S : \A y \in S : ~(<<y, x>> \in Less)
  BY <1>1, WFMin, Zenon
<1>3. ASSUME NEW y \in S PROVE x <= y
  <2>1. x \in Nat /\ y \in Nat /\ ~(<<y, x>> \in Less)
    BY <1>2, Zenon
  <2>2. y < x => <<y, x>> \in Less
    BY <2>1, Zenon DEF Less
  <2> QED BY <2>1, <2>2
<1> QED BY <1>3, Zenon

\* and a bounded one a largest.
LEMMA LargestNumber ==
  ASSUME NEW n \in Nat, NEW S, S \subseteq 0..n, S # {}
  PROVE  \E x \in S : \A y \in S : x >= y
<1> DEFINE T == {k \in Nat : \E x \in S : k = n - x}
<1>1. T \subseteq Nat /\ T # {}
  <2>1. PICK x \in S : TRUE
    BY Zenon
  <2>2. n - x \in Nat
    BY <2>1
  <2> QED BY <2>1, <2>2, Zenon
<1>2. PICK k \in T : \A l \in T : k <= l
  <2> HIDE DEF T
  <2> QED BY <1>1, LeastNumber, Zenon
<1>3. PICK x \in S : k = n - x
  BY <1>2, Zenon
<1>4. ASSUME NEW y \in S PROVE x >= y
  <2>1. n - y \in Nat /\ y \in Nat /\ x \in Nat
    OBVIOUS
  <2>2. k <= n - y
    BY <1>2, <2>1, Zenon
  <2> QED BY <1>3, <2>1, <2>2
<1> QED BY <1>4, Zenon

\* Where freq_offset_advance comes to stand: no entry behind it up to there is in the future,
\* and the next one is.
LEMMA IntervalFound ==
  ASSUME NEW file \in Seq(Nat), NEW i \in 1..Len(file), NEW time \in Nat
  PROVE  LET j == Interval(file, i, time)
         IN  /\ j \in i..Len(file)
             /\ j = i \/ file[j] <= time
             /\ j = Len(file) \/ time < file[j + 1]
<1> DEFINE S == {j \in i..Len(file) : \A k \in (i + 1)..j : file[k] <= time}
           j == Interval(file, i, time)
<1>1. Len(file) \in Nat /\ i \in Nat
  OBVIOUS
<1>2. i \in S
  BY <1>1
<1>3. S \subseteq 0..Len(file) /\ S # {}
  BY <1>1, <1>2
<1>4. j \in S /\ \A y \in S : j >= y
  <2>1. \E x \in S : \A y \in S : x >= y
    <3> HIDE DEF S
    <3> QED BY <1>1, <1>3, LargestNumber, Zenon
  <2>2. j = CHOOSE x \in S : \A y \in S : x >= y
    BY Zenon DEF Interval, Max
  <2> HIDE DEF S, j
  <2> QED BY <2>1, <2>2, Zenon
<1> HIDE DEF j
<1>5. j \in i..Len(file) /\ j \in Nat
  BY <1>1, <1>4
<1>6. j = i \/ file[j] <= time
  <2>1. CASE j # i
    <3>1. j \in (i + 1)..j
      BY <1>1, <1>5, <2>1
    <3> QED BY <1>4, <3>1, Zenon
  <2> QED BY <2>1, Zenon
<1>7. j = Len(file) \/ time < file[j + 1]
  <2>1. ASSUME j # Len(file), ~(time < file[j + 1]) PROVE FALSE
    <3>1. j + 1 \in i..Len(file) /\ j + 1 \in 1..Len(file)
      BY <1>1, <1>5, <2>1
    <3>2. file[j + 1] \in Nat
      BY <3>1
    <3>3. ASSUME NEW k \in (i + 1)..(j + 1) PROVE file[k] <= time
      <4>1. CASE k = j + 1
        BY <2>1, <3>2, <4>1
      <4>2. CASE k # j + 1
        <5>1. k \in (i + 1)..j
          BY <1>1, <1>5, <4>2
        <5> QED BY <1>4, <5>1, Zenon
      <4> QED BY <4>1, <4>2, Zenon
    <3>4. j + 1 \in S
      BY <3>1, <3>3, Zenon
    <3>5. j >= j + 1
      BY <1>4, <3>4, Zenon
    <3> QED BY <1>5, <3>5
  <2> QED BY <2>1, Zenon
<1> QED BY <1>5, <1>6, <1>7, Zenon DEF j

\* The frequency offset between two calls and within one. Behind the first entry the time is
\* not before the interval of current_index, and not behind it.
OffsetInv ==
  /\ entries \in Seq(Nat)
  /\ \A i, j \in 1..Len(entries) : i <= j => entries[i] <= entries[j]
  /\ virtual_time \in Nat /\ processed \in Nat
  /\ entries # <<>> =>
       /\ current_index \in 1..Len(entries)
       /\ current_index = 1 \/ entries[current_index] <= virtual_time
       /\ \/ current_index = Len(entries)
          \/ virtual_time < entries[current_index + 1]
          \/ virtual_time <= entries[1]
  /\ step = "mix" => entries # <<>> /\ processed <= bufferLen
  /\ step # "mix" => processed = 0

LEMMA MinOfNumbers ==
  ASSUME NEW S, S \subseteq Nat, S # {}
  PROVE  Min(S) \in S /\ \A y \in S : Min(S) <= y
  BY LeastNumber, Zenon DEF Min

\* A chunk is a part of what is left of the buffer.
LEMMA ChunkWithinBuffer ==
  ASSUME OffsetInv, bufferLen \in Nat, processed < bufferLen
  PROVE  ChunkLen \in Nat /\ processed + ChunkLen <= bufferLen
<1> DEFINE rest == bufferLen - processed
           gaps == {entries[i + 1] - entries[i] : i \in 1..(Len(entries) - 1)}
<1>1. rest \in Nat /\ processed \in Nat /\ processed + rest = bufferLen
  BY DEF OffsetInv
<1>2. CASE Len(entries) > 1
  <2>1. gaps \subseteq Nat
    <3> SUFFICES ASSUME NEW i \in 1..(Len(entries) - 1) PROVE entries[i + 1] - entries[i] \in Nat
      BY Zenon
    <3>1. Len(entries) \in Nat
      BY DEF OffsetInv
    <3>2. i \in 1..Len(entries) /\ i + 1 \in 1..Len(entries) /\ i <= i + 1
      BY <3>1
    <3>3. entries[i] \in Nat /\ entries[i + 1] \in Nat /\ entries[i] <= entries[i + 1]
      BY <3>2 DEF OffsetInv
    <3> QED BY <3>3
  <2>2. gaps # {}
    <3>1. 1 \in 1..(Len(entries) - 1)
      BY <1>2 DEF OffsetInv
    <3> QED BY <3>1, Zenon
  <2>3. Min(gaps) \in Nat
    <3> HIDE DEF gaps
    <3> QED BY <2>1, <2>2, MinOfNumbers, Zenon
  <2>4. MaxBatch \in Nat
    BY <2>3, MaxOfTwo, Zenon DEF MaxBatch
  <2>5. ChunkLen = Min({rest, MaxBatch})
    BY <1>2, Zenon DEF ChunkLen
  <2> HIDE DEF rest
  <2>6. Min({rest, MaxBatch}) \in {rest, MaxBatch} /\ Min({rest, MaxBatch}) <= rest
    BY <1>1, <2>4, MinOfNumbers, Zenon
  <2> QED BY <1>1, <2>4, <2>5, <2>6
<1>3. CASE ~(Len(entries) > 1)
  BY <1>1, <1>3 DEF ChunkLen
<1> QED BY <1>2, <1>3, Zenon

LEMMA OffsetInvInit ==
  ASSUME ModemInit PROVE OffsetInv
<1>1. /\ entries \in Seq(Nat) /\ \A i, j \in 1..Len(entries) : i <= j => entries[i] <= entries[j]
      /\ Now \subseteq Nat
  BY ModemAssumption, Zenon DEF ModemInit
<1>2. step = "create" /\ processed = 0 /\ OffsetInit
  BY Zenon DEF ModemInit
<1>3. CASE entries = <<>> /\ virtual_time = 0
  BY <1>1, <1>2, <1>3, Zenon DEF OffsetInv
<1>4. CASE Len(entries) > 0 /\ entries[1] = 0 /\ current_index = 1 /\ virtual_time = 0
  <2>1. current_index \in 1..Len(entries)
    BY <1>1, <1>4
  <2> QED BY <1>1, <1>2, <1>4, <2>1 DEF OffsetInv
<1>5. CASE Len(entries) > 0 /\ virtual_time \in Now /\ current_index = Interval(entries, 1, virtual_time)
  <2>1. 1 \in 1..Len(entries) /\ virtual_time \in Nat
    BY <1>1, <1>5
  <2>2. /\ current_index \in 1..Len(entries)
        /\ current_index = 1 \/ entries[current_index] <= virtual_time
        /\ current_index = Len(entries) \/ virtual_time < entries[current_index + 1]
    BY <1>1, <1>5, <2>1, IntervalFound, Zenon
  <2> QED BY <1>1, <1>2, <2>1, <2>2, Zenon DEF OffsetInv
<1> QED BY <1>2, <1>3, <1>4, <1>5, Zenon DEF OffsetInit

\* One chunk: the index follows the time.
LEMMA MixChunkKeepsOffset ==
  ASSUME OffsetInv, ChainInv, MixChunk PROVE OffsetInv'
<1>1. /\ step = "mix" /\ processed < bufferLen /\ UNCHANGED <<step, bufferLen, entries>>
      /\ virtual_time' = virtual_time + ChunkLen /\ processed' = processed + ChunkLen
      /\ current_index' = Interval(entries, current_index, virtual_time')
  BY Zenon DEF MixChunk, Advance
<1>2. /\ entries \in Seq(Nat) /\ entries # <<>> /\ virtual_time \in Nat /\ processed \in Nat
      /\ bufferLen \in Nat /\ current_index \in 1..Len(entries)
      /\ current_index = 1 \/ entries[current_index] <= virtual_time
  BY <1>1, Zenon DEF OffsetInv, ChainInv
<1>3. ChunkLen \in Nat /\ processed + ChunkLen <= bufferLen
  BY <1>1, <1>2, ChunkWithinBuffer, Zenon
<1>4. virtual_time' \in Nat /\ virtual_time <= virtual_time' /\ processed' \in Nat /\ processed' <= bufferLen
  BY <1>1, <1>2, <1>3
<1>5. /\ current_index' \in current_index..Len(entries)
      /\ current_index' = current_index \/ entries[current_index'] <= virtual_time'
      /\ current_index' = Len(entries) \/ virtual_time' < entries[current_index' + 1]
  BY <1>1, <1>2, <1>4, IntervalFound, Zenon
<1>6. entries[current_index] \in Nat
  BY <1>2
<1>7. current_index' = 1 \/ entries[current_index'] <= virtual_time'
  BY <1>2, <1>4, <1>5, <1>6
<1>8. current_index' \in 1..Len(entries)
  BY <1>2, <1>5
<1> QED BY <1>1, <1>2, <1>4, <1>5, <1>7, <1>8, Zenon DEF OffsetInv

\* The others leave the time alone.
LEMMA OffsetUndisturbed ==
  ASSUME OffsetInv, UNCHANGED <<entries, current_index, virtual_time>>, processed' \in Nat,
         step' = "mix" => entries # <<>> /\ processed' <= bufferLen',
         step' # "mix" => processed' = 0
  PROVE  OffsetInv'
  BY Zenon DEF OffsetInv

LEMMA OffsetStep ==
  ASSUME OffsetInv, ChainInv, ChainInv', [ModemNext]_modemVars PROVE OffsetInv'
<1>1. CASE MixChunk
  BY <1>1, MixChunkKeepsOffset, Zenon
<1>2. CASE MixEnd
  <2>1. processed' = 0 /\ step' # "mix" /\ UNCHANGED offsetVars
    BY <1>2, Zenon DEF MixEnd
  <2> QED BY <2>1, OffsetUndisturbed, Zenon DEF offsetVars
<1>3. CASE (\E len \in 0..BufferSize : Demodulate(len) \/ Modulate(len)) \/ ModulateFlush
  <2>1. step = "idle" /\ processed' = processed /\ UNCHANGED offsetVars
    BY <1>3, Zenon DEF Demodulate, Modulate, ModulateFlush
  <2>2. processed = 0
    BY <2>1, Zenon DEF OffsetInv
  <2>3. step' = "mix" => entries # <<>>
    <3>1. ASSUME NEW len, NEW next, StartMix(len, next), next # "mix", entries = <<>> PROVE step' # "mix"
      BY <3>1, Zenon DEF StartMix
    <3>2. ASSUME NEW len \in 0..BufferSize, Demodulate(len) PROVE step' = "mix" => entries # <<>>
      BY <3>1, <3>2, Zenon DEF Demodulate
    <3>3. ASSUME NEW len \in 0..BufferSize, Modulate(len) PROVE step' = "mix" => entries # <<>>
      BY <2>1, <3>1, <3>3, Zenon DEF Modulate
    <3>4. CASE ModulateFlush
      BY <2>1, <3>1, <3>4, Zenon DEF ModulateFlush
    <3> QED BY <1>3, <3>2, <3>3, <3>4, Zenon
  <2>4. bufferLen' \in Nat
    BY Zenon DEF ChainInv
  <2>5. 0 <= bufferLen'
    BY <2>4
  <2> QED BY <2>1, <2>2, <2>3, <2>5, OffsetUndisturbed, Zenon DEF offsetVars
<1>4. CASE ModemCreate \/ Decimate \/ DemodulateStep
  <2>1. step # "mix" /\ step' # "mix"
    BY <1>4, Zenon DEF ModemCreate, Decimate, DemodulateStep, CallDemodulator, CallCorrelator
  <2>2. processed' = processed /\ UNCHANGED offsetVars
    BY <1>4, Zenon DEF ModemCreate, Decimate, DemodulateStep
  <2> QED BY <2>1, <2>2, OffsetUndisturbed, Zenon DEF offsetVars, OffsetInv
<1>5. CASE UNCHANGED modemVars
  BY <1>5, Zenon DEF modemVars, offsetVars, OffsetInv
<1> QED BY <1>1, <1>2, <1>3, <1>4, <1>5, Zenon DEF ModemNext

\* The offset is interpolated within its interval, for all files and all lengths of the calls.
THEOREM InterpolatesInInterval == ModemSpec => []OffsetInInterval
<1>1. ModemInit => ChainInv /\ CorrelatorFed /\ OffsetInv
  BY ChainInit, OffsetInvInit, Zenon
<1>2. ChainInv /\ CorrelatorFed /\ OffsetInv /\ [ModemNext]_modemVars => ChainInv' /\ CorrelatorFed' /\ OffsetInv'
  BY ChainStep, OffsetStep, Zenon
<1>3. OffsetInv => OffsetInInterval
  <2> SUFFICES ASSUME OffsetInv, step = "mix", processed < bufferLen, ~(virtual_time <= entries[1])
               PROVE  \/ current_index = Len(entries) /\ entries[current_index] <= virtual_time
                      \/ /\ current_index < Len(entries)
                         /\ entries[current_index] <= virtual_time /\ virtual_time < entries[current_index + 1]
    BY Zenon DEF OffsetInInterval
  <2>1. /\ entries \in Seq(Nat) /\ entries # <<>> /\ current_index \in 1..Len(entries) /\ virtual_time \in Nat
        /\ current_index = 1 \/ entries[current_index] <= virtual_time
        /\ current_index = Len(entries) \/ virtual_time < entries[current_index + 1]
    BY Zenon DEF OffsetInv
  <2>2. entries[1] \in Nat
    BY <2>1
  <2>3. entries[current_index] <= virtual_time
    BY <2>1, <2>2
  <2> QED BY <2>1, <2>3
<1> QED BY <1>1, <1>2, <1>3, PTL DEF ModemSpec
=============================================================================
