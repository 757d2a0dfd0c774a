---------------------------- MODULE ModemSettings ----------------------------
(***************************************************************************)
(* What sdr_modem_create (src/dsp/sdr_modem.c) and the modems it wraps     *)
(* (gfsk_modem.c, bpsk_modem.c, psk_pm_modem.c) make of their settings:    *)
(* the half-band stages in front of the modem, its samples per symbol,     *)
(* whether it resamples, and which settings it refuses.                    *)
(*                                                                         *)
(* A settings record has one field for each idea.  bandwidth is the        *)
(* occupied bandwidth of gfsk and the cutoff of the low-pass filter of the *)
(* others; rrc_beta is in hundredths; inRange stands for the settings of   *)
(* filters and loops that decide nothing else (bt, deviation,              *)
(* modulation_index, loop bandwidths, filter bank size).                   *)
(***************************************************************************)
EXTENDS Integers

PskTypes == {"bpsk", "dpsk", "sdpsk"}
ModemTypes == PskTypes \cup {"gfsk", "psk_pm"}

SettingsRecords ==
  [modem_type : ModemTypes, sample_rate : Nat, baud_rate : Nat, bandwidth : Nat, rrc_beta : Nat,
   rrc_delay : Nat, subcarrier_frequency : Nat, syncword_bits : Nat, inRange : BOOLEAN]

-----------------------------------------------------------------------------
MaxStages == 6                                  \* MODEM_HALFBAND_MAX_STAGES
Shift(n) == <<1, 2, 4, 8, 16, 32, 64>>[n + 1]   \* 1u << n

\* The sidebands of a root-raised-cosine pulse
Sidebands(s) == ((100 + s.rrc_beta) * s.baud_rate) \div 100

\* sdr_modem_get_bandwidth
Bandwidth(s) ==
  CASE s.modem_type = "gfsk"   -> s.bandwidth
    [] s.modem_type = "psk_pm" -> 2 * (s.subcarrier_frequency + Sidebands(s))
    [] OTHER                   -> Sidebands(s)

\* The rate that the half-band stages may not go below
RequiredRate(s) == 2 * Bandwidth(s)

\* Mutant: one stage more than the bandwidth allows.
HalfbandStagesOneMore(s) ==
  IF Bandwidth(s) = 0 THEN 0
  ELSE CHOOSE n \in 0..MaxStages :
         /\ n > 0 => s.sample_rate \div Shift(n - 1) >= RequiredRate(s)
         /\ n < MaxStages => s.sample_rate \div Shift(n) < RequiredRate(s)

\* sdr_modem_estimate_halfband_stages: halves while the next rate is still enough.
HalfbandStages(s) ==
  IF Bandwidth(s) = 0 THEN 0
  ELSE CHOOSE n \in 0..MaxStages :
         /\ n > 0 => s.sample_rate \div Shift(n) >= RequiredRate(s)
         /\ n < MaxStages => s.sample_rate \div Shift(n + 1) < RequiredRate(s)

\* baseband_sample_rate of sdr_modem_create, the sample_rate of the wrapped modem
BasebandRate(s) == s.sample_rate \div Shift(HalfbandStages(s))

-----------------------------------------------------------------------------
\* The wrapped modem at a sample rate.
GfskSps == 2        \* GFSK_MODEM_SPS
TargetSps == 15     \* BPSK_MODEM_TARGET_SPS

\* samples_per_symbol of the modem's own chain
SamplesPerSymbol(s, rate) ==
  IF s.modem_type = "gfsk" THEN GfskSps
  ELSE IF rate \div s.baud_rate > TargetSps THEN TargetSps ELSE rate \div s.baud_rate

\* internal_sample_rate
InternalRate(s, rate) == SamplesPerSymbol(s, rate) * s.baud_rate

\* needs_resampling: the chain runs at a rate of its own.
NeedsResampling(s, rate) == rate # InternalRate(s, rate)

\* gfsk_modem_create
GfskAccepts(s, rate) ==
  /\ s.baud_rate > 0 /\ s.inRange
  /\ s.syncword_bits <= 64
  /\ rate >= 2 * s.baud_rate

\* bpsk_modem_create: at least two samples per symbol, and a cutoff below the half of the
\* internal rate; liquid-dsp refuses a pulse or a filter bank out of range.
BpskAccepts(s, rate) ==
  /\ s.baud_rate > 0
  /\ SamplesPerSymbol(s, rate) >= 2
  /\ s.bandwidth # 0 => 2 * s.bandwidth < InternalRate(s, rate)
  /\ s.rrc_delay > 0 /\ s.rrc_beta <= 100 /\ s.inRange

\* psk_pm_modem_validate_settings and psk_pm_modem_create
PskPmAccepts(s, rate) ==
  /\ s.subcarrier_frequency # 0
  /\ 2 * s.subcarrier_frequency < rate
  /\ BpskAccepts(s, rate)

\* The modem that sdr_modem_create wraps
WrappedAccepts(s, rate) ==
  CASE s.modem_type = "gfsk"   -> GfskAccepts(s, rate)
    [] s.modem_type = "psk_pm" -> PskPmAccepts(s, rate)
    [] OTHER                   -> BpskAccepts(s, rate)

\* What the half-band stages do not see: they are counted from sdr_modem_get_bandwidth, but gfsk
\* needs two samples per symbol whatever its bandwidth, and the others a rate for the cutoff of
\* their low-pass filter.
BeyondEstimate(s) ==
  IF s.modem_type = "gfsk" THEN s.bandwidth \in 1..(s.baud_rate - 1)
                           ELSE s.bandwidth >= s.baud_rate
=============================================================================
