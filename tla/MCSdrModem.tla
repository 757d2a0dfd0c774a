------------------------------ MODULE MCSdrModem ------------------------------
(***************************************************************************)
(* Every type of modem at small rates: 2 to 15 samples per symbol, with    *)
(* and without resampling, up to 6 half-band stages, settings that are     *)
(* refused, some of them because of the half-band stages; a sync word of 2 *)
(* bits; no frequency offset file, one for a recording with an entry given *)
(* twice, and one that starts at a wall-clock time and may have ended.     *)
(***************************************************************************)
EXTENDS SdrModem

Gfsk(rate, baud, bw, bits) ==
  [modem_type |-> "gfsk", sample_rate |-> rate, baud_rate |-> baud, bandwidth |-> bw, rrc_beta |-> 0,
   rrc_delay |-> 0, subcarrier_frequency |-> 0, syncword_bits |-> bits, inRange |-> TRUE]
Psk(type, rate, baud, cutoff, frequency) ==
  [modem_type |-> type, sample_rate |-> rate, baud_rate |-> baud, bandwidth |-> cutoff, rrc_beta |-> 35,
   rrc_delay |-> 2, subcarrier_frequency |-> frequency, syncword_bits |-> 0, inRange |-> TRUE]

\* For every step of the chains
SmallSettings ==
  {Gfsk(17, 2, 2, 2), Gfsk(8, 2, 2, 0), Gfsk(6, 2, 0, 0)} \cup
  {Psk("bpsk", 4, 2, 1, 0), Psk("dpsk", 10, 2, 0, 0), Psk("sdpsk", 7, 2, 0, 0),
   Psk("psk_pm", 20, 2, 1, 3), Psk("psk_pm", 10, 2, 0, 2)}

\* For the creation, and the lengths at many rates
ManySettings ==
  {Gfsk(8, 4, 0, 2), Gfsk(8, 2, 2, 2), Gfsk(6, 2, 0, 2)} \cup
  {Gfsk(rate, 2, bw, 0) : rate \in {3, 4, 11, 12, 13, 24, 192, 400}, bw \in {1, 3}} \cup
  {Psk("bpsk", rate, 1, cutoff, 0) : rate \in 1..17 \cup {128, 1000, 1024, 1100}, cutoff \in {0, 1}} \cup
  {Psk("bpsk", rate, 4800, cutoff, 0) : rate \in {48000, 52000}, cutoff \in {4800, 6000}} \cup
  {Psk("psk_pm", rate, 2, 1, 3) : rate \in {4, 6, 7, 19, 20, 21, 40, 320, 640, 3000}}

MCCreations == (SmallSettings \X {<<>>, <<0, 3, 3, 6>>, <<2, 4, 9>>}) \cup (ManySettings \X {<<>>})

=============================================================================
