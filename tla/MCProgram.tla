------------------------------ MODULE MCProgram ------------------------------
(***************************************************************************)
(* Command lines made of a base that starts each mode with each device and *)
(* of up to two more options, before or after it, that override it, spoil  *)
(* it or are given twice; then requests with every field of every modem    *)
(* set on its own, to servers with small and large buffers.                *)
(***************************************************************************)
EXTENDS Program

Opt(name, value) == [name |-> name, value |-> value, joined |-> FALSE]
Joined(name, value) == [name |-> name, value |-> value, joined |-> TRUE]

MCFiles ==
  [pluto  |-> [bind_address |-> "127.0.0.1", sdr_type |-> "plutosdr", max_frame_size |-> 2048,
               plutosdr_timeout_ms |-> 20000, airspy_gain_mode |-> "bogus"],
   airspy |-> [sdr_type |-> "airspy", airspy_gain_mode |-> "manual", airspy_lna_gain |-> 11,
               plutosdr_timeout_ms |-> 20000, modem |-> "gfsk", output |-> "ignored"],
   badgain |-> [sdr_type |-> "airspy", airspy_lna_gain |-> 15]]

Bases ==
  {<<Opt("config", "pluto")>>,
   <<Opt("config", "airspy"), Opt("direction", "rx"), Opt("output", "bits")>>,
   <<Opt("config", "badgain")>>, <<Opt("config", "missing")>>,
   <<Opt("direction", "rx"), Opt("sdr_type", "file"), Opt("rx_file", "cu8"), Opt("output", "bits"),
     Opt("modem", "bpsk")>>,
   <<Joined("direction", "tx"), Joined("sdr_type", "file"), Joined("tx_file", "wav"),
     Opt("tx_file_format", "cs16"), Opt("input", "frames"), Opt("modem", "psk_pm"),
     Opt("max_frame_size", 40)>>,
   <<Opt("bind_address", "127.0.0.1"), Opt("sdr_type", "airspy"), Opt("max_frame_size", 2048)>>}

Others ==
  {Opt("config", "airspy"), Joined("config", "pluto"), Joined("port", 65536), Opt("queue_size", 65537),
   Opt("psk_rrc_delay", 256), Opt("read_timeout_seconds", -1), Opt("max_frame_size", 60),
   Opt("max_frame_size", Uint32), Joined("sdr_buffer_len", 16), Opt("sdr_buffer_len", -1),
   Opt("direction", "tx"), Opt("direction", "up"),
   Opt("sdr_type", "plutosdr"), Opt("sdr_type", "airspy"), Opt("sdr_type", "usb"), Opt("modem", "dpsk"),
   Opt("modem", "fm"), Opt("bind_address", ""), Opt("rx_file", "wav"), Opt("rx_file_format", "wav"),
   Joined("log_level", "loud"), Opt("airspy_lna_gain", 14), Opt("airspy_gain_mode", "linearity"),
   Opt("plutosdr_calib_mode", ""), Opt("plutosdr_uri", ""), Opt("plutosdr_gain_control_mode", "fast"),
   Opt("input", "frames"), Opt("verbose", "yes")}

MCCommandLines ==
  Bases \cup {<<a>> \o b : a \in Others, b \in Bases} \cup {b \o <<a>> : a \in Others, b \in Bases}
        \cup {b \o <<a1, a2>> : a1 \in Others, a2 \in Others, b \in Bases}

\* Command lines that are complete, and name a file at their end
MCConfigLast == {b \o <<Opt("config", "pluto")>> : b \in {l \in Bases : \A i \in 1..Len(l) : l[i].name # "config"}}

\* Settings with every field 0, but for one
Zero(table) == [f \in DOMAIN table |-> 0]
OneSet(table) ==
  UNION {{[Zero(table) EXCEPT ![f] = v] : v \in IF f = "deviation" THEN {1, 777, -1, -777}
                                               ELSE {1, Capacity(table[f][2]) - 1, Capacity(table[f][2]) \div 3}} :
           f \in DOMAIN table}
MCAnnounced == {-42, -26, -1, 0, 1, 200}

MCWanted ==
  LET Of(t, s, m) == [type |-> t, psk |-> PskTypes[t], sdr |-> s, modem |-> m]
  IN  UNION {{Of(t, Zero(SdrWritten), m) : m \in OneSet(Written(t))} \cup
             {Of(t, s, Zero(Written(t))) : s \in OneSet(SdrWritten)} : t \in {1, 3, 5}}
      \cup {Of(t, Zero(SdrWritten), Zero(PskWritten)) : t \in {2, 4}}
=============================================================================
