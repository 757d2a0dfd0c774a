--------------------------------- MODULE Api ---------------------------------
(***************************************************************************)
(* src/api.c: how the settings of a client (comm_settings) are laid out in *)
(* the payload of a parameters request.  The code has two tables of        *)
(* offsets, one in api_encode_comm_settings and one in                     *)
(* api_decode_comm_settings, and so has this module.                       *)
(*                                                                         *)
(* A byte has ByteBase values, 256 in the code.  A payload is a function   *)
(* from 0..len-1 to bytes.  A settings record has the type of the modem,   *)
(* psk.type (of psk modems), and a value for each field of sdr and of      *)
(* modem; a float is its bits.                                             *)
(***************************************************************************)
EXTENDS Integers

CONSTANT ByteBase

ASSUME ByteBaseAssumption == ByteBase \in Nat /\ ByteBase > 5 /\ ByteBase % 2 = 0

Bytes == 0..(ByteBase - 1)

\* sdr_modem_type
GFSK == 1
PSK == {2, 3, 4}    \* BPSK, DPSK, SDPSK
PSK_PM == 5

SdrSize == 8 + 8 + 4
GfskSize == 8 + 4 + 8 + 4 + 4 + 1 + 8 + 4
PskSize == 8 + 4 + 4 + 4 + 1 + 4 + 1
PskPmSize == 8 + 4 + 4 + 4 + 4 + 4 + 1 + 4 + 1 + 4

\* The modem's part of a payload, after modem_type
ModemSize(type) == CASE type = GFSK   -> GfskSize
                     [] type \in PSK  -> PskSize
                     [] type = PSK_PM -> PskPmSize
TotalSize(type) == SdrSize + 1 + ModemSize(type)

\* 2^32 and 2^64, and the number of values that fit into width bytes
U32 == ByteBase * ByteBase * ByteBase * ByteBase
U64 == U32 * U32
Capacity(width) == CASE width = 1 -> ByteBase
                     [] width = 4 -> U32
                     [] width = 8 -> U64

\* v >> 8
Shifted(v) == v \div ByteBase

\* Byte i of what write_u32, write_u64, write_f32 and the assignment of a single byte store
write_u32(v, i) == CASE i = 0 -> Shifted(Shifted(Shifted(v))) % ByteBase
                     [] i = 1 -> Shifted(Shifted(v)) % ByteBase
                     [] i = 2 -> Shifted(v) % ByteBase
                     [] i = 3 -> v % ByteBase
write_u64(v, i) == IF i < 4 THEN write_u32(v \div U32, i) ELSE write_u32(v % U32, i - 4)
Write(v, width, i) == CASE width = 1 -> v % ByteBase
                        [] width = 4 -> write_u32(v, i)
                        [] width = 8 -> write_u64(v, i)

\* read_u32, read_u64, read_f32 and a single byte at offset o of payload p
read_u32(p, o) == ((p[o] * ByteBase + p[o + 1]) * ByteBase + p[o + 2]) * ByteBase + p[o + 3]
read_u64(p, o) == read_u32(p, o) * U32 + read_u32(p, o + 4)
Read(p, o, width) == CASE width = 1 -> p[o]
                       [] width = 4 -> read_u32(p, o)
                       [] width = 8 -> read_u64(p, o)

\* The casts of deviation between int64_t and uint64_t
ToUnsigned(v) == v % U64
ToSigned(v) == IF 2 * v < U64 THEN v ELSE v - U64

-----------------------------------------------------------------------------
\* api_encode_comm_settings: offset and width of every field
SdrWritten == [frequency |-> <<0, 8>>, sample_rate |-> <<8, 8>>, gain |-> <<16, 4>>]

GfskWritten ==
  [sample_rate |-> <<0, 8>>, baud_rate |-> <<8, 4>>, deviation |-> <<12, 8>>, bandwidth |-> <<20, 4>>,
   bt |-> <<24, 4>>, use_dc_block |-> <<28, 1>>, syncword |-> <<29, 8>>, syncword_bits |-> <<37, 4>>]

PskWritten ==
  [sample_rate |-> <<0, 8>>, baud_rate |-> <<8, 4>>, bandwidth |-> <<12, 4>>, rrc_beta |-> <<16, 4>>,
   rrc_delay |-> <<20, 1>>, costas_bandwidth |-> <<21, 4>>, symsync_filter_bank_size |-> <<25, 1>>]

PskPmWritten ==
  [sample_rate |-> <<0, 8>>, subcarrier_frequency |-> <<8, 4>>, carrier_pll_bandwidth |-> <<12, 4>>,
   baud_rate |-> <<16, 4>>, subcarrier_bandwidth |-> <<20, 4>>, rrc_beta |-> <<24, 4>>,
   rrc_delay |-> <<28, 1>>, costas_bandwidth |-> <<29, 4>>, symsync_filter_bank_size |-> <<33, 1>>,
   modulation_index |-> <<34, 4>>]

Written(type) == CASE type = GFSK   -> GfskWritten
                   [] type = PSK_PM -> PskPmWritten
                   [] OTHER         -> PskWritten

\* Byte i of the fields of part, laid out by table; 0 where no field is.
WrittenByte(part, table, i) ==
  LET covers(f) == i \in table[f][1]..(table[f][1] + table[f][2] - 1)
      value(f)  == IF f = "deviation" THEN ToUnsigned(part[f]) ELSE part[f]
  IN  IF \E f \in DOMAIN table : covers(f)
      THEN LET f == CHOOSE f \in DOMAIN table : covers(f)
           IN  Write(value(f), table[f][2], i - table[f][1])
      ELSE 0

\* Byte i of the payload, for i below TotalSize
Encoded(settings, i) ==
  CASE i < SdrSize -> WrittenByte(settings.sdr, SdrWritten, i)
    [] i = SdrSize -> settings.type
    [] i > SdrSize -> WrittenByte(settings.modem, Written(settings.type), i - SdrSize - 1)

-----------------------------------------------------------------------------
\* api_decode_comm_settings
SdrRead == [frequency |-> <<0, 8>>, sample_rate |-> <<8, 8>>, gain |-> <<16, 4>>]

GfskRead ==
  [sample_rate |-> <<0, 8>>, baud_rate |-> <<8, 4>>, deviation |-> <<12, 8>>, bandwidth |-> <<20, 4>>,
   bt |-> <<24, 4>>, use_dc_block |-> <<28, 1>>, syncword |-> <<29, 8>>, syncword_bits |-> <<37, 4>>]

PskRead ==
  [sample_rate |-> <<0, 8>>, baud_rate |-> <<8, 4>>, bandwidth |-> <<12, 4>>, rrc_beta |-> <<16, 4>>,
   rrc_delay |-> <<20, 1>>, costas_bandwidth |-> <<21, 4>>, symsync_filter_bank_size |-> <<25, 1>>]

\* Mutant: two neighbours of the layout are swapped on the reading side.
PskPmReadSwapped ==
  [sample_rate |-> <<0, 8>>, carrier_pll_bandwidth |-> <<8, 4>>, subcarrier_frequency |-> <<12, 4>>,
   baud_rate |-> <<16, 4>>, subcarrier_bandwidth |-> <<20, 4>>, rrc_beta |-> <<24, 4>>,
   rrc_delay |-> <<28, 1>>, costas_bandwidth |-> <<29, 4>>, symsync_filter_bank_size |-> <<33, 1>>,
   modulation_index |-> <<34, 4>>]

PskPmRead ==
  [sample_rate |-> <<0, 8>>, subcarrier_frequency |-> <<8, 4>>, carrier_pll_bandwidth |-> <<12, 4>>,
   baud_rate |-> <<16, 4>>, subcarrier_bandwidth |-> <<20, 4>>, rrc_beta |-> <<24, 4>>,
   rrc_delay |-> <<28, 1>>, costas_bandwidth |-> <<29, 4>>, symsync_filter_bank_size |-> <<33, 1>>,
   modulation_index |-> <<34, 4>>]

ReadTable(type) == CASE type = GFSK   -> GfskRead
                     [] type \in PSK  -> PskRead
                     [] type = PSK_PM -> PskPmRead

\* The checks in front of the reads: buffer_len, the type, and the length of its fields
Decodable(payload, len) ==
  /\ len >= SdrSize + 1
  /\ payload[SdrSize] \in PSK \cup {GFSK, PSK_PM}
  /\ len - SdrSize - 1 >= ModemSize(payload[SdrSize])

\* The fields of a table, read at offset base of a payload
ReadPart(payload, base, table) ==
  [f \in DOMAIN table |->
     LET value == Read(payload, base + table[f][1], table[f][2])
     IN  IF f = "deviation" THEN ToSigned(value) ELSE value]

\* psk.type is not sent, but follows from modem_type.
PskType(modem_type) == CASE modem_type = 2       -> "BPSK"
                         [] modem_type = 3       -> "DPSK"
                         [] modem_type = 4       -> "SDPSK"
                         [] modem_type \notin PSK -> "none"

Decode(payload) ==
  [type  |-> payload[SdrSize],
   psk   |-> PskType(payload[SdrSize]),
   sdr   |-> ReadPart(payload, 0, SdrRead),
   modem |-> ReadPart(payload, SdrSize + 1, ReadTable(payload[SdrSize]))]
=============================================================================
