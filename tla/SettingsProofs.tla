---------------------------- MODULE SettingsProofs ----------------------------
(***************************************************************************)
(* The configuration of the process is the one that was asked for, and the *)
(* settings that a worker applies are the ones that the client encoded:    *)
(* for every command line, every configuration file and every value of     *)
(* every field.                                                            *)
(***************************************************************************)
EXTENDS Program, WellFoundedInduction, TLAPS

\* Division by a positive number
LEMMA Division ==
  ASSUME NEW v \in Int, NEW b \in Nat, b > 0
  PROVE  \E d \in Int, m \in 0..(b - 1) : v \div b = d /\ v % b = m /\ v = d * b + m
<1>1. PICK d : d = v \div b
  OBVIOUS
<1>2. PICK m : m = v % b
  OBVIOUS
<1>3. d \in Int /\ m \in 0..(b - 1) /\ m = v - b * d
  BY <1>1, <1>2
<1> DEFINE p == d * b
<1>4. p \in Int /\ m = v - p
  BY ONLY <1>3, b \in Nat, v \in Int
<1> HIDE DEF p
<1>5. v = p + m
  BY ONLY <1>3, <1>4, b \in Nat, v \in Int
<1> QED BY <1>1, <1>2, <1>3, <1>5, Zenon DEF p

LEMMA ProductGrows ==
  ASSUME NEW x \in Int, NEW b \in Nat, b > 0
  PROVE  /\ x * b \in Int
         /\ x >= 1 => x * b >= b
         /\ x <= -1 => x * b <= -b
         /\ x = 0 => x * b = 0
  OBVIOUS

LEMMA DivisionUnique ==
  ASSUME NEW v \in Int, NEW b \in Nat, b > 0, NEW q \in Int, NEW r \in 0..(b - 1), v = q * b + r
  PROVE  v \div b = q /\ v % b = r
<1>1. PICK d \in Int, m \in 0..(b - 1) : v \div b = d /\ v % b = m /\ v = d * b + m
  BY Division
<1> DEFINE x == q - d
           s == q * b
           t == d * b
           y == x * b
<1>2. x \in Int /\ s \in Int /\ t \in Int /\ y = s - t
  OBVIOUS
<1>3. (x >= 1 => y >= b) /\ (x <= -1 => y <= -b) /\ (x = 0 => y = 0)
  BY <1>2, ProductGrows
<1>4. v = s + r /\ v = t + m
  BY <1>1
<1> HIDE DEF s, t, y
<1>5. x = 0
  <2> HIDE DEF x
  <2> QED BY <1>2, <1>3, <1>4
<1>6. q = d /\ m = r
  BY <1>2, <1>3, <1>4, <1>5
<1> QED BY <1>1, <1>6

\* A quotient is in range when the dividend is.
LEMMA QuotientFits ==
  ASSUME NEW a \in Nat, NEW b \in Nat, b > 0, NEW v \in 0..(a * b - 1)
  PROVE  \E d \in 0..(a - 1), m \in 0..(b - 1) : v \div b = d /\ v % b = m /\ v = d * b + m
<1>1. PICK d \in Int, m \in 0..(b - 1) : v \div b = d /\ v % b = m /\ v = d * b + m
  BY Division
<1> DEFINE x == d - a
           s == a * b
           t == d * b
           y == x * b
<1>2. x \in Int /\ s \in Int /\ t \in Int /\ y = t - s /\ v = t + m /\ v \in 0..(s - 1)
  BY <1>1
<1>3. (x >= 1 => y >= b) /\ (x = 0 => y = 0) /\ (d <= -1 => t <= -b)
  BY <1>2, ProductGrows
<1> HIDE DEF s, t, y
<1>4. d >= 0
  BY <1>2, <1>3
<1>5. x < 0
  <2> HIDE DEF x
  <2> QED BY <1>2, <1>3
<1>6. d \in 0..(a - 1)
  BY <1>4, <1>5
<1> QED BY <1>1, <1>6, Zenon

-----------------------------------------------------------------------------
\* The bytes of a number, and the number read from them
LEMMA Sizes ==
  /\ ByteBase \in Nat /\ ByteBase > 0
  /\ ByteBase * ByteBase \in Nat /\ ByteBase * ByteBase * ByteBase \in Nat
  /\ U32 \in Nat /\ U32 > 0 /\ U64 \in Nat /\ U64 > 0
  BY ByteBaseAssumption DEF U32, U64

LEMMA ReadsWritten32 ==
  ASSUME NEW v \in 0..(U32 - 1), NEW p, NEW o \in Int, \A i \in 0..3 : p[o + i] = write_u32(v, i)
  PROVE  read_u32(p, o) = v
<1> DEFINE B == ByteBase
<1>1. B \in Nat /\ B > 0 /\ B * B \in Nat /\ B * B * B \in Nat /\ v \in 0..((B * B * B) * B - 1)
  BY Sizes DEF U32
<1>2. PICK v1 \in 0..(B * B * B - 1), m0 \in 0..(B - 1) : Shifted(v) = v1 /\ v % B = m0 /\ v = v1 * B + m0
  BY <1>1, QuotientFits DEF Shifted
<1>3. PICK v2 \in 0..(B * B - 1), m1 \in 0..(B - 1) : Shifted(v1) = v2 /\ v1 % B = m1 /\ v1 = v2 * B + m1
  BY <1>1, QuotientFits DEF Shifted
<1>4. PICK v3 \in 0..(B - 1), m2 \in 0..(B - 1) : Shifted(v2) = v3 /\ v2 % B = m2 /\ v2 = v3 * B + m2
  BY <1>1, QuotientFits DEF Shifted
<1>5. v3 % B = v3
  BY <1>1, DivisionUnique
<1>6. p[o] = v3 /\ p[o + 1] = m2 /\ p[o + 2] = m1 /\ p[o + 3] = m0
  <2>1. /\ p[o + 0] = write_u32(v, 0) /\ p[o + 1] = write_u32(v, 1)
        /\ p[o + 2] = write_u32(v, 2) /\ p[o + 3] = write_u32(v, 3)
    OBVIOUS
  <2>2. /\ write_u32(v, 0) = v3 /\ write_u32(v, 1) = m2 /\ write_u32(v, 2) = m1 /\ write_u32(v, 3) = m0
    BY <1>2, <1>3, <1>4, <1>5 DEF write_u32
  <2> QED BY <2>1, <2>2
<1>7. read_u32(p, o) = ((v3 * B + m2) * B + m1) * B + m0
  BY <1>6 DEF read_u32
<1> QED BY <1>2, <1>3, <1>4, <1>7

LEMMA ReadsWritten64 ==
  ASSUME NEW v \in 0..(U64 - 1), NEW p, NEW o \in Int, \A i \in 0..7 : p[o + i] = write_u64(v, i)
  PROVE  read_u64(p, o) = v
<1>1. U32 \in Nat /\ U32 > 0 /\ U64 = U32 * U32
  BY Sizes DEF U64
<1>2. PICK h \in 0..(U32 - 1), l \in 0..(U32 - 1) : v \div U32 = h /\ v % U32 = l /\ v = h * U32 + l
  BY <1>1, QuotientFits
<1>3. \A i \in 0..3 : p[o + i] = write_u32(h, i) /\ p[o + 4 + i] = write_u32(l, i)
  <2> TAKE i \in 0..3
  <2>1. i \in 0..7 /\ i < 4 /\ i + 4 \in 0..7 /\ ~(i + 4 < 4) /\ o + (i + 4) = o + 4 + i /\ i + 4 - 4 = i
    OBVIOUS
  <2>2. p[o + i] = write_u64(v, i) /\ p[o + (i + 4)] = write_u64(v, i + 4)
    BY <2>1
  <2> QED BY <1>2, <2>1, <2>2 DEF write_u64
<1>4. read_u32(p, o) = h /\ read_u32(p, o + 4) = l
  <2>1. \A i \in 0..3 : p[o + i] = write_u32(h, i)
    BY <1>3
  <2>2. \A i \in 0..3 : p[(o + 4) + i] = write_u32(l, i)
    BY <1>3
  <2>3. o + 4 \in Int
    OBVIOUS
  <2> QED BY <2>1, <2>2, <2>3, ReadsWritten32
<1> QED BY <1>2, <1>4 DEF read_u64

LEMMA ReadsWritten ==
  ASSUME NEW w \in {1, 4, 8}, NEW v \in 0..(Capacity(w) - 1), NEW p, NEW o \in Int,
         \A i \in 0..(w - 1) : p[o + i] = Write(v, w, i)
  PROVE  Read(p, o, w) = v
<1>1. CASE w = 1
  <2>1. p[o] = v % ByteBase
    <3>1. p[o + 0] = Write(v, w, 0) /\ o + 0 = o
      BY <1>1
    <3> QED BY <1>1, <3>1 DEF Write
  <2>2. v \in 0..(ByteBase - 1)
    BY <1>1 DEF Capacity
  <2>3. v % ByteBase = v
    BY <2>2, Sizes, DivisionUnique
  <2> QED BY <1>1, <2>1, <2>3 DEF Read
<1>2. CASE w = 4
  <2>1. v \in 0..(U32 - 1) /\ \A i \in 0..3 : p[o + i] = write_u32(v, i)
    BY <1>2 DEF Capacity, Write
  <2> QED BY <1>2, <2>1, ReadsWritten32 DEF Read
<1>3. CASE w = 8
  <2>1. v \in 0..(U64 - 1) /\ \A i \in 0..7 : p[o + i] = write_u64(v, i)
    BY <1>3 DEF Capacity, Write
  <2> QED BY <1>3, <2>1, ReadsWritten64 DEF Read
<1> QED BY <1>1, <1>2, <1>3

\* The casts of deviation to uint64_t and back
LEMMA SignedAgain ==
  ASSUME NEW v \in Int, 2 * v \in (-U64)..(U64 - 1)
  PROVE  ToUnsigned(v) \in 0..(U64 - 1) /\ ToSigned(ToUnsigned(v)) = v
<1>1. U64 \in Nat /\ U64 > 0
  BY Sizes
<1>2. CASE v >= 0
  <2>1. v \in 0..(U64 - 1) /\ v = 0 * U64 + v
    BY <1>1, <1>2
  <2>2. v % U64 = v
    BY <1>1, <2>1, DivisionUnique
  <2> QED BY <1>1, <2>1, <2>2 DEF ToUnsigned, ToSigned
<1>3. CASE v < 0
  <2>1. v + U64 \in 0..(U64 - 1) /\ v = (-1) * U64 + (v + U64) /\ -1 \in Int
    BY <1>1, <1>3
  <2>2. v % U64 = v + U64
    BY <1>1, <2>1, DivisionUnique
  <2> QED BY <1>1, <2>1, <2>2 DEF ToUnsigned, ToSigned
<1> QED BY <1>2, <1>3

-----------------------------------------------------------------------------
\* The fields of a layout lie side by side in size bytes.
Packed(table, size) ==
  /\ \A f \in DOMAIN table : table[f][1] \in Nat /\ table[f][2] \in {1, 4, 8} /\ table[f][1] + table[f][2] <= size
  /\ \A f, g \in DOMAIN table :
       f # g => table[f][1] + table[f][2] <= table[g][1] \/ table[g][1] + table[g][2] <= table[f][1]

LEMMA TablesPacked ==
  /\ Packed(SdrWritten, SdrSize) /\ Packed(GfskWritten, GfskSize) /\ Packed(PskWritten, PskSize)
  /\ Packed(PskPmWritten, PskPmSize)
<1>1. Packed(SdrWritten, SdrSize)
  BY DEF Packed, SdrWritten, SdrSize
<1>2. Packed(GfskWritten, GfskSize)
  BY DEF Packed, GfskWritten, GfskSize
<1>3. Packed(PskWritten, PskSize)
  BY DEF Packed, PskWritten, PskSize
<1>4. Packed(PskPmWritten, PskPmSize)
  BY DEF Packed, PskPmWritten, PskPmSize
<1> QED BY <1>1, <1>2, <1>3, <1>4

\* What is written of a field in unsigned bytes
WrittenValue(part, f) == IF f = "deviation" THEN ToUnsigned(part[f]) ELSE part[f]

LEMMA FieldWritten ==
  ASSUME NEW table, NEW size, Packed(table, size), NEW part, NEW f \in DOMAIN table, NEW k \in 0..(table[f][2] - 1)
  PROVE  /\ WrittenByte(part, table, table[f][1] + k) = Write(WrittenValue(part, f), table[f][2], k)
         /\ table[f][1] + k \in Nat
<1> DEFINE i == table[f][1] + k
           covers(g) == i \in table[g][1]..(table[g][1] + table[g][2] - 1)
<1>1. table[f][1] \in Nat /\ table[f][2] \in Nat /\ i \in Nat /\ i - table[f][1] = k
  BY DEF Packed
<1>2. covers(f)
  BY <1>1
<1>3. ASSUME NEW g \in DOMAIN table, covers(g) PROVE g = f
  <2>1. table[g][1] \in Nat /\ table[g][2] \in Nat
    BY <1>3 DEF Packed
  <2>2. g # f => table[f][1] + table[f][2] <= table[g][1] \/ table[g][1] + table[g][2] <= table[f][1]
    BY <1>3 DEF Packed
  <2> QED BY <1>1, <1>2, <1>3, <2>1, <2>2
<1>4. (CHOOSE g \in DOMAIN table : covers(g)) = f
  BY <1>2, <1>3
<1>5. (\E g \in DOMAIN table : covers(g))
  BY <1>2
<1> QED BY <1>1, <1>4, <1>5 DEF WrittenByte, WrittenValue

\* A part of the settings is read as it was written.
LEMMA PartReadBack ==
  ASSUME NEW table, NEW size \in Nat, Packed(table, size), NEW part, FitsTable(part, table),
         "deviation" \in DOMAIN table => table["deviation"][2] = 8,
         NEW p, NEW base \in Int, \A i \in 0..(size - 1) : p[base + i] = WrittenByte(part, table, i)
  PROVE  ReadPart(p, base, table) = part
<1>1. ASSUME NEW f \in DOMAIN table
      PROVE  /\ Read(p, base + table[f][1], table[f][2]) = WrittenValue(part, f)
             /\ f = "deviation" => ToSigned(WrittenValue(part, f)) = part[f]
  <2> DEFINE o == table[f][1]
             w == table[f][2]
  <2>1. o \in Nat /\ w \in {1, 4, 8} /\ w \in Nat /\ o + w <= size /\ base + o \in Int
    BY DEF Packed
  <2>2. \A k \in 0..(w - 1) : p[(base + o) + k] = Write(WrittenValue(part, f), w, k)
    <3> TAKE k \in 0..(w - 1)
    <3>1. o + k \in 0..(size - 1) /\ base + (o + k) = (base + o) + k
      BY <2>1
    <3>2. WrittenByte(part, table, o + k) = Write(WrittenValue(part, f), w, k)
      BY FieldWritten
    <3> QED BY <3>1, <3>2
  <2>3. /\ WrittenValue(part, f) \in 0..(Capacity(w) - 1)
        /\ f = "deviation" => ToSigned(WrittenValue(part, f)) = part[f]
    <3>1. CASE f = "deviation"
      <4>1. part[f] \in Int /\ 2 * part[f] \in (-U64)..(U64 - 1) /\ w = 8 /\ Capacity(w) = U64
        BY <3>1 DEF FitsTable, Capacity
      <4>2. ToUnsigned(part[f]) \in 0..(U64 - 1) /\ ToSigned(ToUnsigned(part[f])) = part[f]
        BY <4>1, SignedAgain
      <4> QED BY <3>1, <4>1, <4>2 DEF WrittenValue
    <3>2. CASE f # "deviation"
      BY <3>2 DEF FitsTable, WrittenValue
    <3> QED BY <3>1, <3>2
  <2> HIDE DEF o, w
  <2>4. Read(p, base + o, w) = WrittenValue(part, f)
    BY <2>1, <2>2, <2>3, ReadsWritten
  <2> QED BY <2>3, <2>4 DEF o, w
<1>2. ReadPart(p, base, table) = [f \in DOMAIN table |-> part[f]]
  BY <1>1 DEF ReadPart, WrittenValue
<1> QED BY <1>2 DEF FitsTable

\* The two tables of offsets agree for every modem.
LEMMA TablesAgree ==
  ASSUME NEW type \in PSK \cup {GFSK, PSK_PM}
  PROVE  /\ ReadTable(type) = Written(type) /\ SdrRead = SdrWritten
         /\ Packed(Written(type), ModemSize(type)) /\ ModemSize(type) \in Nat
         /\ "deviation" \in DOMAIN Written(type) => Written(type)["deviation"][2] = 8
<1>1. CASE type = GFSK
  <2>1. ReadTable(type) = GfskWritten /\ Written(type) = GfskWritten /\ ModemSize(type) = GfskSize
    BY <1>1 DEF ReadTable, Written, ModemSize, GfskRead, GfskWritten, PSK, GFSK, PSK_PM
  <2>2. GfskWritten["deviation"][2] = 8 /\ GfskSize \in Nat /\ SdrRead = SdrWritten
    BY DEF GfskWritten, GfskSize, SdrRead, SdrWritten
  <2> QED BY <2>1, <2>2, TablesPacked
<1>2. CASE type \in PSK
  <2>1. ReadTable(type) = PskWritten /\ Written(type) = PskWritten /\ ModemSize(type) = PskSize
    BY <1>2 DEF ReadTable, Written, ModemSize, PskRead, PskWritten, PSK, GFSK, PSK_PM
  <2>2. "deviation" \notin DOMAIN PskWritten /\ PskSize \in Nat /\ SdrRead = SdrWritten
    BY DEF PskWritten, PskSize, SdrRead, SdrWritten
  <2> QED BY <2>1, <2>2, TablesPacked
<1>3. CASE type = PSK_PM
  <2>1. ReadTable(type) = PskPmWritten /\ Written(type) = PskPmWritten /\ ModemSize(type) = PskPmSize
    BY <1>3 DEF ReadTable, Written, ModemSize, PskPmRead, PskPmWritten, PSK, GFSK, PSK_PM
  <2>2. "deviation" \notin DOMAIN PskPmWritten /\ PskPmSize \in Nat /\ SdrRead = SdrWritten
    BY DEF PskPmWritten, PskPmSize, SdrRead, SdrWritten
  <2> QED BY <2>1, <2>2, TablesPacked
<1> QED BY <1>1, <1>2, <1>3

\* The payload of a client that announces len bytes
PayloadOf(s, len) ==
  [i \in 0..(len - 1) |-> IF i < TotalSize(s.type) THEN Encoded(s, i) ELSE ByteBase - 1]

\* api_decode_comm_settings accepts no message that was cut short,
LEMMA DecodableIsComplete ==
  ASSUME NEW s \in Wanted, NEW len \in Nat, Decodable(PayloadOf(s, len), len)
  PROVE  len >= TotalSize(s.type) /\ PayloadOf(s, len)[SdrSize] = s.type
<1>1. s.type \in PSK \cup {GFSK, PSK_PM} /\ ModemSize(s.type) \in Nat /\ SdrSize = 20 /\ TotalSize(s.type) = SdrSize + 1 + ModemSize(s.type)
  BY WantedAssumption, TablesAgree DEF SdrSize, TotalSize
<1>2. SdrSize \in 0..(len - 1) /\ SdrSize < TotalSize(s.type)
  BY <1>1 DEF Decodable
<1>3. PayloadOf(s, len)[SdrSize] = Encoded(s, SdrSize)
  BY <1>2 DEF PayloadOf
<1>4. Encoded(s, SdrSize) = s.type
  BY <1>1 DEF Encoded
<1>5. len - SdrSize - 1 >= ModemSize(s.type)
  BY <1>3, <1>4 DEF Decodable
<1> QED BY <1>1, <1>3, <1>4, <1>5

\* and gives back the settings that api_encode_comm_settings was given.
LEMMA DecodesEncoded ==
  ASSUME NEW s \in Wanted, NEW len \in Nat, len >= TotalSize(s.type)
  PROVE  Decode(PayloadOf(s, len)) = s
<1> DEFINE p == PayloadOf(s, len)
           n == ModemSize(s.type)
<1>1. /\ s.type \in PSK \cup {GFSK, PSK_PM} /\ n \in Nat /\ SdrSize = 20 /\ TotalSize(s.type) = SdrSize + 1 + n
      /\ FitsTable(s.sdr, SdrWritten) /\ FitsTable(s.modem, Written(s.type))
  BY WantedAssumption, TablesAgree DEF SdrSize, TotalSize
<1>2. \A i \in 0..(SdrSize + n) : p[i] = Encoded(s, i)
  BY <1>1 DEF PayloadOf
<1> HIDE DEF p, n
<1>3. p[SdrSize] = s.type
  BY <1>1, <1>2 DEF Encoded
<1>4. ReadPart(p, 0, SdrRead) = s.sdr
  <2>1. \A i \in 0..(SdrSize - 1) : p[0 + i] = WrittenByte(s.sdr, SdrWritten, i)
    BY <1>1, <1>2 DEF Encoded
  <2>2. "deviation" \notin DOMAIN SdrWritten /\ SdrSize \in Nat /\ 0 \in Int
    BY <1>1 DEF SdrWritten
  <2>3. ReadPart(p, 0, SdrWritten) = s.sdr
    BY <1>1, <2>1, <2>2, TablesPacked, PartReadBack
  <2> QED BY <1>1, <2>3, TablesAgree
<1>5. ReadPart(p, SdrSize + 1, ReadTable(s.type)) = s.modem
  <2>1. \A i \in 0..(n - 1) : p[(SdrSize + 1) + i] = WrittenByte(s.modem, Written(s.type), i)
    <3> TAKE i \in 0..(n - 1)
    <3> DEFINE j == (SdrSize + 1) + i
    <3>1. j \in 0..(SdrSize + n) /\ j > SdrSize /\ ~(j < SdrSize) /\ j # SdrSize /\ j - SdrSize - 1 = i
      BY <1>1
    <3> HIDE DEF j
    <3>2. p[j] = WrittenByte(s.modem, Written(s.type), j - SdrSize - 1)
      BY <1>2, <3>1 DEF Encoded
    <3> QED BY <3>1, <3>2 DEF j
  <2>2. /\ Packed(Written(s.type), n) /\ n \in Nat /\ SdrSize + 1 \in Int
        /\ "deviation" \in DOMAIN Written(s.type) => Written(s.type)["deviation"][2] = 8
    BY <1>1, TablesAgree DEF n
  <2>3. ReadPart(p, SdrSize + 1, Written(s.type)) = s.modem
    BY <1>1, <2>1, <2>2, PartReadBack
  <2> QED BY <1>1, <2>3, TablesAgree
<1>6. s = [type |-> s.type, psk |-> PskTypes[s.type], sdr |-> s.sdr, modem |-> s.modem]
  BY WantedAssumption
<1>8. PskType(s.type) = PskTypes[s.type]
  BY <1>1 DEF PskType, PskTypes, PSK, GFSK, PSK_PM
<1>7. Decode(p) = [type |-> s.type, psk |-> PskTypes[s.type], sdr |-> s.sdr, modem |-> s.modem]
  BY <1>3, <1>4, <1>5, <1>8 DEF Decode
<1> QED BY <1>6, <1>7 DEF p

-----------------------------------------------------------------------------
\* A request on its way is one that a client sent to the server that runs.
RequestOf(a, way, s, len) ==
  [at |-> a, direction |-> way, settings |-> s, len |-> len, payload |-> PayloadOf(s, len)]

RequestInv ==
  /\ request = NoRequest => answer = "none" /\ applied = {}
  /\ request # NoRequest =>
       /\ configStage = "server"
       /\ \E a \in {"socket", "queue", "done"}, way \in {"rx", "tx"}, s \in Wanted, len \in Nat :
            request = RequestOf(a, way, s, len)
       /\ request.at \in {"socket", "queue"} => answer = "none" /\ applied = {}
       /\ request.at = "queue" => Decodable(request.payload, request.len)

ParametersInv == RequestInv /\ ParametersAsSent

LEMMA ParametersInitial == Init => ParametersInv
  BY DEF Init, ParametersInit, ParametersInv, RequestInv, ParametersAsSent

LEMMA NotNoRequest ==
  ASSUME NEW a \in {"socket", "queue", "done"}, NEW way, NEW s, NEW len
  PROVE  RequestOf(a, way, s, len) # NoRequest /\ RequestOf(a, way, s, len).at # "none" /\ NoRequest.at = "none"
  BY DEF RequestOf, NoRequest

LEMMA SendKeeps ==
  ASSUME ParametersInv, NEW way \in {"rx", "tx"}, NEW s \in Wanted, NEW d \in Announced,
         Send(way, s, TotalSize(s.type) + d)
  PROVE  ParametersInv'
<1> DEFINE len == TotalSize(s.type) + d
<1>1. len \in Nat
  <2>1. ModemSize(s.type) \in Nat /\ SdrSize = 20 /\ d \in Int
    BY WantedAssumption, TablesAgree DEF SdrSize
  <2>2. len >= 0
    BY DEF Send
  <2> QED BY <2>1, <2>2 DEF TotalSize
<1>2. request' = RequestOf("socket", way, s, len) /\ request = NoRequest /\ UNCHANGED <<configStage, answer, applied>>
      /\ configStage = "server"
  BY DEF Send, RequestOf, PayloadOf, configVars
<1> HIDE DEF len
<1>3. request' # NoRequest /\ request'.at = "socket"
  BY <1>2, NotNoRequest DEF RequestOf
<1>4. answer' = "none" /\ applied' = {}
  BY <1>2 DEF ParametersInv, RequestInv
<1>5. RequestInv'
  BY <1>1, <1>2, <1>3, <1>4 DEF RequestInv
<1>6. ParametersAsSent'
  BY <1>3, <1>4 DEF ParametersAsSent
<1> QED BY <1>5, <1>6 DEF ParametersInv

LEMMA HandleKeeps ==
  ASSUME ParametersInv, HandleParameters
  PROVE  ParametersInv'
<1>1. request.at = "socket" /\ request # NoRequest
  BY DEF HandleParameters, NoRequest
<1>2. PICK a \in {"socket", "queue", "done"}, way \in {"rx", "tx"}, s \in Wanted, len \in Nat :
        request = RequestOf(a, way, s, len)
  BY <1>1 DEF ParametersInv, RequestInv
<1>3. answer = "none" /\ applied = {} /\ configStage = "server"
  BY <1>1 DEF ParametersInv, RequestInv
<1>4. UNCHANGED <<applied, configStage, config>>
  BY DEF HandleParameters, configVars
<1>5. /\ request.len = len /\ request.payload = PayloadOf(s, len) /\ request.settings = s /\ request.direction = way
      /\ \A b : [request EXCEPT !.at = b] = RequestOf(b, way, s, len)
  BY <1>2 DEF RequestOf
<1>6. CASE Answer("failure")
  <2>1. answer' = "failure" /\ request' = RequestOf("done", way, s, len)
    BY <1>5, <1>6 DEF Answer
  <2>2. request' # NoRequest /\ request'.at = "done"
    BY <2>1, NotNoRequest DEF RequestOf
  <2>3. RequestInv'
    BY <1>3, <1>4, <2>1, <2>2 DEF RequestInv
  <2>4. ParametersAsSent'
    BY <1>3, <1>4, <2>1 DEF ParametersAsSent
  <2> QED BY <2>3, <2>4 DEF ParametersInv
<1>7. CASE Decodable(request.payload, request.len) /\ Put(way, len)
  <2>1. PICK b \in {"queue", "done"} : request' = RequestOf(b, way, s, len) /\ answer' = "none"
                                       /\ (b = "done" => len > QueueBuffer(way))
    BY <1>3, <1>5, <1>7 DEF Put
  <2>2. /\ request' # NoRequest /\ request'.at = b /\ request'.payload = request.payload /\ request'.len = len
        /\ request'.settings = s /\ request'.direction = way
    BY <1>5, <2>1, NotNoRequest DEF RequestOf
  <2>3. len >= TotalSize(s.type)
    BY <1>5, <1>7, DecodableIsComplete
  <2>4. RequestInv'
    BY <1>3, <1>4, <1>5, <1>7, <2>1, <2>2 DEF RequestInv
  <2>5. ParametersAsSent'
    BY <1>3, <1>4, <2>1, <2>2, <2>3 DEF ParametersAsSent, QueueBuffer
  <2> QED BY <2>4, <2>5 DEF ParametersInv
<1> QED BY <1>5, <1>6, <1>7 DEF HandleParameters

LEMMA ApplyKeeps ==
  ASSUME ParametersInv, ApplyParameters
  PROVE  ParametersInv'
<1>1. request.at = "queue" /\ request # NoRequest
  BY DEF ApplyParameters, NoRequest
<1>2. PICK a \in {"socket", "queue", "done"}, way \in {"rx", "tx"}, s \in Wanted, len \in Nat :
        request = RequestOf(a, way, s, len)
  BY <1>1 DEF ParametersInv, RequestInv
<1>3. applied = {} /\ configStage = "server" /\ Decodable(request.payload, request.len)
  BY <1>1 DEF ParametersInv, RequestInv
<1>4. UNCHANGED configStage
  BY DEF ApplyParameters, configVars
<1>5. /\ request.len = len /\ request.payload = PayloadOf(s, len) /\ request.settings = s
      /\ request' = RequestOf("done", way, s, len) /\ answer' \in {"failure", "success"}
  BY <1>2 DEF RequestOf, ApplyParameters, Answer
<1>6. request' # NoRequest /\ request'.at = "done" /\ request'.settings = s /\ request'.len = len
  BY <1>5, NotNoRequest DEF RequestOf
<1>7. len >= TotalSize(s.type)
  BY <1>3, <1>5, DecodableIsComplete
<1>8. Decode(request.payload) = s
  BY <1>5, <1>7, DecodesEncoded
<1>9. (applied' = {} /\ answer' = "failure") \/ applied' = {s}
  BY <1>3, <1>8 DEF ApplyParameters, Answer
<1>10. RequestInv'
  BY <1>3, <1>4, <1>5, <1>6 DEF RequestInv
<1>11. ParametersAsSent'
  BY <1>5, <1>6, <1>7, <1>9 DEF ParametersAsSent
<1> QED BY <1>10, <1>11 DEF ParametersInv

\* The configuration changes no more when there is a client.
LEMMA ConfigKeepsParameters ==
  ASSUME ParametersInv, ConfigNext \/ UNCHANGED configVars, UNCHANGED parametersVars
  PROVE  ParametersInv'
<1>1. UNCHANGED <<request, answer, applied>>
  BY DEF parametersVars
<1>2. request # NoRequest => UNCHANGED <<config, configStage>>
  BY DEF ParametersInv, RequestInv, ConfigNext, LoadFromFile, LoadFromCli, ValidateAndLog, LoadLibrary, StartMode, configVars
<1>3. RequestInv'
  BY <1>1, <1>2 DEF ParametersInv, RequestInv
<1>4. ParametersAsSent'
  BY <1>1, <1>2 DEF ParametersInv, ParametersAsSent, RequestInv, QueueBuffer
<1> QED BY <1>3, <1>4 DEF ParametersInv

\* Whatever settings a client encodes, and whatever length it announces: the worker applies exactly
\* them, success is reported only then, a message cut short is refused, and one without an answer
\* was too long for the queue.
THEOREM ParametersArriveAsSent == Spec => []ParametersAsSent
<1>1. ASSUME ParametersInv, [Next]_vars PROVE ParametersInv'
  <2>1. ParametersNext \/ ((ConfigNext \/ UNCHANGED configVars) /\ UNCHANGED parametersVars)
    BY <1>1 DEF Next, CliNext, vars
  <2> QED BY <1>1, <2>1, SendKeeps, HandleKeeps, ApplyKeeps, ConfigKeepsParameters DEF ParametersNext
<1>2. ParametersInv => ParametersAsSent
  BY DEF ParametersInv
<1> QED BY <1>1, <1>2, ParametersInitial, PTL DEF Spec

-----------------------------------------------------------------------------
\* The settings before the command line is read
Before(name) == IF ConfigPath # "none" THEN FromFile(Files[ConfigPath])[name] ELSE Unset(name)

\* The options before n that give name, and what the setting is once they are read
Given(n, name) == {i \in 1..(n - 1) : argv[i].name = name}
AskedUpTo(n, name) == IF Given(n, name) # {} THEN Stored(name, argv[Max(Given(n, name))].value) ELSE Before(name)

\* What the two passes over the command line leave
Loaded(name) == IF OnLine(name) # {} THEN Stored(name, LastOnLine(name)) ELSE Before(name)
AskedSettings == [name \in Settings |-> Loaded(name)]

\* A value of a number is one.
InRange(name, value) == name \in Numbers => value \in Int

\* What each setting may hold
Holds(name, value) ==
  /\ name \in {"sdr_buffer_len", "max_frame_size", "queue_size"} => value \in Nat
  /\ name = "read_timeout_seconds" => value \in Int
  /\ name = "modem" => value \in Known["modem"] \cup {"none"}
AllHold(c) == \A name \in Settings : Holds(name, c[name])

ConfigInv ==
  /\ configStage \in {"first_pass", "options", "validate", "library", "created"} => argv \in CommandLines
  /\ configStage \in {"options", "validate", "library", "created"} /\ ConfigPath # "none" => ConfigPath \in DOMAIN Files
  /\ configStage \in {"first_pass", "options", "validate", "library"} => libs = {}
  /\ configStage = "first_pass" => at = 1 /\ config = [name \in Settings |-> Unset(name)]
  /\ configStage = "options" =>
       at \in 1..(Len(argv) + 1) /\ config = [name \in Settings |-> AskedUpTo(at, name)]
  /\ configStage = "validate" => config = AskedSettings
  /\ configStage \in {"first_pass", "options", "validate"} => AllHold(config)
  /\ configStage = "library" => AllHold(AskedSettings) /\ Valid(AskedSettings) /\ config = WithDefaults(AskedSettings)
  /\ ConfigAsAsked

\* The maximum of numbers below a bound is one of them.
LEMMA LessIsLess == \A x, y \in Nat : x < y => <<x, y>> \in OpToRel(<, Nat)
  BY DEF OpToRel

LEMMA MaxIsMember ==
  ASSUME NEW n \in Nat, NEW S \in SUBSET (1..n), S # {}
  PROVE  Max(S) \in S
<1> DEFINE T == {k \in Nat : \E i \in S : k = n - i}
<1>1. T \subseteq Nat /\ T # {}
  <2>1. PICK i \in S : TRUE
    OBVIOUS
  <2>2. n - i \in Nat
    OBVIOUS
  <2> QED BY <2>1, <2>2
<1>2. IsWellFoundedOn(OpToRel(<, Nat), Nat)
  BY NatLessThanWellFounded, Zenon
<1> HIDE DEF T
<1>3. PICK t \in T : \A y \in T : ~(<<y, t>> \in OpToRel(<, Nat))
  BY <1>1, <1>2, WFMin, Zenon
<1>4. \A y \in T : ~(y < t)
  BY <1>1, <1>3, LessIsLess, Zenon
<1>5. PICK x \in S : t = n - x
  BY DEF T
<1>6. \A y \in S : x >= y
  <2> TAKE y \in S
  <2>1. n - y \in T
    <3>1. n - y \in Nat
      OBVIOUS
    <3> QED BY <3>1 DEF T
  <2>2. ~(n - y < n - x)
    BY <1>4, <1>5, <2>1
  <2> QED BY <2>2
<1>7. \E m \in S : \A y \in S : m >= y
  BY <1>6
<1> QED BY <1>7 DEF Max

LEMMA MaxOfLast ==
  ASSUME NEW S, NEW n \in S, n \in Int, \A i \in S : i \in Int /\ i <= n
  PROVE  Max(S) = n
<1> DEFINE greatest(x) == \A y \in S : x >= y
<1>1. greatest(n)
  OBVIOUS
<1>2. ASSUME NEW x \in S, greatest(x) PROVE x = n
  <2>1. x \in Int /\ x <= n /\ x >= n
    BY <1>2
  <2> QED BY <2>1
<1> HIDE DEF greatest
<1>3. (CHOOSE x \in S : greatest(x)) = n
  BY <1>1, <1>2
<1> QED BY <1>3 DEF Max, greatest

\* ConfigAssumption, for the options of a command line.
LEMMA OptionValues ==
  \A line \in CommandLines :
    /\ Len(line) \in Nat
    /\ \A i \in 1..Len(line) : /\ InRange(line[i].name, line[i].value)
                               /\ line[i].name = "config" => line[i].value # "none"
  BY ConfigAssumption, Zenon DEF InRange

\* An option that is read is the last one that gives its name.
LEMMA OptionApplied ==
  ASSUME at \in Nat, at >= 1, config = [name \in Settings |-> AskedUpTo(at, name)], NEW name \in Settings
  PROVE  AskedUpTo(at + 1, name) = IF argv[at].name = name THEN Stored(name, argv[at].value) ELSE config[name]
<1>1. CASE argv[at].name = name
  <2>1. at \in Given(at + 1, name) /\ \A i \in Given(at + 1, name) : i \in Int /\ i <= at
    BY <1>1 DEF Given
  <2>2. Max(Given(at + 1, name)) = at
    BY <2>1, MaxOfLast
  <2> QED BY <1>1, <2>1, <2>2 DEF AskedUpTo
<1>2. CASE argv[at].name # name
  <2>1. Given(at + 1, name) = Given(at, name)
    BY <1>2 DEF Given
  <2> QED BY <1>2, <2>1 DEF AskedUpTo
<1> QED BY <1>1, <1>2

LEMMA WidthPositive == \A name \in DOMAIN Width : Width[name] \in Nat \ {0}
<1>1. 2^16 \in Nat \ {0} /\ 2^8 \in Nat \ {0}
  OBVIOUS
<1> QED BY <1>1, ConfigAssumption DEF Width

\* A setting holds a value of its type whether it was given or not.
LEMMA StoredHolds ==
  ASSUME NEW name \in Settings
  PROVE  /\ Holds(name, Unset(name))
         /\ \A value : InRange(name, value) => Holds(name, Stored(name, value))
<1>1. Holds(name, Unset(name))
  BY DEF Holds, Unset, Numbers
<1>2. ASSUME NEW value, InRange(name, value) PROVE Holds(name, Stored(name, value))
  <2>1. CASE name \in {"sdr_buffer_len", "max_frame_size", "queue_size"}
    <3>1. value \in Int /\ name \in DOMAIN Width
      BY <1>2, <2>1 DEF InRange, Numbers, Width
    <3>2. PICK w \in Nat \ {0} : w = Width[name]
      BY <3>1, WidthPositive
    <3>3. value % w \in Nat
      <4>1. w > 0
        OBVIOUS
      <4>2. PICK d \in Int, m \in 0..(w - 1) : value % w = m
        BY <3>1, <4>1, Division
      <4> QED BY <4>2
    <3>4. Stored(name, value) = value % w
      <4>1. name \notin Enums
        BY <2>1 DEF Enums
      <4> QED BY <3>1, <3>2, <4>1, Zenon DEF Stored
    <3> QED BY <2>1, <3>3, <3>4 DEF Holds
  <2>3. CASE name = "read_timeout_seconds"
    <3>1. value \in Int /\ Stored(name, value) = value
      BY <1>2, <2>3 DEF InRange, Numbers, Stored, Enums, Width
    <3> QED BY <2>3, <3>1 DEF Holds
  <2>4. CASE name = "modem"
    <3>1. Stored(name, value) = IF value \notin Known["modem"] THEN "none" ELSE value
      BY <2>4 DEF Stored, Enums, Strict, Width
    <3> QED BY <2>4, <3>1 DEF Holds
  <2> QED BY <2>1, <2>3, <2>4 DEF Holds
<1> QED BY <1>1, <1>2

LEMMA FileHolds ==
  ASSUME NEW path \in DOMAIN Files
  PROVE  AllHold(FromFile(Files[path]))
<1> SUFFICES ASSUME NEW name \in Settings PROVE Holds(name, FromFile(Files[path])[name])
  BY DEF AllHold
<1>1. name \in LookedUp(Files[path]) => InRange(name, Files[path][name])
  BY ConfigAssumption DEF LookedUp, InRange
<1>2. \/ FromFile(Files[path])[name] = Unset(name)
      \/ InRange(name, Files[path][name]) /\ FromFile(Files[path])[name] = Stored(name, Files[path][name])
  BY <1>1 DEF FromFile
<1> QED BY <1>2, StoredHolds

LEMMA LoadFromFileKeeps ==
  ASSUME ConfigInv, LoadFromFile
  PROVE  ConfigInv'
<1>1. argv \in CommandLines /\ at = 1 /\ config = [name \in Settings |-> Unset(name)] /\ libs = {} /\ UNCHANGED <<argv, at>>
  BY DEF ConfigInv, LoadFromFile, ConfigFail
<1>2. CASE configStage' = "failed"
  BY <1>2 DEF ConfigInv, ConfigAsAsked
<1>3. CASE configStage' = "options" /\ libs' = libs /\ (ConfigPath # "none" => ConfigPath \in DOMAIN Files)
           /\ config' = [name \in Settings |-> Before(name)]
  <2>1. ConfigPath' = ConfigPath
    BY <1>1 DEF ConfigPath, ConfigOptions, FirstPassOptions
  <2>2. \A name \in Settings : AskedUpTo(at, name)' = Before(name)
    <3>1. \A name : Given(1, name)' = {}
      BY DEF Given
    <3>2. \A name : Before(name)' = Before(name)
      BY <2>1 DEF Before
    <3> QED BY <1>1, <3>1, <3>2 DEF AskedUpTo
  <2>3. Len(argv) \in Nat
    BY <1>1, ConfigAssumption
  <2>4. AllHold(config')
    BY <1>3, FileHolds, StoredHolds DEF AllHold, Before
  <2> QED BY <1>1, <1>3, <2>1, <2>2, <2>3, <2>4 DEF ConfigInv, ConfigAsAsked
<1>4. ConfigPath # "none" => FromFile(Files[ConfigPath]) = [name \in Settings |-> Before(name)]
  BY DEF Before, FromFile
<1> QED BY <1>1, <1>2, <1>3, <1>4, ConfigAssumption DEF LoadFromFile, ConfigFail, FileLoads, Before

LEMMA SameAsked ==
  ASSUME UNCHANGED argv
  PROVE  /\ ConfigPath' = ConfigPath /\ AskedSettings' = AskedSettings
         /\ \A n, name : AskedUpTo(n, name)' = AskedUpTo(n, name)
<1>1. ConfigPath' = ConfigPath
  BY DEF ConfigPath, ConfigOptions, FirstPassOptions
<1>2. \A name : Before(name)' = Before(name) /\ Loaded(name)' = Loaded(name)
  BY <1>1 DEF Before, Loaded, OnLine, LastOnLine
<1> QED BY <1>1, <1>2 DEF AskedSettings, AskedUpTo, Given

LEMMA LoadFromCliKeeps ==
  ASSUME ConfigInv, LoadFromCli
  PROVE  ConfigInv'
<1>1. /\ argv \in CommandLines /\ at \in 1..(Len(argv) + 1) /\ config = [name \in Settings |-> AskedUpTo(at, name)]
      /\ libs = {} /\ UNCHANGED argv /\ (ConfigPath # "none" => ConfigPath \in DOMAIN Files) /\ configStage = "options"
      /\ AllHold(config)
  BY DEF ConfigInv, LoadFromCli, ConfigFail
<1>2. Len(argv) \in Nat
  BY <1>1, ConfigAssumption
<1>3. CASE configStage' = "failed"
  BY <1>3 DEF ConfigInv, ConfigAsAsked
<1>4. CASE at > Len(argv) /\ configStage' = "validate" /\ UNCHANGED <<config, libs>>
  <2>1. at - 1 = Len(argv)
    BY <1>1, <1>2, <1>4
  <2>2. \A name : AskedUpTo(at, name) = Loaded(name)
    BY <2>1 DEF AskedUpTo, Loaded, Given, OnLine, LastOnLine
  <2>3. config' = AskedSettings'
    BY <1>1, <1>4, <2>2, SameAsked DEF AskedSettings
  <2> QED BY <1>1, <1>4, <2>3, SameAsked DEF ConfigInv, ConfigAsAsked
<1>5. CASE /\ at <= Len(argv) /\ at' = at + 1 /\ UNCHANGED <<libs, configStage>>
           /\ config' = IF argv[at].name \in Settings THEN Applied(config, argv[at].name, argv[at].value) ELSE config
  <2>1. \A name \in Settings : config'[name] = AskedUpTo(at + 1, name)
    BY <1>1, <1>2, <1>5, OptionApplied DEF Applied
  <2>2. config' = [name \in Settings |-> config'[name]]
    BY <1>1, <1>5 DEF Applied
  <2>3. config' = [name \in Settings |-> AskedUpTo(at, name)']
    <3>1. PICK n : n = at + 1
      OBVIOUS
    <3>2. \A name : AskedUpTo(at, name)' = AskedUpTo(n, name)'
      BY <1>5, <3>1 DEF AskedUpTo, Given
    <3>3. \A name : AskedUpTo(n, name)' = AskedUpTo(n, name)
      BY <1>1, SameAsked
    <3> QED BY <2>1, <2>2, <3>1, <3>2, <3>3
  <2>4. at' \in 1..(Len(argv') + 1)
    BY <1>1, <1>2, <1>5
  <2>5. AllHold(config')
    <3>1. at \in 1..Len(argv) /\ InRange(argv[at].name, argv[at].value)
      <4>1. at \in 1..Len(argv)
        BY <1>1, <1>2, <1>5
      <4> QED BY <1>1, <4>1, OptionValues, Zenon
    <3> QED BY <1>1, <1>5, <3>1, StoredHolds DEF Applied, AllHold
  <2> QED BY <1>1, <1>5, <2>3, <2>4, <2>5, SameAsked DEF ConfigInv, ConfigAsAsked
<1> QED BY <1>3, <1>4, <1>5 DEF LoadFromCli, ConfigFail

LEMMA ValidateKeeps ==
  ASSUME ConfigInv, ValidateAndLog
  PROVE  ConfigInv'
<1>1. /\ argv \in CommandLines /\ config = AskedSettings /\ libs = {} /\ UNCHANGED argv
      /\ (ConfigPath # "none" => ConfigPath \in DOMAIN Files) /\ AllHold(config)
  BY DEF ConfigInv, ValidateAndLog, ConfigFail
<1>2. CASE configStage' = "failed"
  BY <1>2 DEF ConfigInv, ConfigAsAsked
<1>3. CASE Valid(config) /\ config' = WithDefaults(config) /\ configStage' = "library" /\ UNCHANGED libs
  <2>1. AllHold(AskedSettings)' /\ Valid(AskedSettings)' /\ WithDefaults(AskedSettings)' = WithDefaults(AskedSettings)
    BY <1>1, <1>3, SameAsked
  <2> QED BY <1>1, <1>3, <2>1, SameAsked DEF ConfigInv, ConfigAsAsked
<1> QED BY <1>2, <1>3 DEF ValidateAndLog, ConfigFail

\* A default replaces only what was not given.
LEMMA Defaults ==
  ASSUME NEW c, NEW name \in Settings
  PROVE  /\ WithDefaults(c)[name] = IF Empty(c, name) THEN Default(c, name) ELSE c[name]
         /\ name \in {"bind_address", "direction", "sdr_type", "modem", "input", "output", "rx_file", "tx_file",
                     "max_frame_size"} => WithDefaults(c)[name] = c[name]
<1>1. WithDefaults(c)[name] = IF Empty(c, name) THEN Default(c, name) ELSE c[name]
  BY DEF WithDefaults
<1>2. ASSUME name \in {"bind_address", "direction", "sdr_type", "modem", "input", "output", "rx_file", "tx_file",
                      "max_frame_size"}
      PROVE  WithDefaults(c)[name] = c[name]
  <2>1. /\ name # "port" /\ name # "queue_size" /\ name # "sdr_buffer_len" /\ name # "read_timeout_seconds"
        /\ name # "psk_rrc_delay" /\ name # "log_level" /\ name # "plutosdr_timeout_ms" /\ name # "plutosdr_calib_mode"
        /\ name # "rx_file_format" /\ name # "tx_file_format" /\ name # "plutosdr_uri"
    BY <1>2
  <2>2. Default(c, name) = Unset(name)
    BY ONLY <2>1 DEF Default
  <2>3. Empty(c, name) => c[name] = Unset(name)
    BY ONLY <2>1 DEF Empty
  <2> QED BY <1>1, <2>2, <2>3
<1> QED BY <1>1, <1>2

\* What is valid is fit for the mode once it has its defaults and its library.
LEMMA ValidIsFit ==
  ASSUME NEW c, AllHold(c), Valid(c), config' = WithDefaults(c),
         config'["sdr_type"] = "plutosdr" <=> "iio" \in libs', config'["sdr_type"] = "airspy" <=> "airspy" \in libs'
  PROVE  FitForMode'
<1>0. /\ {"bind_address", "rx_file", "tx_file", "input", "output"} \subseteq Settings
      /\ {"queue_size", "sdr_buffer_len", "read_timeout_seconds", "max_frame_size"} \subseteq Settings \cap Numbers
      /\ {"direction", "sdr_type", "modem", "rx_file_format", "tx_file_format"} \subseteq Settings \ Numbers
  BY DEF Settings, Texts, Numbers, Enums
<1>1. /\ config'["bind_address"] = c["bind_address"] /\ config'["direction"] = c["direction"]
      /\ config'["sdr_type"] = c["sdr_type"] /\ config'["modem"] = c["modem"] /\ config'["input"] = c["input"]
      /\ config'["output"] = c["output"] /\ config'["rx_file"] = c["rx_file"] /\ config'["tx_file"] = c["tx_file"]
      /\ config'["max_frame_size"] = c["max_frame_size"]
  BY <1>0, Defaults
<1>2. CliMode(config') <=> CliMode(c)
  BY <1>1 DEF CliMode
<1>3. config'["sdr_buffer_len"] > 0
  <2>1. c["sdr_buffer_len"] \in Nat /\ Unset("sdr_buffer_len") = 0 /\ Default(c, "sdr_buffer_len") = 262144
    BY <1>0 DEF AllHold, Holds, Unset, Default
  <2>2. config'["sdr_buffer_len"] = IF Empty(c, "sdr_buffer_len") THEN Default(c, "sdr_buffer_len") ELSE c["sdr_buffer_len"]
    BY <1>0, Defaults
  <2> QED BY <2>1, <2>2 DEF Empty
<1>4. config'["queue_size"] > 0
  <2>1. c["queue_size"] \in Nat /\ Unset("queue_size") = 0 /\ Default(c, "queue_size") = 64
    BY <1>0 DEF AllHold, Holds, Unset, Default
  <2>2. config'["queue_size"] = IF Empty(c, "queue_size") THEN Default(c, "queue_size") ELSE c["queue_size"]
    BY <1>0, Defaults
  <2> QED BY <2>1, <2>2 DEF Empty
<1>5. config'["read_timeout_seconds"] > 0
  <2>1. /\ c["read_timeout_seconds"] \in Int /\ c["read_timeout_seconds"] >= 0 /\ Unset("read_timeout_seconds") = 0
        /\ Default(c, "read_timeout_seconds") = 5
    BY <1>0 DEF AllHold, Holds, Unset, Default, Valid
  <2>2. config'["read_timeout_seconds"] =
          IF Empty(c, "read_timeout_seconds") THEN Default(c, "read_timeout_seconds") ELSE c["read_timeout_seconds"]
    BY <1>0, Defaults
  <2> QED BY <2>1, <2>2 DEF Empty
<1>6. c["max_frame_size"] \in Nat /\ c["modem"] \in Known["modem"] \cup {"none"}
  BY <1>0 DEF AllHold, Holds
<1>7. c["sdr_type"] = "file" =>
        /\ c["rx_file"] # "none" => config'["rx_file_format"] \in Formats
        /\ c["tx_file"] # "none" => config'["tx_file_format"] \in Formats
  <2> SUFFICES ASSUME c["sdr_type"] = "file"
               PROVE  /\ c["rx_file"] # "none" => config'["rx_file_format"] \in Formats
                      /\ c["tx_file"] # "none" => config'["tx_file_format"] \in Formats
    OBVIOUS
  <2>1. FileUsable(c, "rx_file", "rx_file_format") /\ FileUsable(c, "tx_file", "tx_file_format")
    BY DEF Valid, DeviceUsable, SdrTypes
  <2>2. /\ Default(c, "rx_file_format") = FileFormat(c, "rx_file", "rx_file_format")
        /\ Default(c, "tx_file_format") = FileFormat(c, "tx_file", "tx_file_format")
        /\ Unset("rx_file_format") = "none" /\ Unset("tx_file_format") = "none"
    BY <1>0 DEF Default, Unset
  <2>3. /\ config'["rx_file_format"] = IF Empty(c, "rx_file_format") THEN Default(c, "rx_file_format") ELSE c["rx_file_format"]
        /\ config'["tx_file_format"] = IF Empty(c, "tx_file_format") THEN Default(c, "tx_file_format") ELSE c["tx_file_format"]
    BY <1>0, Defaults
  <2> QED BY <2>1, <2>2, <2>3 DEF FileUsable, FileFormat, Empty
<1>8. /\ c["sdr_type"] \in {"plutosdr", "airspy", "file"}
      /\ c["sdr_type"] = "airspy" => ~(CliMode(c) /\ c["direction"] = "tx")
      /\ c["sdr_type"] = "file" => /\ CliMode(c)
                                   /\ c["direction"] = "rx" => c["rx_file"] # "none"
                                   /\ c["direction"] = "tx" => c["tx_file"] # "none"
  BY DEF Valid, DeviceUsable, SdrTypes
<1>9. /\ CliMode(c) => c["direction"] \in {"rx", "tx"} /\ c["modem"] # "none"
      /\ CliMode(c) /\ c["direction"] = "rx" => c["output"] # "none"
      /\ CliMode(c) /\ c["direction"] = "tx" => c["input"] # "none"
      /\ ~CliMode(c) \/ c["direction"] = "tx" => c["max_frame_size"] # 0
  BY DEF Valid
<1>10. config'["max_frame_size"] \in Nat /\ (config'["max_frame_size"] # 0 => config'["max_frame_size"] > 0)
  BY <1>1, <1>6
<1>11. CASE CliMode(c)
  BY <1>1, <1>2, <1>3, <1>4, <1>5, <1>6, <1>7, <1>8, <1>9, <1>10, <1>11 DEF FitForMode, CliMode
<1>12. CASE ~CliMode(c)
  BY <1>1, <1>2, <1>3, <1>4, <1>5, <1>8, <1>9, <1>10, <1>12 DEF FitForMode, CliMode
<1> QED BY <1>11, <1>12

-----------------------------------------------------------------------------
\* A value that fits into its field is stored as it is.
LEMMA StoredFits ==
  ASSUME NEW name \in Settings, NEW value, InRange(name, value), Fits(name, value)
  PROVE  Stored(name, value) = value
<1>1. CASE name \in DOMAIN Width
  <2>1. PICK w \in Nat \ {0} : w = Width[name]
    BY <1>1, WidthPositive
  <2>2. value \in 0..(w - 1) /\ w > 0
    BY <1>1, <2>1 DEF Fits
  <2>3. value = 0 * w + value /\ 0 \in Int
    BY <2>2
  <2>4. value % w = value
    BY <2>2, <2>3, DivisionUnique
  <2>5. Stored(name, value) = value % w
    <3>1. name \notin Enums
      BY <1>1 DEF Enums, Width
    <3> QED BY <1>1, <2>1, <3>1, Zenon DEF Stored
  <2> QED BY <2>4, <2>5
<1>2. CASE name \notin DOMAIN Width
  <2>1. name \in Enums \ Strict => name \in DOMAIN Known
    BY DEF Enums, Strict, Known
  <2>2. ~(name \in Enums \ Strict /\ value \notin Known[name])
    BY <2>1 DEF Fits
  <2> QED BY <1>2, <2>2, Zenon DEF Stored
<1> QED BY <1>1, <1>2

\* A default does not depend on the formats that were found by it.
LEMMA SetToLoaded ==
  ASSUME NEW c, config = WithDefaults(c), NEW name \in Settings
  PROVE  SetTo(name, c[name])
<1> DEFINE U == [config EXCEPT !["rx_file_format"] = "none", !["tx_file_format"] = "none"]
<1>1. /\ {"sdr_type", "rx_file", "tx_file", "rx_file_format", "tx_file_format"} \subseteq Settings
      /\ Unset("rx_file_format") = "none" /\ Unset("tx_file_format") = "none"
  BY DEF Settings, Texts, Numbers, Enums, Unset
<1>2. config["sdr_type"] = c["sdr_type"] /\ config["rx_file"] = c["rx_file"] /\ config["tx_file"] = c["tx_file"]
  BY <1>1, Defaults
<1>3. DOMAIN config = Settings
  BY DEF WithDefaults
<1>4. /\ U["sdr_type"] = c["sdr_type"] /\ U["rx_file"] = c["rx_file"] /\ U["tx_file"] = c["tx_file"]
      /\ U["rx_file_format"] = "none" /\ U["tx_file_format"] = "none"
  BY <1>1, <1>2, <1>3
<1> HIDE DEF U
<1>5. config[name] = IF Empty(c, name) THEN Default(c, name) ELSE c[name]
  BY Defaults
<1>6. Empty(c, name) <=> (c[name] = Unset(name) \/ (name \in {"plutosdr_uri", "plutosdr_calib_mode"} /\ c[name] = ""
                                                    /\ config["sdr_type"] = "plutosdr"))
  BY <1>2 DEF Empty
<1>7. ASSUME Empty(c, name) PROVE Default(U, name) = Default(c, name)
  <2>1. CASE name = "rx_file_format"
    <3>1. c["rx_file_format"] = "none"
      BY <1>1, <1>7, <2>1 DEF Empty
    <3>2. FileFormat(U, "rx_file", "rx_file_format") = FileFormat(c, "rx_file", "rx_file_format")
      BY <1>4, <3>1 DEF FileFormat
    <3> QED BY <1>4, <2>1, <3>2 DEF Default
  <2>2. CASE name = "tx_file_format"
    <3>1. c["tx_file_format"] = "none"
      BY <1>1, <1>7, <2>2 DEF Empty
    <3>2. FileFormat(U, "tx_file", "tx_file_format") = FileFormat(c, "tx_file", "tx_file_format")
      BY <1>4, <3>1 DEF FileFormat
    <3> QED BY <1>4, <2>2, <3>2 DEF Default
  <2>3. CASE name # "rx_file_format" /\ name # "tx_file_format"
    BY ONLY <1>4, <2>3 DEF Default
  <2> QED BY <2>1, <2>2, <2>3
<1> QED BY <1>5, <1>6, <1>7 DEF SetTo, U

\* ConfigAsAsked but for the mode
AsAsked ==
  /\ \A name \in Settings : OnLine(name) # {} /\ Fits(name, LastOnLine(name)) => SetTo(name, LastOnLine(name))
  /\ ~ConfigBehindOthers =>
       /\ FileHonoured
       /\ OnLine("config") # {} => LastOnLine("config") \in DOMAIN Files

\* The first pass finds every --config that stands in front of the other options.
LEMMA FirstPassFinds ==
  ASSUME ~ConfigBehindOthers
  PROVE  ConfigPath = IF OnLine("config") = {} THEN "none" ELSE LastOnLine("config")
<1>1. ConfigOptions = OnLine("config")
  BY DEF ConfigOptions, FirstPassOptions, OnLine, ConfigBehindOthers
<1> QED BY <1>1 DEF ConfigPath, LastOnLine

\* The last value of a setting is one of those on the command line.
LEMMA LastIsGiven ==
  ASSUME argv \in CommandLines, NEW name, OnLine(name) # {}
  PROVE  InRange(name, LastOnLine(name)) /\ (name = "config" => LastOnLine(name) # "none")
<1>1. Len(argv) \in Nat /\ \A i \in 1..Len(argv) : /\ InRange(argv[i].name, argv[i].value)
                                                   /\ argv[i].name = "config" => argv[i].value # "none"
  BY OptionValues, Zenon
<1>2. OnLine(name) \subseteq 1..Len(argv) /\ \A i \in OnLine(name) : argv[i].name = name
  BY DEF OnLine
<1>3. Max(OnLine(name)) \in OnLine(name)
  BY <1>1, <1>2, MaxIsMember
<1> QED BY <1>1, <1>2, <1>3 DEF LastOnLine

LEMMA LoadedAsAsked ==
  ASSUME argv \in CommandLines, config = WithDefaults(AskedSettings),
         ConfigPath # "none" => ConfigPath \in DOMAIN Files
  PROVE  AsAsked
<1>1. ASSUME NEW name \in Settings PROVE AskedSettings[name] = Loaded(name) /\ SetTo(name, Loaded(name))
  <2>1. AskedSettings[name] = Loaded(name)
    BY DEF AskedSettings
  <2>2. PICK c : c = AskedSettings
    OBVIOUS
  <2>3. SetTo(name, c[name])
    BY <2>2, SetToLoaded
  <2> QED BY <2>1, <2>2, <2>3
<1>2. ASSUME NEW name \in Settings, OnLine(name) # {}, Fits(name, LastOnLine(name))
      PROVE  SetTo(name, LastOnLine(name))
  <2>1. InRange(name, LastOnLine(name))
    BY <1>2, LastIsGiven
  <2>2. Stored(name, LastOnLine(name)) = LastOnLine(name)
    BY ONLY <1>2, <2>1, StoredFits, Zenon
  <2>3. Loaded(name) = LastOnLine(name)
    BY <1>2, <2>2, Zenon DEF Loaded
  <2> QED BY <1>1, <2>3, Zenon
<1>3. ASSUME ~ConfigBehindOthers, OnLine("config") # {} PROVE LastOnLine("config") \in DOMAIN Files /\ ConfigPath = LastOnLine("config")
  BY <1>3, FirstPassFinds, LastIsGiven
<1>4. ASSUME ~ConfigBehindOthers, NEW name \in Settings, OnLine(name) = {}
      PROVE  IF GivenByFile(name) THEN Fits(name, NamedFile[name]) => SetTo(name, NamedFile[name])
                                  ELSE SetTo(name, Unset(name))
  <2>1. Loaded(name) = Before(name) /\ SetTo(name, Before(name))
    BY <1>1, <1>4 DEF Loaded
  <2>2. CASE OnLine("config") = {}
    <3>1. Before(name) = Unset(name)
      BY <1>4, <2>2, FirstPassFinds DEF Before
    <3>2. ~GivenByFile(name)
      BY <2>2 DEF GivenByFile, NamedFile
    <3> QED BY <2>1, <3>1, <3>2
  <2>3. CASE OnLine("config") # {}
    <3> DEFINE file == Files[LastOnLine("config")]
    <3>1. LastOnLine("config") \in DOMAIN Files /\ NamedFile = file
      BY <1>3, <1>4, <2>3 DEF NamedFile
    <3>2. Before(name) = FromFile(file)[name]
      BY <1>3, <1>4, <2>3, <3>1, ConfigAssumption DEF Before
    <3>3. Before(name) = IF name \in LookedUp(file) THEN Stored(name, file[name]) ELSE Unset(name)
      BY <3>2 DEF FromFile
    <3>4. name \in DOMAIN file => InRange(name, file[name])
      BY <3>1, ConfigAssumption DEF InRange
    <3>5. name \in LookedUp(file) <=> GivenByFile(name)
      <4>1. \A d \in DOMAIN DeviceSettings :
              FileSdrType(file) = d <=> "sdr_type" \in DOMAIN file /\ file["sdr_type"] = d
        <5>1. DOMAIN DeviceSettings = {"plutosdr", "airspy"} /\ Known["sdr_type"] = {"plutosdr", "airspy", "file"}
          BY DEF DeviceSettings, Known, SdrTypes
        <5>2. Stored("sdr_type", file["sdr_type"]) =
                IF file["sdr_type"] \in Known["sdr_type"] THEN file["sdr_type"] ELSE "invalid"
          BY DEF Stored, Width, Enums, Strict
        <5> QED BY <5>1, <5>2 DEF FileSdrType
      <4>2. name \in Skipped(file) <=> \/ name \in {"input", "output"}
                                       \/ \E d \in DOMAIN DeviceSettings : d # FileSdrType(file) /\ name \in DeviceSettings[d]
        BY DEF Skipped
      <4> QED BY <3>1, <4>1, <4>2, Zenon DEF LookedUp, GivenByFile
    <3>6. CASE GivenByFile(name)
      <4>1. name \in DOMAIN file /\ Before(name) = Stored(name, NamedFile[name])
        BY <3>1, <3>3, <3>5, <3>6 DEF LookedUp
      <4> QED BY <2>1, <3>1, <3>4, <3>6, <4>1, StoredFits
    <3>7. CASE ~GivenByFile(name)
      BY <2>1, <3>3, <3>5, <3>7
    <3> QED BY <3>6, <3>7
  <2> QED BY <2>2, <2>3
<1> QED BY <1>2, <1>3, <1>4 DEF AsAsked, FileHonoured

\* What was asked for does not change while the command line and the settings do not.
LEMMA SameAsAsked == ASSUME UNCHANGED <<argv, config>>, AsAsked PROVE AsAsked'
<1>1. \A name : OnLine(name)' = OnLine(name) /\ LastOnLine(name)' = LastOnLine(name)
  BY DEF OnLine, LastOnLine
<1>2. ConfigBehindOthers' = ConfigBehindOthers /\ NamedFile' = NamedFile
  BY <1>1 DEF ConfigBehindOthers, NamedFile
<1>3. \A name, value : SetTo(name, value)' = SetTo(name, value)
  BY DEF SetTo
<1>4. \A name : GivenByFile(name)' = GivenByFile(name)
  BY <1>2 DEF GivenByFile
<1> QED BY <1>1, <1>2, <1>3, <1>4 DEF AsAsked, FileHonoured

LEMMA LibraryKeeps ==
  ASSUME ConfigInv, LoadLibrary
  PROVE  ConfigInv'
<1>1. /\ argv \in CommandLines /\ AllHold(AskedSettings) /\ Valid(AskedSettings) /\ config = WithDefaults(AskedSettings)
      /\ libs = {} /\ UNCHANGED <<argv, config>> /\ (ConfigPath # "none" => ConfigPath \in DOMAIN Files)
  BY DEF ConfigInv, LoadLibrary, ConfigFail
<1>2. CASE configStage' = "failed"
  BY <1>2 DEF ConfigInv, ConfigAsAsked
<1>3. CASE /\ configStage' = "created"
           /\ \/ config["sdr_type"] = "plutosdr" /\ libs' = {"iio"}
              \/ config["sdr_type"] = "airspy" /\ libs' = {"airspy"}
              \/ config["sdr_type"] = "file" /\ UNCHANGED libs
  <2>1. PICK c : c = AskedSettings
    OBVIOUS
  <2>2. config' = WithDefaults(c) /\ AllHold(c) /\ Valid(c)
    BY <1>1, <2>1
  <2>3. (config'["sdr_type"] = "plutosdr" <=> "iio" \in libs') /\ (config'["sdr_type"] = "airspy" <=> "airspy" \in libs')
    BY <1>1, <1>3
  <2>4. FitForMode'
    BY <2>2, <2>3, ValidIsFit
  <2>5. AsAsked'
    BY <1>1, LoadedAsAsked, SameAsAsked
  <2>6. ConfigAsAsked'
    BY <2>4, <2>5 DEF ConfigAsAsked, AsAsked
  <2> QED BY <1>1, <1>3, <2>6, SameAsked DEF ConfigInv
<1> QED BY <1>2, <1>3 DEF LoadLibrary, ConfigFail, IioLibCreate, AirspyLibCreate

LEMMA StartModeKeeps ==
  ASSUME ConfigInv, StartMode
  PROVE  ConfigInv'
<1>1. configStage' \in {"cli", "server", "failed"}
  BY DEF StartMode, ConfigFail
<1> QED BY <1>1 DEF ConfigInv, ConfigAsAsked

LEMMA ConfigInitial == ASSUME ConfigInit PROVE ConfigInv
<1>1. AllHold(config)
  BY StoredHolds DEF ConfigInit, AllHold
<1> QED BY <1>1 DEF ConfigInit, ConfigInv, ConfigAsAsked

LEMMA ParametersKeepConfig == ASSUME ConfigInv, UNCHANGED configVars PROVE ConfigInv'
<1>1. UNCHANGED <<argv, at, config, libs, configStage>>
  BY DEF configVars
<1>2. ConfigAsAsked'
  <2>1. CASE configStage = "created"
    <3>1. AsAsked /\ FitForMode
      BY <2>1 DEF ConfigInv, ConfigAsAsked, AsAsked
    <3>2. AsAsked'
      BY <1>1, <3>1, SameAsAsked
    <3> QED BY <1>1, <3>1, <3>2 DEF ConfigAsAsked, AsAsked, FitForMode
  <2>2. CASE configStage # "created"
    BY <1>1, <2>2 DEF ConfigAsAsked
  <2> QED BY <2>1, <2>2
<1>3. /\ AllHold(config)' = AllHold(config) /\ AllHold(AskedSettings)' = AllHold(AskedSettings)
      /\ Valid(AskedSettings)' = Valid(AskedSettings) /\ WithDefaults(AskedSettings)' = WithDefaults(AskedSettings)
  BY <1>1, SameAsked
<1> QED BY <1>1, <1>2, <1>3, SameAsked DEF ConfigInv

\* The process starts its mode only with what cli_create and tcp_server_create rely on, and with the
\* values that were asked for where their fields can hold them, for every configuration file and
\* every command line; a file is honoured unless it is named behind other options.
THEOREM ConfigurationAsAsked == Spec => []ConfigAsAsked
<1>1. ASSUME ConfigInv, [Next]_vars PROVE ConfigInv'
  <2>1. ConfigNext \/ UNCHANGED configVars
    BY <1>1 DEF Next, CliNext, ParametersNext, Send, HandleParameters, ApplyParameters, vars
  <2> QED BY <1>1, <2>1, LoadFromFileKeeps, LoadFromCliKeeps, ValidateKeeps, LibraryKeeps, StartModeKeeps,
             ParametersKeepConfig DEF ConfigNext
<1>2. ConfigInv => ConfigAsAsked
  BY DEF ConfigInv
<1> QED BY <1>1, <1>2, ConfigInitial, PTL DEF Spec, Init
=============================================================================
