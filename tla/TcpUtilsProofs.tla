----------------------------- MODULE TcpUtilsProofs -----------------------------
(***************************************************************************)
(* The server cuts the byte stream of a client into its requests (src/     *)
(* tcp_utils.c, tcp_worker_callback of src/tcp_server.c), for every stream,*)
(* every segmentation and every place where the reads time out.            *)
(***************************************************************************)
EXTENDS TcpUtils, TLAPS

FramingTypeOK ==
  /\ arrived \in Nat /\ pos \in Nat
  /\ left \in Nat /\ total \in Nat /\ part \in Nat
  /\ stalled \in Nat /\ quiet \in Nat
  /\ phase \in {"header", "payload", "dropped"}
  /\ closed \in BOOLEAN /\ is_running \in BOOLEAN /\ abandoned \in BOOLEAN

\* recv() returns what arrived and the client sends no more than its stream.
StreamInv == pos <= arrived /\ arrived <= StreamLength

\* A read in progress: what it has read and what is left make up a header that starts at
\* a boundary, or the payload behind a header of the client's.
ReadInv ==
  /\ phase = "header" =>
       /\ left > 0 /\ left + total + part = HeaderSize
       /\ \E i \in 1..Len(Starts) : pos = Starts[i] + total + part
  /\ phase = "payload" =>
       \E i \in Requests : /\ left + total + part = Length(i)
                           /\ pos = Starts[i] + HeaderSize + total + part

\* stalled_timeouts counts timeouts without a byte from the client in between, unless
\* bytes came that the next timeout will notice.
StallInv ==
  /\ stalled < MaxStalled
  /\ phase # "dropped" => stalled <= quiet \/ part > 0 \/ pos < arrived

FramingInv ==
  FramingTypeOK /\ StreamInv /\ StallInv /\ DroppedForAReason /\ (~abandoned => ReadInv)

LEMMA Scalars ==
  /\ HeaderSize \in Nat /\ HeaderSize > 0 /\ MaxStalled \in Nat /\ MaxStalled > 0
  /\ BufferLength \in Nat
  /\ Len(Starts) \in Nat /\ Len(Starts) >= 1 /\ StreamLength \in Nat
<1>1. /\ Starts \in Seq(Nat) /\ Starts # <<>> /\ HeaderSize \in Nat /\ HeaderSize > 0
      /\ MaxStalled \in Nat /\ MaxStalled > 0 /\ BufferLength \in Nat
  BY FramingAssumption
<1>2. Len(Starts) \in Nat /\ Len(Starts) >= 1 /\ \A i \in 1..Len(Starts) : Starts[i] \in Nat
  BY <1>1
<1>3. StreamLength \in Nat
  BY <1>2 DEF StreamLength
<1> QED BY <1>1, <1>2, <1>3

LEMMA StreamFacts ==
  /\ \A i \in 1..Len(Starts) : Starts[i] \in Nat
  /\ \A i \in Requests : /\ i \in 1..Len(Starts) /\ i + 1 \in 1..Len(Starts)
                         /\ Length(i) \in Nat
                         /\ Starts[i] + HeaderSize + Length(i) = Starts[i + 1]
<1>1. Starts \in Seq(Nat) /\ HeaderSize \in Nat
  BY FramingAssumption
<1>2. Len(Starts) \in Nat /\ \A i \in 1..Len(Starts) : Starts[i] \in Nat
  BY <1>1
<1>4. ASSUME NEW i \in Requests
      PROVE  /\ i \in 1..Len(Starts) /\ i + 1 \in 1..Len(Starts)
             /\ Length(i) \in Nat
             /\ Starts[i] + HeaderSize + Length(i) = Starts[i + 1]
  <2>1. i \in Nat /\ i \in 1..Len(Starts) /\ i + 1 \in 1..Len(Starts)
    BY <1>2 DEF Requests
  <2>2. Starts[i] \in Nat /\ Starts[i + 1] \in Nat /\ Starts[i] + HeaderSize <= Starts[i + 1]
    BY <1>2, <2>1, FramingAssumption
  <2> QED BY <1>1, <2>1, <2>2 DEF Length
<1> QED BY <1>2, <1>4

LEMMA Spacing ==
  ASSUME NEW i \in 1..Len(Starts), NEW j \in 1..Len(Starts), i < j
  PROVE  Starts[i] + HeaderSize <= Starts[j]
  BY FramingAssumption

\* No request starts inside the header of another.
LEMMA InsideAHeader ==
  ASSUME NEW i \in 1..Len(Starts), NEW n \in Nat, n > 0, n < HeaderSize
  PROVE  Starts[i] + n \notin Boundaries
<1> SUFFICES ASSUME NEW j \in 1..Len(Starts), Starts[i] + n = Starts[j] PROVE FALSE
  BY DEF Boundaries
<1>1. Starts[i] \in Nat /\ Starts[j] \in Nat
  BY StreamFacts
<1>2. /\ i < j => Starts[i] + HeaderSize <= Starts[j]
      /\ j < i => Starts[j] + HeaderSize <= Starts[i]
  BY Spacing
<1> QED BY <1>1, <1>2, Scalars

LEMMA FramingInvInit == ASSUME Init PROVE FramingInv
<1>1. FramingTypeOK
  BY Scalars DEF Init, FramingTypeOK
<1>3. StreamInv
  BY Scalars DEF Init, StreamInv
<1>4. StallInv
  BY Scalars DEF Init, StallInv
<1>5. DroppedForAReason
  BY DEF Init, DroppedForAReason
<1>2. ReadInv
  <2>1. 1 \in 1..Len(Starts) /\ Starts[1] = 0
    BY Scalars, FramingAssumption
  <2> QED BY <2>1, Scalars DEF Init, ReadInv
<1> QED BY <1>1, <1>2, <1>3, <1>4, <1>5 DEF FramingInv

\* The end of a read of h bytes that started at s, of which t + q were read and l are left.
LEMMA EndOfRead ==
  ASSUME NEW p \in Nat, NEW s \in Nat, NEW t \in Nat, NEW q \in Nat, NEW l \in Nat, NEW h \in Nat,
         p = s + t + q, l + t + q = h
  PROVE  p + l = s + h
  OBVIOUS

\* ... and n more of them read.
LEMMA PartOfRead ==
  ASSUME NEW p \in Nat, NEW s \in Nat, NEW t \in Nat, NEW q \in Nat, NEW l \in Nat, NEW h \in Nat,
         NEW n \in Nat, p = s + t + q, l + t + q = h
  PROVE  p + n = s + t + (q + n) /\ l - n + t + (q + n) = h
  OBVIOUS

\* A header that ends inside the stream is one of the client's.
LEMMA HeaderFound ==
  ASSUME FramingTypeOK, StreamInv, ReadInv, phase = "header", pos + left <= arrived
  PROVE  HeaderEndsAt(pos + left) # {}
<1>1. PICK i \in 1..Len(Starts) : pos = Starts[i] + total + part
  BY DEF ReadInv
<1>2. Starts[i] \in Nat
  BY StreamFacts
<1>3. pos + left = Starts[i] + HeaderSize
  <2>1. left + total + part = HeaderSize
    BY DEF ReadInv
  <2>2. pos \in Nat /\ total \in Nat /\ part \in Nat /\ left \in Nat /\ HeaderSize \in Nat
    BY Scalars, Zenon DEF FramingTypeOK
  <2> QED BY ONLY <1>1, <1>2, <2>1, <2>2
<1>4. i # Len(Starts)
  BY <1>2, <1>3, Scalars DEF StreamInv, StreamLength, FramingTypeOK
<1>5. i \in Requests
  BY <1>4, Scalars DEF Requests
<1> QED BY <1>3, <1>5 DEF HeaderEndsAt

-----------------------------------------------------------------------------
\* A header that is read from a boundary on.
LEMMA CallHeader ==
  ASSUME NextHeader, NEW i \in 1..Len(Starts), pos' = Starts[i]
  PROVE  ReadInv'
<1>1. Starts[i] \in Nat
  BY StreamFacts
<1> QED BY <1>1, Scalars DEF NextHeader, Call, Drop, ReadInv

\* The payload behind a header of the client's.
LEMMA CallPayload ==
  ASSUME NEW i \in Requests, Call("payload", Length(i)), pos' = Starts[i] + HeaderSize
  PROVE  ReadInv'
<1>1. Starts[i] \in Nat /\ Length(i) \in Nat
  BY StreamFacts
<1> QED BY <1>1, Scalars DEF Call, ReadInv

LEMMA ArriveKeeps ==
  ASSUME FramingInv, NEW n \in 1..StreamLength, Arrive(n) PROVE FramingInv'
<1> USE Scalars DEF FramingInv, Arrive
<1>1. FramingTypeOK' /\ StreamInv'
  BY DEF FramingTypeOK, StreamInv
<1>2. StallInv'
  BY DEF FramingTypeOK, StreamInv, StallInv
<1>3. DroppedForAReason'
  BY DEF DroppedForAReason
<1>4. ~abandoned' => ReadInv'
  BY DEF ReadInv
<1> QED BY <1>1, <1>2, <1>3, <1>4

LEMMA CloseKeeps == ASSUME FramingInv, Close PROVE FramingInv'
  BY DEF FramingInv, Close, FramingTypeOK, StreamInv, StallInv, DroppedForAReason, ReadInv

LEMMA StopKeeps == ASSUME FramingInv, Stop PROVE FramingInv'
  BY DEF FramingInv, Stop, FramingTypeOK, StreamInv, StallInv, DroppedForAReason, ReadInv

-----------------------------------------------------------------------------
\* What the loop of tcp_worker_callback does with a read that has ended: it gives the client up
\* or enters the next read.
LoopGoesOn ==
  \/ phase' = "dropped" /\ UNCHANGED <<left, total, part, stalled>>
  \/ phase' \in {"header", "payload"} /\ left' \in Nat /\ total' = 0 /\ part' = 0 /\ stalled' = 0

\* The reasons that DroppedForAReason names.
Reason ==
  \/ closed
  \/ quiet >= MaxStalled /\ pos \notin Boundaries
  \/ \E i \in Requests : Length(i) > BufferLength /\ pos = Starts[i] + HeaderSize
  \/ \E i \in Requests \cap Shutdown : pos = Starts[i + 1]
  \/ ~is_running

LEMMA NextHeaderGoesOn ==
  ASSUME NextHeader, UNCHANGED is_running
  PROVE  LoopGoesOn /\ (phase' = "dropped" => Reason')
<1>1. LoopGoesOn
  BY Scalars DEF NextHeader, Call, Drop, LoopGoesOn
<1>2. phase' = "dropped" => ~is_running'
  BY DEF NextHeader, Call
<1> QED BY <1>1, <1>2, Zenon DEF Reason

\* The end of request i.
LEMMA ServedGoesOn ==
  ASSUME NEW i \in Requests, Served(i), UNCHANGED is_running, pos' = Starts[i + 1]
  PROVE  LoopGoesOn /\ ReadInv' /\ (phase' = "dropped" => Reason')
<1>1. CASE NextHeader
  <2>1. i + 1 \in 1..Len(Starts)
    BY StreamFacts
  <2>2. ReadInv'
    BY <1>1, <2>1, CallHeader
  <2> QED BY <1>1, <2>2, NextHeaderGoesOn
<1>2. CASE i \in Shutdown /\ Drop
  <2>1. Reason'
    BY <1>2 DEF Reason
  <2> QED BY <1>2, <2>1 DEF Drop, LoopGoesOn, ReadInv
<1> QED BY <1>1, <1>2 DEF Served

LEMMA HeaderDone ==
  ASSUME FramingInv, phase = "header", Recv(left), ReadDone(pos + left)
  PROVE  /\ LoopGoesOn /\ abandoned' \in BOOLEAN
         /\ ~abandoned' => ReadInv' /\ (phase' = "dropped" => Reason')
<1> USE DEF FramingInv
<1>1. pos' = pos + left /\ pos + left <= arrived /\ UNCHANGED is_running
  BY DEF Recv
<1>2. ASSUME NEW i \in HeaderEndsAt(pos + left)
      PROVE  /\ i \in Requests /\ Starts[i] + HeaderSize = pos' /\ Length(i) \in Nat
             /\ Length(i) = 0 => pos' = Starts[i + 1] /\ i + 1 \in 1..Len(Starts)
  <2>1. i \in Requests /\ Starts[i] + HeaderSize = pos'
    BY <1>1 DEF HeaderEndsAt
  <2>2. /\ i \in 1..Len(Starts) /\ i + 1 \in 1..Len(Starts) /\ Starts[i] \in Nat /\ Length(i) \in Nat
        /\ Starts[i] + HeaderSize + Length(i) = Starts[i + 1]
    BY <2>1, StreamFacts
  <2> QED BY <2>1, <2>2, Scalars
<1>4. CASE \E i \in HeaderEndsAt(pos + left) \cap BadVersion :
             NextHeader /\ abandoned' = (abandoned \/ Length(i) > 0)
  <2>1. PICK i \in HeaderEndsAt(pos + left) \cap BadVersion :
             NextHeader /\ abandoned' = (abandoned \/ Length(i) > 0)
    BY <1>4
  <2>2. ~abandoned' => Length(i) = 0
    <3>1. Length(i) > 0 => abandoned'
      BY <2>1
    <3> QED BY <2>1, <1>2, <3>1
  <2>3. ~abandoned' => ReadInv'
    BY <1>2, <2>1, <2>2, CallHeader
  <2>4. abandoned' \in BOOLEAN
    BY <2>1 DEF FramingTypeOK
  <2> QED BY <1>1, <2>1, <2>3, <2>4, NextHeaderGoesOn
<1>5. CASE \E i \in HeaderEndsAt(pos + left) : ReadPayload(i) /\ UNCHANGED abandoned
  <2>1. PICK i \in HeaderEndsAt(pos + left) : ReadPayload(i) /\ UNCHANGED abandoned
    BY <1>5
  <2>2. abandoned' \in BOOLEAN
    BY <2>1 DEF FramingTypeOK
  <2>3. CASE Length(i) > BufferLength /\ Drop
    <3>1. Reason'
      BY <1>2, <2>1, <2>3 DEF Reason
    <3> QED BY <2>2, <2>3, <3>1 DEF Drop, LoopGoesOn, ReadInv
  <2>4. CASE Length(i) = 0 /\ Served(i)
    BY <1>1, <1>2, <2>1, <2>2, <2>4, ServedGoesOn
  <2>5. CASE Length(i) \in 1..BufferLength /\ Call("payload", Length(i))
    <3>1. ReadInv'
      BY <1>2, <2>1, <2>5, CallPayload
    <3>2. LoopGoesOn /\ phase' # "dropped"
      BY <1>2, <2>1, <2>5 DEF Call, LoopGoesOn
    <3> QED BY <2>2, <3>1, <3>2
  <2> QED BY <2>1, <2>3, <2>4, <2>5 DEF ReadPayload
<1>6. CASE HeaderEndsAt(pos + left) = {} /\ ReadAnything /\ UNCHANGED abandoned
  <2>1. abandoned' = TRUE
    <3>1. ~abandoned => FALSE
      BY <1>1, <1>6, HeaderFound
    <3>2. abandoned = TRUE
      BY <3>1 DEF FramingTypeOK
    <3> QED BY <1>6, <3>2
  <2>2. CASE NextHeader
    BY <1>1, <2>1, <2>2, NextHeaderGoesOn
  <2>3. CASE Drop
    BY <2>1, <2>3 DEF Drop, LoopGoesOn
  <2>4. CASE \E n \in 1..BufferLength : Call("payload", n)
    BY <2>1, <2>4, Scalars DEF Call, LoopGoesOn
  <2> QED BY <1>6, <2>2, <2>3, <2>4 DEF ReadAnything
<1>7. HeaderRead(pos + left)
  BY DEF ReadDone
<1> QED BY <1>4, <1>5, <1>6, <1>7 DEF HeaderRead

LEMMA PayloadDone ==
  ASSUME FramingInv, phase = "payload", Recv(left), ReadDone(pos + left)
  PROVE  /\ LoopGoesOn /\ abandoned' \in BOOLEAN
         /\ ~abandoned' => ReadInv' /\ (phase' = "dropped" => Reason')
<1>1. pos' = pos + left /\ UNCHANGED is_running /\ FramingTypeOK
  BY DEF Recv, FramingInv
<1>0. PayloadRead((pos + left) - total - part - left)
  BY DEF ReadDone
<1>2. abandoned' = abandoned /\ abandoned' \in BOOLEAN
  BY <1>0, <1>1 DEF PayloadRead, FramingTypeOK
<1>3. \/ \E i \in HeaderEndsAt((pos + left) - total - part - left) : Served(i)
      \/ HeaderEndsAt((pos + left) - total - part - left) = {} /\ (NextHeader \/ Drop)
  BY <1>0, Zenon DEF PayloadRead
<1>4. LoopGoesOn
  <2>1. NextHeader => LoopGoesOn
    BY Scalars DEF NextHeader, Call, Drop, LoopGoesOn
  <2>2. Drop => LoopGoesOn
    BY DEF Drop, LoopGoesOn
  <2> QED BY <1>3, <2>1, <2>2 DEF Served
<1>5. ASSUME ~abandoned PROVE ReadInv' /\ (phase' = "dropped" => Reason')
  <2>1. PICK j \in Requests : /\ left + total + part = Length(j)
                              /\ pos = Starts[j] + HeaderSize + total + part
    BY <1>5 DEF FramingInv, ReadInv
  <2>2. /\ j \in 1..Len(Starts) /\ Starts[j] \in Nat /\ Length(j) \in Nat /\ j + 1 \in 1..Len(Starts)
        /\ Starts[j] + HeaderSize + Length(j) = Starts[j + 1]
    BY StreamFacts
  <2>3. pos' = Starts[j + 1] /\ (pos + left) - total - part - left = Starts[j] + HeaderSize
    <3>2. PICK s \in Nat : s = Starts[j] + HeaderSize
      BY <2>2, Scalars
    <3>3. pos = s + total + part
      BY <2>1, <3>2
    <3>4. pos \in Nat /\ left \in Nat /\ total \in Nat /\ part \in Nat
      BY <1>1, Zenon DEF FramingTypeOK
    <3>5. pos + left = s + Length(j)
      BY <2>1, <3>2, <3>3, <3>4
    <3>6. (pos + left) - total - part - left = s
      BY ONLY <3>2, <3>3, <3>4
    <3> QED BY ONLY <1>1, <2>2, <3>2, <3>5, <3>6
  <2>4. j \in HeaderEndsAt((pos + left) - total - part - left)
    BY <2>3 DEF HeaderEndsAt
  <2>5. PICK i \in HeaderEndsAt((pos + left) - total - part - left) : Served(i)
    BY <1>3, <2>4
  <2>6. i = j
    <3>1. i \in Requests /\ Starts[i] + HeaderSize = Starts[j] + HeaderSize
      BY <2>3, <2>5 DEF HeaderEndsAt
    <3>2. i \in 1..Len(Starts) /\ Starts[i] \in Nat
      BY <3>1, StreamFacts
    <3>3. /\ i < j => Starts[i] + HeaderSize <= Starts[j]
          /\ j < i => Starts[j] + HeaderSize <= Starts[i]
      BY <2>2, <3>2, Spacing
    <3> QED BY <2>2, <3>1, <3>2, <3>3, Scalars
  <2> QED BY <1>1, <2>3, <2>5, <2>6, ServedGoesOn
<1> QED BY <1>2, <1>4, <1>5

LEMMA RecvKeeps ==
  ASSUME FramingInv, NEW n \in 1..StreamLength, Recv(n) PROVE FramingInv'
<1> USE Scalars
<1>1. /\ arrived' = arrived /\ quiet' = quiet /\ closed' = closed /\ is_running' = is_running /\ pos' = pos + n /\ pos + n <= arrived
      /\ n \in Nat /\ n > 0 /\ FramingTypeOK /\ phase # "dropped"
  BY DEF Recv, FramingInv
<1>2. CASE n < left /\ left' = left - n /\ part' = part + n /\ UNCHANGED <<phase, total, stalled, abandoned>>
  <2>1. FramingTypeOK' /\ StreamInv' /\ StallInv'
    BY <1>1, <1>2 DEF FramingInv, FramingTypeOK, StreamInv, StallInv
  <2>2. DroppedForAReason'
    BY <1>1, <1>2 DEF DroppedForAReason
  <2>3. ASSUME ~abandoned', phase = "header" PROVE ReadInv'
    <3>1. PICK i \in 1..Len(Starts) : pos = Starts[i] + total + part
      BY <1>2, <2>3 DEF FramingInv, ReadInv
    <3>2. Starts[i] \in Nat
      BY StreamFacts
    <3>3. pos' = Starts[i] + total' + part'
      BY <1>1, <1>2, <3>1, <3>2 DEF FramingTypeOK
    <3>4. left' > 0 /\ left' + total' + part' = HeaderSize
      BY <1>1, <1>2, <2>3 DEF FramingTypeOK, FramingInv, ReadInv
    <3> QED BY <1>2, <2>3, <3>3, <3>4 DEF ReadInv
  <2>4. ASSUME ~abandoned', phase = "payload" PROVE ReadInv'
    <3>1. PICK i \in Requests : /\ left + total + part = Length(i)
                                /\ pos = Starts[i] + HeaderSize + total + part
      BY <1>2, <2>4 DEF FramingInv, ReadInv
    <3>2. Starts[i] \in Nat /\ Length(i) \in Nat
      BY StreamFacts
    <3>3. pos' = Starts[i] + HeaderSize + total' + part' /\ left' + total' + part' = Length(i)
      <4>1. PICK s \in Nat : s = Starts[i] + HeaderSize
        BY <3>2
      <4>2. pos = s + total + part
        BY <3>1, <4>1
      <4>3. pos + n = s + total + (part + n) /\ left - n + total + (part + n) = Length(i)
        BY <1>1, <3>1, <3>2, <4>2, PartOfRead DEF FramingTypeOK
      <4> QED BY <1>1, <1>2, <4>1, <4>3
    <3> QED BY <1>2, <2>4, <3>3 DEF ReadInv
  <2>5. phase = "header" \/ phase = "payload"
    BY <1>1 DEF FramingTypeOK
  <2> QED BY <2>1, <2>2, <2>3, <2>4, <2>5 DEF FramingInv
<1>3. CASE n = left /\ ReadDone(pos + n)
  <2>1. /\ LoopGoesOn /\ abandoned' \in BOOLEAN
        /\ ~abandoned' => ReadInv' /\ (phase' = "dropped" => Reason')
    <3>1. phase = "header" \/ phase = "payload"
      BY <1>1 DEF FramingTypeOK
    <3> QED BY <1>3, <3>1, HeaderDone, PayloadDone
  <2>2. FramingTypeOK'
    BY <1>1, <2>1 DEF FramingTypeOK, LoopGoesOn
  <2>3. StreamInv'
    BY <1>1 DEF FramingInv, StreamInv
  <2>4. StallInv'
    BY <1>1, <2>1 DEF FramingInv, FramingTypeOK, StallInv, LoopGoesOn
  <2>5. DroppedForAReason'
    BY <2>1, Zenon DEF DroppedForAReason, Reason
  <2> QED BY <2>1, <2>2, <2>3, <2>4, <2>5 DEF FramingInv
<1> QED BY <1>2, <1>3, <1>1 DEF Recv

\* A read that failed: the client is dropped, or the payload is abandoned.
LEMMA RecvClosedKeeps == ASSUME FramingInv, RecvClosed PROVE FramingInv'
<1> USE Scalars DEF FramingInv, RecvClosed, ReadFailed, Drop, NextHeader, Call
<1>0. abandoned' \in BOOLEAN
  BY DEF FramingTypeOK
<1>1. FramingTypeOK' /\ StreamInv'
  BY <1>0, SMT DEF FramingTypeOK, StreamInv
<1>2. StallInv'
  BY DEF FramingTypeOK, StreamInv, StallInv
<1>3. DroppedForAReason'
  BY DEF FramingTypeOK, DroppedForAReason
<1>4. ~abandoned' => ReadInv'
  BY DEF ReadInv
<1> QED BY <1>1, <1>2, <1>3, <1>4

LEMMA RecvTimeoutKeeps == ASSUME FramingInv, RecvTimeout PROVE FramingInv'
<1> USE Scalars DEF FramingInv
<1>1. /\ UNCHANGED <<arrived, pos, closed, is_running>> /\ phase # "dropped" /\ pos = arrived
      /\ quiet' = (IF quiet < MaxStalled THEN quiet + 1 ELSE quiet)
  BY DEF RecvTimeout
<1>2. part = 0 => stalled <= quiet
  BY <1>1 DEF FramingTypeOK, StallInv
<1>3. quiet' \in Nat /\ (StalledTimeouts >= MaxStalled => quiet' >= MaxStalled)
  BY <1>1, <1>2 DEF FramingTypeOK, StallInv, StalledTimeouts
<1>4. CASE total + part = 0 /\ NextHeader /\ abandoned' = (abandoned \/ phase = "payload")
  <2>1. abandoned' \in BOOLEAN /\ (~abandoned' => ~abandoned /\ phase = "header")
    BY <1>1, <1>4 DEF FramingTypeOK
  <2>0. LoopGoesOn /\ (phase' = "dropped" => Reason')
    BY <1>1, <1>4, NextHeaderGoesOn
  <2>2. FramingTypeOK' /\ StreamInv' /\ StallInv' /\ DroppedForAReason'
    <3>1. FramingTypeOK'
      BY <1>1, <1>3, <2>0, <2>1 DEF FramingTypeOK, LoopGoesOn
    <3>2. StreamInv' /\ StallInv'
      BY <1>1, <1>3, <2>0 DEF FramingTypeOK, StreamInv, StallInv, LoopGoesOn
    <3>3. DroppedForAReason'
      BY <2>0, Zenon DEF DroppedForAReason, Reason
    <3> QED BY <3>1, <3>2, <3>3
  <2>3. ASSUME ~abandoned' PROVE ReadInv'
    <3>1. PICK i \in 1..Len(Starts) : pos = Starts[i] + total + part
      BY <2>1, <2>3 DEF ReadInv
    <3>2. Starts[i] \in Nat
      BY StreamFacts
    <3>3. pos' = Starts[i]
      BY <1>1, <1>4, <3>1, <3>2 DEF FramingTypeOK
    <3> QED BY <1>4, <3>3, CallHeader
  <2> QED BY <2>2, <2>3
<1>5. CASE total + part > 0 /\ StalledTimeouts >= MaxStalled /\ ReadFailed
  <2> USE DEF ReadFailed, Drop, NextHeader, Call
  <2>0. abandoned' \in BOOLEAN
    BY <1>5 DEF FramingTypeOK
  <2>1. FramingTypeOK' /\ StreamInv'
    BY <2>0, <1>1, <1>3, <1>5, SMT DEF FramingTypeOK, StreamInv
  <2>2. StallInv'
    BY <1>1, <1>3, <1>5 DEF FramingTypeOK, StreamInv, StallInv
  <2>4. ASSUME ~abandoned' PROVE Reason'
    <3>1. phase = "header" /\ ~abandoned
      BY <1>5, <2>4
    <3>2. PICK i \in 1..Len(Starts) : pos = Starts[i] + total + part
      BY <3>1 DEF ReadInv
    <3>3. Starts[i] \in Nat
      BY StreamFacts
    <3>4. left > 0 /\ left + total + part = HeaderSize
      BY <3>1 DEF ReadInv
    <3>5. PICK n \in Nat : n = total + part /\ n > 0 /\ n < HeaderSize
      BY <1>5, <3>4 DEF FramingTypeOK
    <3>6. pos = Starts[i] + n
      BY <3>2, <3>3, <3>5 DEF FramingTypeOK
    <3>7. pos' \notin Boundaries
      BY <1>1, <3>5, <3>6, InsideAHeader
    <3> QED BY <1>3, <1>5, <3>7 DEF Reason
  <2>5. DroppedForAReason'
    BY ONLY <2>4, Zenon DEF DroppedForAReason, Reason
  <2>3. ~abandoned' => ReadInv'
    BY <1>1, <1>5 DEF ReadInv
  <2> QED BY <2>1, <2>2, <2>3, <2>5
<1>6. CASE /\ StalledTimeouts < MaxStalled
           /\ stalled' = StalledTimeouts
           /\ total' = total + part
           /\ part' = 0
           /\ UNCHANGED <<phase, left, abandoned>>
  <2>1. FramingTypeOK' /\ StreamInv' /\ DroppedForAReason'
    BY <1>1, <1>3, <1>6 DEF FramingTypeOK, StreamInv, DroppedForAReason, StalledTimeouts
  <2>2. StallInv'
    BY <1>1, <1>2, <1>6 DEF FramingTypeOK, StallInv, StalledTimeouts
  <2>3. ASSUME ~abandoned', phase = "header" PROVE ReadInv'
    <3>1. PICK i \in 1..Len(Starts) : pos = Starts[i] + total + part
      BY <1>6, <2>3 DEF ReadInv
    <3>2. Starts[i] \in Nat
      BY StreamFacts
    <3>3. pos' = Starts[i] + total' + part'
      BY <1>1, <1>6, <3>1, <3>2 DEF FramingTypeOK
    <3>4. left' > 0 /\ left' + total' + part' = HeaderSize
      BY <1>6, <2>3 DEF FramingTypeOK, ReadInv
    <3> QED BY <1>6, <2>3, <3>3, <3>4 DEF ReadInv
  <2>4. ASSUME ~abandoned', phase = "payload" PROVE ReadInv'
    <3>1. PICK i \in Requests : /\ left + total + part = Length(i)
                                /\ pos = Starts[i] + HeaderSize + total + part
      BY <1>6, <2>4 DEF ReadInv
    <3>2. Starts[i] \in Nat /\ Length(i) \in Nat
      BY StreamFacts
    <3>3. pos' = Starts[i] + HeaderSize + total' + part'
      BY <1>1, <1>6, <3>1, <3>2 DEF FramingTypeOK
    <3>4. left' + total' + part' = Length(i)
      BY <1>6, <3>1, <3>2 DEF FramingTypeOK
    <3> QED BY <1>6, <2>4, <3>3, <3>4 DEF ReadInv
  <2>5. phase = "header" \/ phase = "payload"
    BY <1>1 DEF FramingTypeOK
  <2> QED BY <2>1, <2>2, <2>3, <2>4, <2>5
<1> QED BY <1>4, <1>5, <1>6 DEF RecvTimeout

LEMMA FramingInvariant == Spec => []FramingInv
<1>1. FramingInv /\ [Next]_vars => FramingInv'
  <2>1. FramingInv /\ Next => FramingInv'
    <3>1. FramingInv /\ UNCHANGED vars => FramingInv'
      BY DEF FramingInv, FramingTypeOK, StreamInv, StallInv, DroppedForAReason, ReadInv, vars
    <3> QED BY <3>1, ArriveKeeps, RecvKeeps, CloseKeeps, StopKeeps, RecvClosedKeeps, RecvTimeoutKeeps DEF Next, Dropped
  <2>2. FramingInv /\ UNCHANGED vars => FramingInv'
    BY DEF FramingInv, FramingTypeOK, StreamInv, StallInv, DroppedForAReason, ReadInv, vars
  <2> QED BY <2>1, <2>2
<1> QED BY <1>1, FramingInvInit, PTL DEF Spec

\* As long as every announced payload is read, each header is read from where the client
\* started a request, whatever the segments and the timeouts.
THEOREM StaysInStep == Spec => []InStepUnlessAbandoned
<1>1. FramingInv => InStepUnlessAbandoned
  <2> SUFFICES ASSUME FramingInv, ~abandoned, phase = "header", total + part = 0
               PROVE  pos \in Boundaries
    BY DEF InStepUnlessAbandoned, HeaderAtBoundary
  <2>1. PICK i \in 1..Len(Starts) : pos = Starts[i] + total + part
    BY DEF FramingInv, ReadInv
  <2>2. Starts[i] \in Nat
    BY StreamFacts
  <2>3. pos = Starts[i]
    BY <2>1, <2>2 DEF FramingInv, FramingTypeOK
  <2> QED BY <2>3 DEF Boundaries
<1> QED BY <1>1, FramingInvariant, PTL

\* A client that is in step is dropped only for one of the five reasons of DroppedForAReason,
\* whatever its requests, the segments and the limits.
THEOREM DropsAreJustified == Spec => []DroppedForAReason
<1>1. FramingInv => DroppedForAReason
  BY DEF FramingInv
<1> QED BY <1>1, FramingInvariant, PTL
=============================================================================
