---------------------------- MODULE SdrDeviceProofs ----------------------------
(***************************************************************************)
(* What the drivers of src/sdr promise for all rates, buffer sizes, files  *)
(* and interleavings of the rx and the tx worker.                          *)
(***************************************************************************)
EXTENDS SdrDevice, TLAPS

-----------------------------------------------------------------------------
(* plutosdr.c *)

Steps == {"idle", "failed", "compare", "gain", "buffer", "push"} \cup RateWrites
Chips == [rate : Nat, fir : BOOLEAN, taps : {0, 2, 4}, txLo : BOOLEAN]

PlutoTypeOK ==
  /\ plutoState \in {"creating", "hasTxLo", "open", "closed"}
  /\ plutoPc \in [Users -> Steps]
  /\ want \in [Users -> Nat]
  /\ chip \in Chips
  /\ alone \in [Users -> BOOLEAN]
  /\ rx_buffer \in 0..3 /\ tx_buffer \in 0..3

LEMMA DecimationType == ASSUME NEW rate \in Nat PROVE Decimation(rate) \in {0, 2, 4}
  BY DEF Decimation, MIN_FIR_FILTER_2, MIN_NO_FIR_FILTER

LEMMA FirstWriteType == ASSUME NEW rate PROVE FirstWrite(rate) \in RateWrites
  BY DEF FirstWrite, RateWrites

\* A write of plutosdr_set_sample_rate
LEMMA WriteType ==
  ASSUME PlutoTypeOK, NEW t \in Users, NEW p, NEW c \in Chips, NEW next \in Steps, Write(t, p, c, next)
  PROVE  PlutoTypeOK'
<1>1. CASE chip' = c /\ Goto(t, next) /\ UNCHANGED <<want, alone, disturbed>>
  BY <1>1 DEF Write, PlutoTypeOK, Goto, bufferVars
<1>2. CASE chip' \in {chip, c} /\ RateFails(t)
  <2>1. plutoPc' \in [Users -> Steps]
    BY <1>2 DEF RateFails, Goto, PlutoTypeOK, Steps
  <2>2. want' \in [Users -> Nat] /\ alone' \in [Users -> BOOLEAN]
    BY <1>2 DEF RateFails, PlutoTypeOK
  <2> QED BY <1>2, <2>1, <2>2 DEF Write, PlutoTypeOK, bufferVars
<1> QED BY <1>1, <1>2 DEF Write

LEMMA PlutoTypeInit == ASSUME PlutoInit PROVE PlutoTypeOK
<1>1. PICK rate \in Rates \cap {r \in Nat : r >= MIN_FIR_FILTER}, lo \in BOOLEAN :
        chip = [rate |-> rate, fir |-> Decimation(rate) # 0, taps |-> Decimation(rate), txLo |-> lo]
  BY DEF PlutoInit
<1>2. chip \in Chips
  BY <1>1, DecimationType DEF Chips
<1> QED BY <1>2 DEF PlutoInit, PlutoTypeOK, Steps

LEMMA NewBufferType ==
  ASSUME NEW old \in 0..3, NEW other \in 0..3, NEW new \in 0..3, old = other => old = 0,
         iioBuffers = {old, other} \ {0}, NewBuffer(old, iioBuffers, new)
  PROVE  /\ iioBuffers' = {new, other} \ {0}
         /\ new = other => new = 0
<1>1. iioBuffers \ {old} = {other} \ {0}
  OBVIOUS
<1>2. CASE new = 0 /\ iioBuffers' = iioBuffers \ {old}
  BY <1>1, <1>2
<1>3. CASE /\ new = 1 + CHOOSE n \in 0..2 : n + 1 \notin iioBuffers \ {old}
           /\ iioBuffers' = (iioBuffers \ {old}) \cup {new}
  <2>1. \E n \in 0..2 : n + 1 \notin iioBuffers \ {old}
    <3>1. CASE other = 1
      BY <1>1, <3>1
    <3>2. CASE other # 1
      BY <1>1, <3>2
    <3> QED BY <3>1, <3>2
  <2> DEFINE n == CHOOSE n \in 0..2 : n + 1 \notin iioBuffers \ {old}
  <2>2. n \in 0..2 /\ n + 1 \notin iioBuffers \ {old}
    BY <2>1
  <2>3. new = 1 + n
    BY <1>3
  <2> HIDE DEF n
  <2>4. new # 0 /\ new \notin {other} \ {0}
    BY <1>1, <2>2, <2>3
  <2> QED BY <1>1, <1>3, <2>4
<1> QED BY <1>2, <1>3 DEF NewBuffer

LEMMA PlutoTypeStep ==
  ASSUME PlutoTypeOK, PlutoNext PROVE PlutoTypeOK'
<1>1. CASE PlutoCreateFindsTxLo
  BY <1>1 DEF PlutoCreateFindsTxLo, PlutoTypeOK, Chips, bufferVars
<1>2. ASSUME NEW rate \in Rates, PlutoCreateSetsRate(rate) PROVE PlutoTypeOK'
  <2>1. rate \in Nat /\ FirstWrite(rate) \in Steps
    BY PlutoAssumption, FirstWriteType DEF Steps
  <2>2. plutoPc' \in [Users -> Steps] /\ want' \in [Users -> Nat]
    BY <1>2, <2>1 DEF PlutoCreateSetsRate, EnterSetRate, Goto, PlutoTypeOK, Steps
  <2>3. alone' \in [Users -> BOOLEAN]
    BY <1>2 DEF PlutoCreateSetsRate, EnterSetRate, PlutoTypeOK
  <2> QED BY <1>2, <2>2, <2>3 DEF PlutoCreateSetsRate, PlutoTypeOK, bufferVars
<1>3. CASE PlutoCreateEnds
  BY <1>3 DEF PlutoCreateEnds, PlutoTypeOK, bufferVars
<1>4. ASSUME NEW t \in Users, RateStep(t) PROVE PlutoTypeOK'
  <2>0. want[t] \in Nat /\ Decimation(want[t]) \in {0, 2, 4}
    BY DecimationType DEF PlutoTypeOK
  <2>1. CASE CompareRate(t)
    <3>1. plutoPc' \in [Users -> Steps]
      BY <2>1, FirstWriteType DEF CompareRate, EnterSetRate, Goto, PlutoTypeOK, Steps
    <3>2. alone' \in [Users -> BOOLEAN]
      BY <2>1 DEF CompareRate, EnterSetRate, PlutoTypeOK
    <3> QED BY <2>1, <3>1, <3>2 DEF CompareRate, PlutoTypeOK, bufferVars
  <2>2. CASE WriteFirTaps(t)
    BY <2>0, <2>2, WriteType DEF WriteFirTaps, PlutoTypeOK, Chips, Steps, RateWrites
  <2>3. CASE WriteFirOn(t)
    BY <2>3, WriteType DEF WriteFirOn, PlutoTypeOK, Chips, Steps, RateWrites
  <2>4. CASE WriteRate(t)
    BY <2>0, <2>4, WriteType DEF WriteRate, PlutoTypeOK, Chips, Steps, RateWrites
  <2>5. CASE WriteBandwidth(t)
    <3>1. CASE Write(t, "bandwidth", chip, "cache")
      BY <3>1, WriteType DEF PlutoTypeOK, Steps, RateWrites
    <3>2. CASE Goto(t, "firOff") /\ UNCHANGED <<plutoState, want, current_sample_rate, chip, alone, disturbed, bufferVars>>
      BY <3>2 DEF Goto, PlutoTypeOK, bufferVars, Steps, RateWrites
    <3> QED BY <2>5, <3>1, <3>2 DEF WriteBandwidth
  <2>6. CASE WriteFirOff(t)
    BY <2>6, WriteType DEF WriteFirOff, PlutoTypeOK, Chips, Steps, RateWrites
  <2>7. CASE CacheRate(t)
    BY <2>7 DEF CacheRate, Return, Goto, PlutoTypeOK, bufferVars, Steps
  <2>8. CASE WriteGain(t)
    BY <2>8 DEF WriteGain, Return, Goto, PlutoTypeOK, bufferVars, Steps
  <2> QED BY <1>4, <2>1, <2>2, <2>3, <2>4, <2>5, <2>6, <2>7, <2>8 DEF RateStep
<1>5. ASSUME NEW t \in Users, NEW rate \in Rates, PlutoSetParameters(t, rate) PROVE PlutoTypeOK'
  <2>1. rate \in Nat
    BY PlutoAssumption
  <2>2. PoweredFor(t) \in Chips
    BY DEF PoweredFor, PlutoTypeOK, Chips
  <2>3. plutoPc' \in [Users -> Steps] /\ want' \in [Users -> Nat]
    BY <1>5, <2>1 DEF PlutoSetParameters, Return, Goto, PlutoTypeOK, Steps
  <2>4. chip' \in Chips
    BY <1>5, <2>2 DEF PlutoSetParameters, PlutoTypeOK
  <2> QED BY <1>5, <2>3, <2>4 DEF PlutoSetParameters, PlutoTypeOK, bufferVars
<1>6. CASE PlutoCreateTxBuffer
  BY <1>6 DEF PlutoCreateTxBuffer, Return, Goto, PlutoTypeOK, Steps
<1>7. CASE PlutoStartRx \/ PlutoStopRx
  BY <1>7 DEF PlutoStartRx, PlutoStopRx, PlutoTypeOK
<1>8. CASE \E len \in Frames : PlutoProcessTx(len)
  BY <1>8 DEF PlutoProcessTx, Goto, PlutoTypeOK, Steps
<1>9. CASE PlutoPush \/ PlutoPushFails
  BY <1>9 DEF PlutoPush, PlutoPushFails, Goto, PlutoTypeOK, Steps
<1>10. CASE PlutoDestroy
  BY <1>10 DEF PlutoDestroy, PlutoTypeOK, Chips
<1> QED BY <1>1, <1>2, <1>3, <1>4, <1>5, <1>6, <1>7, <1>8, <1>9, <1>10 DEF PlutoNext

\* Who uses the device in which state, and when the oscillator is powered.
PlutoUse ==
  /\ plutoState = "closed" => \A t \in Users : plutoPc[t] \in {"idle", "failed"}
  /\ plutoState \in {"creating", "hasTxLo"} => plutoPc["tx"] = "idle" /\ tx_buffer = 0
  /\ plutoState # "closed" /\ (tx_buffer # 0 \/ plutoPc["tx"] \notin {"idle", "failed"}) => chip.txLo

\* Setting the sample rate changes neither the oscillator nor the buffers.
LEMMA RateStepFrame ==
  ASSUME PlutoTypeOK, NEW t \in Users, RateStep(t)
  PROVE  /\ UNCHANGED bufferVars
         /\ chip'.txLo = chip.txLo
         /\ plutoPc[t] \notin {"idle", "failed"}
         /\ \A u \in Users \ {t} : plutoPc'[u] = plutoPc[u]
         /\ plutoState' = plutoState \/ (plutoState = "hasTxLo" /\ plutoState' = "open")
<1>1. ASSUME NEW p \in RateWrites, NEW c \in Chips, NEW next, Write(t, p, c, next), c.txLo = chip.txLo
      PROVE  /\ UNCHANGED <<bufferVars, plutoState>> /\ chip'.txLo = chip.txLo
             /\ plutoPc[t] \notin {"idle", "failed"}
             /\ \A u \in Users \ {t} : plutoPc'[u] = plutoPc[u]
  BY <1>1 DEF Write, Calling, RateFails, Goto, PlutoTypeOK, RateWrites
<1>2. CASE CompareRate(t)
  BY <1>2 DEF CompareRate, Calling, EnterSetRate, Goto, PlutoTypeOK
<1>3. CASE WriteFirTaps(t)
  <2>1. [chip EXCEPT !.taps = Decimation(want[t])] \in Chips /\ [chip EXCEPT !.taps = Decimation(want[t])].txLo = chip.txLo
    BY DecimationType DEF PlutoTypeOK, Chips
  <2> QED BY <1>1, <1>3, <2>1 DEF WriteFirTaps, RateWrites
<1>4. CASE WriteFirOn(t)
  <2>1. [chip EXCEPT !.fir = TRUE] \in Chips /\ [chip EXCEPT !.fir = TRUE].txLo = chip.txLo
    BY DEF PlutoTypeOK, Chips
  <2> QED BY <1>1, <1>4, <2>1 DEF WriteFirOn, RateWrites
<1>5. CASE WriteRate(t)
  <2>1. [chip EXCEPT !.rate = want[t]] \in Chips /\ [chip EXCEPT !.rate = want[t]].txLo = chip.txLo
    BY DEF PlutoTypeOK, Chips
  <2> QED BY <1>1, <1>5, <2>1 DEF WriteRate, RateWrites
<1>6. CASE WriteBandwidth(t)
  <2>1. CASE Write(t, "bandwidth", chip, "cache")
    BY <1>1, <2>1 DEF PlutoTypeOK, RateWrites
  <2>2. CASE /\ Calling(t, "bandwidth") /\ Goto(t, "firOff")
             /\ UNCHANGED <<plutoState, want, current_sample_rate, chip, alone, disturbed, bufferVars>>
    BY <2>2 DEF Calling, Goto, PlutoTypeOK
  <2> QED BY <1>6, <2>1, <2>2 DEF WriteBandwidth
<1>7. CASE WriteFirOff(t)
  <2>1. [chip EXCEPT !.fir = FALSE] \in Chips /\ [chip EXCEPT !.fir = FALSE].txLo = chip.txLo
    BY DEF PlutoTypeOK, Chips
  <2> QED BY <1>1, <1>7, <2>1 DEF WriteFirOff, RateWrites
<1>8. CASE CacheRate(t)
  BY <1>8 DEF CacheRate, Calling, Return, Goto, PlutoTypeOK
<1>9. CASE WriteGain(t)
  BY <1>9 DEF WriteGain, Calling, Return, Goto, PlutoTypeOK
<1> QED BY <1>2, <1>3, <1>4, <1>5, <1>6, <1>7, <1>8, <1>9 DEF RateStep

LEMMA PlutoUseStep ==
  ASSUME PlutoTypeOK, PlutoUse, PlutoNext PROVE PlutoUse'
<1> USE DEF Users
<1>1. CASE PlutoCreateFindsTxLo
  BY <1>1 DEF PlutoCreateFindsTxLo, PlutoUse, bufferVars
<1>2. ASSUME NEW rate \in Rates, PlutoCreateSetsRate(rate) PROVE PlutoUse'
  BY <1>2 DEF PlutoCreateSetsRate, EnterSetRate, Goto, PlutoTypeOK, PlutoUse, bufferVars
<1>3. CASE PlutoCreateEnds
  BY <1>3 DEF PlutoCreateEnds, PlutoUse, bufferVars
<1>4. ASSUME NEW t \in Users, RateStep(t) PROVE PlutoUse'
  <2>1. /\ UNCHANGED tx_buffer /\ chip'.txLo = chip.txLo
        /\ plutoPc[t] \notin {"idle", "failed"}
        /\ \A u \in Users \ {t} : plutoPc'[u] = plutoPc[u]
        /\ plutoState' = plutoState \/ (plutoState = "hasTxLo" /\ plutoState' = "open")
    BY <1>4, RateStepFrame DEF bufferVars
  <2>2. plutoState # "closed" /\ plutoState' # "closed"
    BY <2>1 DEF PlutoUse
  <2>3. CASE t = "tx"
    BY <2>1, <2>2, <2>3 DEF PlutoUse
  <2>4. CASE t = "rx"
    BY <2>1, <2>2, <2>4 DEF PlutoUse
  <2> QED BY <2>3, <2>4
<1>5. ASSUME NEW t \in Users, NEW rate \in Rates, PlutoSetParameters(t, rate) PROVE PlutoUse'
  <2>1. plutoState = "open" /\ plutoState' = "open" /\ tx_buffer' = tx_buffer /\ plutoPc[t] = "idle"
    BY <1>5 DEF PlutoSetParameters, Calling, bufferVars
  <2>2. CASE t = "tx"
    <3>1. PoweredFor(t).txLo
      BY <2>2 DEF PoweredFor, PlutoTypeOK, Chips
    <3> QED BY <1>5, <2>1, <2>2, <3>1 DEF PlutoSetParameters, Return, Goto, PlutoTypeOK, PlutoUse
  <2>3. CASE t = "rx"
    <3>1. PoweredFor(t) = chip
      BY <2>3 DEF PoweredFor
    <3>2. chip' = chip /\ plutoPc'["tx"] = plutoPc["tx"]
      BY <1>5, <2>3, <3>1 DEF PlutoSetParameters, Return, Goto, PlutoTypeOK
    <3> QED BY <2>1, <3>2 DEF PlutoUse
  <2> QED BY <2>2, <2>3
<1>6. CASE PlutoCreateTxBuffer
  BY <1>6 DEF PlutoCreateTxBuffer, Calling, Return, Goto, PlutoTypeOK, PlutoUse
<1>7. CASE PlutoStartRx \/ PlutoStopRx
  BY <1>7 DEF PlutoStartRx, PlutoStopRx, PlutoUse
<1>8. CASE \E len \in Frames : PlutoProcessTx(len)
  BY <1>8 DEF PlutoProcessTx, Goto, PlutoTypeOK, PlutoUse
<1>9. CASE PlutoPush \/ PlutoPushFails
  BY <1>9 DEF PlutoPush, PlutoPushFails, Calling, Goto, PlutoTypeOK, PlutoUse
<1>10. CASE PlutoDestroy
  BY <1>10 DEF PlutoDestroy, PlutoUse
<1> QED BY <1>1, <1>2, <1>3, <1>4, <1>5, <1>6, <1>7, <1>8, <1>9, <1>10 DEF PlutoNext

LEMMA BuffersOwnedStep ==
  ASSUME PlutoTypeOK, PlutoUse, BuffersOwned, PlutoNext PROVE BuffersOwned'
<1> USE DEF Users
<1>1. CASE \/ PlutoCreateFindsTxLo \/ PlutoCreateEnds
           \/ \E rate \in Rates : PlutoCreateSetsRate(rate)
           \/ \E t \in Users, rate \in Rates : PlutoSetParameters(t, rate)
  BY <1>1 DEF PlutoCreateFindsTxLo, PlutoCreateEnds, PlutoCreateSetsRate, PlutoSetParameters, bufferVars, BuffersOwned
<1>2. ASSUME NEW t \in Users, RateStep(t) PROVE BuffersOwned'
  <2>1. /\ UNCHANGED <<rx_buffer, tx_buffer, iioBuffers>>
        /\ plutoState' = plutoState \/ (plutoState = "hasTxLo" /\ plutoState' = "open")
    BY <1>2, RateStepFrame DEF bufferVars
  <2> QED BY <2>1 DEF BuffersOwned
<1>3. CASE PlutoCreateTxBuffer
  <2>1. plutoState # "closed" /\ plutoState' = plutoState /\ rx_buffer' = rx_buffer
    BY <1>3 DEF PlutoCreateTxBuffer, Calling, PlutoUse
  <2>2. PICK b \in 0..3 : NewBuffer(tx_buffer, iioBuffers, b) /\ tx_buffer' = b
    BY <1>3 DEF PlutoCreateTxBuffer
  <2>3. iioBuffers' = {b, rx_buffer} \ {0} /\ (b = rx_buffer => b = 0)
    BY <2>1, <2>2, NewBufferType DEF PlutoTypeOK, BuffersOwned
  <2> QED BY <2>1, <2>2, <2>3 DEF BuffersOwned
<1>4. CASE PlutoStartRx
  <2>1. plutoState = "open" /\ plutoState' = plutoState /\ tx_buffer' = tx_buffer
    BY <1>4 DEF PlutoStartRx
  <2>2. PICK b \in 0..3 : NewBuffer(rx_buffer, iioBuffers, b) /\ rx_buffer' = b
    BY <1>4 DEF PlutoStartRx
  <2>3. iioBuffers' = {b, tx_buffer} \ {0} /\ (b = tx_buffer => b = 0)
    BY <2>1, <2>2, NewBufferType DEF PlutoTypeOK, BuffersOwned
  <2> QED BY <2>1, <2>2, <2>3 DEF BuffersOwned
<1>5. CASE PlutoStopRx
  BY <1>5 DEF PlutoStopRx, BuffersOwned
<1>6. CASE PlutoPush \/ PlutoPushFails \/ \E len \in Frames : PlutoProcessTx(len)
  BY <1>6 DEF PlutoPush, PlutoPushFails, PlutoProcessTx, BuffersOwned
<1>7. CASE PlutoDestroy
  BY <1>7 DEF PlutoDestroy, BuffersOwned
<1> QED BY <1>1, <1>2, <1>3, <1>4, <1>5, <1>6, <1>7 DEF PlutoNext

\* The chip runs at a rate, with the filter that it needs.
RunsAt(rate) ==
  /\ chip.rate = rate
  /\ chip.fir = (Decimation(rate) # 0)
  /\ chip.fir => chip.taps = Decimation(rate)

\* How far plutosdr_set_sample_rate of thread t has come with the chip.
Written(t) ==
  LET d == Decimation(want[t])
      filtered == d # 0 => chip.fir /\ chip.taps = d
  IN  /\ plutoPc[t] = "firOn" => chip.taps = d
      /\ plutoPc[t] \in {"firTaps", "firOn"} => d # 0
      /\ plutoPc[t] \in {"rate", "bandwidth"} => filtered
      /\ plutoPc[t] \in {"bandwidth", "firOff"} => chip.rate = want[t]
      /\ plutoPc[t] = "firOff" => d = 0
      /\ plutoPc[t] = "cache" => RunsAt(want[t])

InRateWrites == {t \in Users : plutoPc[t] \in RateWrites}

\* A change of the rate that overlaps with no other has written what it wrote; between
\* changes the last one of which was such a one, the chip runs at the cached rate.
RateInv ==
  /\ \A t \in InRateWrites : alone[t] => InRateWrites = {t} /\ Written(t)
  /\ InRateWrites = {} /\ ~disturbed => RunsAt(current_sample_rate)

\* Steps that have nothing to do with the rate
LEMMA RateUndisturbed ==
  ASSUME RateInv, UNCHANGED <<current_sample_rate, alone, disturbed>>,
         chip'.rate = chip.rate, chip'.fir = chip.fir, chip'.taps = chip.taps,
         InRateWrites' = InRateWrites,
         \A t \in InRateWrites : plutoPc'[t] = plutoPc[t] /\ want'[t] = want[t]
  PROVE  RateInv'
<1>1. \A t \in InRateWrites : Written(t) => Written(t)'
  BY DEF Written, RunsAt
<1>2. RunsAt(current_sample_rate) => RunsAt(current_sample_rate)'
  BY DEF RunsAt
<1> QED BY <1>1, <1>2 DEF RateInv

\* A thread enters plutosdr_set_sample_rate.
LEMMA EnterKeepsRate ==
  ASSUME PlutoTypeOK, RateInv, NEW t \in Users, NEW rate \in Nat, plutoPc[t] \notin RateWrites,
         EnterSetRate(t, rate), want' \in [Users -> Nat], want'[t] = rate,
         \A u \in Users \ {t} : want'[u] = want[u], UNCHANGED <<chip, current_sample_rate, disturbed>>
  PROVE  RateInv'
<1>1. /\ plutoPc' = [plutoPc EXCEPT ![t] = FirstWrite(rate)]
      /\ alone' = [u \in Users |-> IF u = t THEN {v \in Users \ {t} : plutoPc[v] \in RateWrites} = {}
                                   ELSE alone[u] /\ u \notin {v \in Users \ {t} : plutoPc[v] \in RateWrites}]
  BY DEF EnterSetRate, Goto
<1>2. plutoPc'[t] = FirstWrite(rate) /\ \A u \in Users \ {t} : plutoPc'[u] = plutoPc[u]
  BY <1>1 DEF PlutoTypeOK
<1>3. InRateWrites' = InRateWrites \cup {t}
  BY <1>2, FirstWriteType DEF InRateWrites
<1>4. ASSUME NEW u \in InRateWrites', alone'[u] PROVE InRateWrites' = {u} /\ Written(u)'
  <2>0. u \in Users
    BY DEF InRateWrites
  <2>1. CASE u = t
    <3>1. InRateWrites = {}
      BY <1>1, <1>4, <2>0, <2>1 DEF InRateWrites
    <3>2. Written(t)'
      BY <1>2 DEF Written, FirstWrite
    <3> QED BY <1>3, <2>1, <3>1, <3>2
  <2>2. CASE u # t
    <3>1. u \in {v \in Users \ {t} : plutoPc[v] \in RateWrites}
      BY <1>3, <2>0, <2>2 DEF InRateWrites
    <3> QED BY <1>1, <1>4, <2>0, <2>2, <3>1
  <2> QED BY <2>1, <2>2
<1>5. InRateWrites' # {}
  BY <1>3
<1> QED BY <1>4, <1>5 DEF RateInv

\* A write of plutosdr_set_sample_rate that takes it a step further, or fails.
LEMMA WriteKeepsRate ==
  ASSUME PlutoTypeOK, RateInv, NEW t \in Users, NEW p \in RateWrites, NEW c \in Chips, NEW next \in RateWrites,
         Write(t, p, c, next),
         Written(t) /\ chip' = c /\ plutoPc'[t] = next /\ want'[t] = want[t] => Written(t)'
  PROVE  RateInv'
<1>1. plutoPc[t] = p /\ t \in InRateWrites /\ UNCHANGED current_sample_rate
  BY DEF Write, Calling, InRateWrites
<1>2. CASE chip' = c /\ Goto(t, next) /\ UNCHANGED <<want, alone, disturbed>>
  <2>1. plutoPc'[t] = next /\ \A u \in Users \ {t} : plutoPc'[u] = plutoPc[u]
    BY <1>2 DEF Goto, PlutoTypeOK
  <2>2. InRateWrites' = InRateWrites
    BY <1>1, <2>1 DEF InRateWrites
  <2>3. ASSUME NEW u \in InRateWrites, alone[u] PROVE InRateWrites = {u} /\ Written(u)'
    <3>1. InRateWrites = {u} /\ Written(u)
      BY <2>3 DEF RateInv
    <3>2. u = t
      BY <1>1, <3>1
    <3> QED BY <1>2, <2>1, <3>1, <3>2
  <2> QED BY <1>1, <1>2, <2>2, <2>3 DEF RateInv
<1>3. CASE RateFails(t)
  <2>1. /\ disturbed' = TRUE /\ alone' = [alone EXCEPT ![t] = TRUE]
        /\ plutoPc'[t] \notin RateWrites /\ \A u \in Users \ {t} : plutoPc'[u] = plutoPc[u]
    BY <1>3 DEF RateFails, Goto, PlutoTypeOK, RateWrites
  <2>2. InRateWrites' = InRateWrites \ {t}
    BY <2>1 DEF InRateWrites
  <2>3. ASSUME NEW u \in InRateWrites', alone'[u] PROVE FALSE
    <3>1. u # t /\ u \in InRateWrites /\ u \in Users
      BY <2>2 DEF InRateWrites
    <3>2. alone[u]
      BY <2>1, <2>3, <3>1 DEF PlutoTypeOK
    <3> QED BY <1>1, <3>1, <3>2 DEF RateInv
  <2> QED BY <2>1, <2>3 DEF RateInv
<1> QED BY <1>2, <1>3 DEF Write

LEMMA CacheKeepsRate ==
  ASSUME PlutoTypeOK, RateInv, NEW t \in Users, CacheRate(t) PROVE RateInv'
<1>1. /\ plutoPc[t] = "cache" /\ t \in InRateWrites /\ UNCHANGED chip
      /\ current_sample_rate' = want[t] /\ disturbed' = ~alone[t] /\ alone' = [alone EXCEPT ![t] = TRUE]
  BY DEF CacheRate, Calling, InRateWrites, RateWrites
<1>2. plutoPc'[t] \notin RateWrites /\ \A u \in Users \ {t} : plutoPc'[u] = plutoPc[u]
  BY DEF CacheRate, Return, Goto, PlutoTypeOK, RateWrites
<1>3. InRateWrites' = InRateWrites \ {t}
  BY <1>2 DEF InRateWrites
<1>4. ASSUME NEW u \in InRateWrites', alone'[u] PROVE FALSE
  <2>1. u # t /\ u \in InRateWrites /\ u \in Users
    BY <1>3 DEF InRateWrites
  <2>2. alone[u]
    BY <1>1, <1>4, <2>1 DEF PlutoTypeOK
  <2> QED BY <1>1, <2>1, <2>2 DEF RateInv
<1>5. ASSUME ~disturbed' PROVE RunsAt(current_sample_rate)'
  <2>1. alone[t]
    BY <1>1, <1>5
  <2>2. Written(t)
    BY <1>1, <2>1 DEF RateInv
  <2>3. RunsAt(want[t])
    BY <1>1, <2>2 DEF Written
  <2> QED BY <1>1, <2>3 DEF RunsAt
<1> QED BY <1>4, <1>5 DEF RateInv

LEMMA RateInvStep ==
  ASSUME PlutoTypeOK, PlutoUse, RateInv, PlutoNext PROVE RateInv'
<1>1. CASE PlutoCreateFindsTxLo \/ PlutoCreateEnds
  <2>1. /\ UNCHANGED <<plutoPc, want, current_sample_rate, alone, disturbed>>
        /\ chip'.rate = chip.rate /\ chip'.fir = chip.fir /\ chip'.taps = chip.taps
    BY <1>1 DEF PlutoCreateFindsTxLo, PlutoCreateEnds, PlutoTypeOK, Chips
  <2>2. InRateWrites' = InRateWrites
    BY <2>1 DEF InRateWrites
  <2> QED BY <2>1, <2>2, RateUndisturbed
<1>2. ASSUME NEW rate \in Rates, PlutoCreateSetsRate(rate) PROVE RateInv'
  <2>1. plutoPc["rx"] \notin RateWrites /\ "rx" \in Users /\ UNCHANGED <<chip, current_sample_rate, disturbed>>
    BY <1>2 DEF PlutoCreateSetsRate, RateWrites, Users
  <2>2. CASE Goto("rx", "failed") /\ UNCHANGED <<want, alone>>
    <3>1. plutoPc' = [plutoPc EXCEPT !["rx"] = "failed"]
      BY <2>2 DEF Goto
    <3>2. InRateWrites' = InRateWrites
      BY <2>1, <3>1 DEF InRateWrites, PlutoTypeOK, RateWrites
    <3>3. \A u \in InRateWrites : plutoPc'[u] = plutoPc[u]
      BY <2>1, <3>1 DEF InRateWrites, PlutoTypeOK
    <3> QED BY <2>1, <2>2, <3>2, <3>3, RateUndisturbed
  <2>3. CASE EnterSetRate("rx", rate) /\ want' = [want EXCEPT !["rx"] = rate]
    <3>1. rate \in Nat
      BY PlutoAssumption
    <3>2. want' \in [Users -> Nat] /\ want'["rx"] = rate /\ \A u \in Users \ {"rx"} : want'[u] = want[u]
      BY <2>1, <2>3, <3>1 DEF PlutoTypeOK
    <3> QED BY <2>1, <2>3, <3>1, <3>2, EnterKeepsRate
  <2> QED BY <1>2, <2>2, <2>3 DEF PlutoCreateSetsRate
<1>3. ASSUME NEW t \in Users, RateStep(t) PROVE RateInv'
  <2>0. /\ want[t] \in Nat /\ Decimation(want[t]) \in {0, 2, 4} /\ chip \in Chips
        /\ {"firTaps", "firOn", "rate", "bandwidth", "firOff", "cache"} = RateWrites
    BY DecimationType DEF PlutoTypeOK, RateWrites
  <2>1. CASE CompareRate(t)
    <3>1. plutoPc[t] = "compare" /\ plutoPc[t] \notin RateWrites /\ UNCHANGED <<want, chip, current_sample_rate, disturbed>>
      BY <2>1 DEF CompareRate, Calling, RateWrites
    <3>2. CASE Goto(t, "gain") /\ UNCHANGED alone
      <4>1. plutoPc' = [plutoPc EXCEPT ![t] = "gain"]
        BY <3>2 DEF Goto
      <4>2. InRateWrites' = InRateWrites
        BY <3>1, <4>1 DEF InRateWrites, PlutoTypeOK, RateWrites
      <4>3. \A u \in InRateWrites : plutoPc'[u] = plutoPc[u]
        BY <3>1, <4>1 DEF InRateWrites, PlutoTypeOK
      <4> QED BY <3>1, <3>2, <4>2, <4>3, RateUndisturbed
    <3>3. CASE EnterSetRate(t, want[t])
      BY <2>0, <3>1, <3>3, EnterKeepsRate DEF PlutoTypeOK
    <3> QED BY <2>1, <3>2, <3>3 DEF CompareRate
  <2>2. CASE WriteFirTaps(t)
    <3> DEFINE c == [chip EXCEPT !.taps = Decimation(want[t])]
    <3>1. c \in Chips /\ c.taps = Decimation(want[t])
      BY <2>0 DEF Chips
    <3>2. Write(t, "firTaps", c, "firOn") /\ plutoPc[t] = "firTaps"
      BY <2>2 DEF WriteFirTaps, Write, Calling
    <3> HIDE DEF c
    <3>3. Written(t) /\ chip' = c /\ plutoPc'[t] = "firOn" /\ want'[t] = want[t] => Written(t)'
      BY <3>1, <3>2 DEF Written
    <3> QED BY <2>0, <3>1, <3>2, <3>3, WriteKeepsRate
  <2>3. CASE WriteFirOn(t)
    <3> DEFINE c == [chip EXCEPT !.fir = TRUE]
    <3>1. c \in Chips /\ c.taps = chip.taps /\ c.fir = TRUE
      BY <2>0 DEF Chips
    <3>2. Write(t, "firOn", c, "rate") /\ plutoPc[t] = "firOn"
      BY <2>3 DEF WriteFirOn, Write, Calling
    <3> HIDE DEF c
    <3>3. Written(t) /\ chip' = c /\ plutoPc'[t] = "rate" /\ want'[t] = want[t] => Written(t)'
      BY <3>1, <3>2 DEF Written
    <3> QED BY <2>0, <3>1, <3>2, <3>3, WriteKeepsRate
  <2>4. CASE WriteRate(t)
    <3> DEFINE c == [chip EXCEPT !.rate = want[t]]
    <3>1. c \in Chips /\ c.taps = chip.taps /\ c.fir = chip.fir /\ c.rate = want[t]
      BY <2>0 DEF Chips
    <3>2. Write(t, "rate", c, "bandwidth") /\ plutoPc[t] = "rate"
      BY <2>4 DEF WriteRate, Write, Calling
    <3> HIDE DEF c
    <3>3. Written(t) /\ chip' = c /\ plutoPc'[t] = "bandwidth" /\ want'[t] = want[t] => Written(t)'
      BY <3>1, <3>2 DEF Written
    <3> QED BY <2>0, <3>1, <3>2, <3>3, WriteKeepsRate
  <2>5. CASE WriteBandwidth(t)
    <3>1. CASE Decimation(want[t]) # 0 /\ Write(t, "bandwidth", chip, "cache")
      <4>1. plutoPc[t] = "bandwidth" /\ chip.fir \in BOOLEAN
        BY <2>0, <3>1 DEF Write, Calling, Chips
      <4>2. Written(t) /\ chip' = chip /\ plutoPc'[t] = "cache" /\ want'[t] = want[t] => Written(t)'
        BY <3>1, <4>1 DEF Written, RunsAt
      <4> QED BY <2>0, <3>1, <4>2, WriteKeepsRate
    <3>2. CASE /\ Decimation(want[t]) = 0 /\ Calling(t, "bandwidth") /\ Goto(t, "firOff")
               /\ UNCHANGED <<plutoState, want, current_sample_rate, chip, alone, disturbed, bufferVars>>
      <4>1. plutoPc[t] = "bandwidth" /\ plutoPc'[t] = "firOff" /\ \A u \in Users \ {t} : plutoPc'[u] = plutoPc[u]
        BY <3>2 DEF Calling, Goto, PlutoTypeOK
      <4>2. InRateWrites' = InRateWrites /\ t \in InRateWrites
        BY <2>0, <4>1 DEF InRateWrites
      <4>3. Written(t) => Written(t)'
        BY <3>2, <4>1 DEF Written
      <4>4. \A u \in InRateWrites : alone[u] => u = t
        BY <4>2 DEF RateInv
      <4> QED BY <3>2, <4>2, <4>3, <4>4 DEF RateInv
    <3> QED BY <2>5, <3>1, <3>2 DEF WriteBandwidth
  <2>6. CASE WriteFirOff(t)
    <3> DEFINE c == [chip EXCEPT !.fir = FALSE]
    <3>1. c \in Chips /\ c.rate = chip.rate /\ c.fir = FALSE
      BY <2>0 DEF Chips
    <3>2. Write(t, "firOff", c, "cache") /\ plutoPc[t] = "firOff"
      BY <2>6 DEF WriteFirOff, Write, Calling
    <3> HIDE DEF c
    <3>3. Written(t) /\ chip' = c /\ plutoPc'[t] = "cache" /\ want'[t] = want[t] => Written(t)'
      BY <3>1, <3>2 DEF Written, RunsAt
    <3> QED BY <2>0, <3>1, <3>2, <3>3, WriteKeepsRate
  <2>7. CASE CacheRate(t)
    BY <2>7, CacheKeepsRate
  <2>8. CASE WriteGain(t)
    <3>1. /\ plutoPc[t] = "gain" /\ UNCHANGED <<chip, current_sample_rate, alone, disturbed>>
          /\ plutoPc'[t] \notin RateWrites
          /\ \A u \in Users \ {t} : plutoPc'[u] = plutoPc[u] /\ want'[u] = want[u]
      BY <2>8 DEF WriteGain, Calling, Return, Goto, PlutoTypeOK, RateWrites
    <3>2. InRateWrites' = InRateWrites /\ t \notin InRateWrites /\ InRateWrites \subseteq Users
      BY <3>1 DEF InRateWrites, RateWrites
    <3> QED BY <3>1, <3>2, RateUndisturbed
  <2> QED BY <1>3, <2>1, <2>2, <2>3, <2>4, <2>5, <2>6, <2>7, <2>8 DEF RateStep
<1>4. ASSUME NEW t \in Users, NEW rate \in Rates, PlutoSetParameters(t, rate) PROVE RateInv'
  <2>1. /\ plutoPc[t] = "idle" /\ UNCHANGED <<current_sample_rate, alone, disturbed>>
        /\ plutoPc'[t] \notin RateWrites
        /\ \A u \in Users \ {t} : plutoPc'[u] = plutoPc[u] /\ want'[u] = want[u]
    BY <1>4 DEF PlutoSetParameters, Calling, Return, Goto, PlutoTypeOK, RateWrites
  <2>2. /\ PoweredFor(t).rate = chip.rate /\ PoweredFor(t).fir = chip.fir /\ PoweredFor(t).taps = chip.taps
    BY DEF PoweredFor, PlutoTypeOK, Chips
  <2>3. chip' \in {chip, PoweredFor(t)}
    BY <1>4 DEF PlutoSetParameters
  <2>4. InRateWrites' = InRateWrites /\ t \notin InRateWrites /\ InRateWrites \subseteq Users
    BY <2>1 DEF InRateWrites, RateWrites
  <2> QED BY <2>1, <2>2, <2>3, <2>4, RateUndisturbed
<1>5. CASE PlutoCreateTxBuffer \/ PlutoPush \/ PlutoPushFails \/ \E len \in Frames : PlutoProcessTx(len)
  <2>1. /\ plutoPc["tx"] \notin RateWrites /\ "tx" \in Users /\ UNCHANGED <<chip, current_sample_rate, alone, disturbed>>
        /\ plutoPc'["tx"] \notin RateWrites
        /\ \A u \in Users \ {"tx"} : plutoPc'[u] = plutoPc[u] /\ want'[u] = want[u]
    BY <1>5 DEF PlutoCreateTxBuffer, PlutoPush, PlutoPushFails, PlutoProcessTx, Calling, Return, Goto,
                PlutoTypeOK, RateWrites, Users
  <2>2. InRateWrites' = InRateWrites /\ "tx" \notin InRateWrites /\ InRateWrites \subseteq Users
    BY <2>1 DEF InRateWrites
  <2> QED BY <2>1, <2>2, RateUndisturbed
<1>6. CASE PlutoStartRx \/ PlutoStopRx \/ PlutoDestroy
  <2>1. /\ UNCHANGED <<plutoPc, want, current_sample_rate, alone, disturbed>>
        /\ chip'.rate = chip.rate /\ chip'.fir = chip.fir /\ chip'.taps = chip.taps
    BY <1>6 DEF PlutoStartRx, PlutoStopRx, PlutoDestroy, PlutoTypeOK, Chips
  <2>2. InRateWrites' = InRateWrites
    BY <2>1 DEF InRateWrites
  <2> QED BY <2>1, <2>2, RateUndisturbed
<1> QED BY <1>1, <1>2, <1>3, <1>4, <1>5, <1>6 DEF PlutoNext

-----------------------------------------------------------------------------
(* airspy.c *)

\* The tuner runs at the cached rate unless the last write of it failed, and with the gain
\* control that the last call reported.
TunerInv ==
  /\ tuner \in [rate : Int, agc : BOOLEAN]
  /\ airspyState = "creating" => airspyCode = -1
  /\ ~rateLost => tuner.rate = airspyRate
  /\ airspyCode = 0 /\ ~rateLost => tuner.agc = AgcOf(gain_mode)

LEMMA AgcType == ASSUME NEW mode PROVE AgcOf(mode) \in BOOLEAN
  BY DEF AgcOf

LEMMA TunerStep ==
  ASSUME TunerInv, AirspyNext PROVE TunerInv'
<1>1. CASE AirspyCreate
  <2>1. airspyCode' = airspyCode /\ gain_mode' = gain_mode /\ airspyCode = -1 /\ airspyState' # "creating"
    BY <1>1 DEF AirspyCreate, TunerInv
  <2>2. CASE UNCHANGED <<airspyRate, tuner, rateLost>>
    BY <2>1, <2>2 DEF TunerInv
  <2>3. ASSUME NEW rate \in TunerRates, NEW ok \in BOOLEAN, AirspySetRate(rate, ok) PROVE TunerInv'
    <3>1. rate \in Int
      BY AirspyAssumption
    <3>2. CASE ~ok
      BY <2>1, <2>3, <3>1, <3>2 DEF AirspySetRate, TunerInv
    <3>3. CASE ok
      <4>1. airspyRate' = rate /\ tuner' = [tuner EXCEPT !.rate = rate] /\ rateLost' = FALSE
        BY <2>3, <3>3 DEF AirspySetRate
      <4>2. airspyCode' # 0
        BY <2>1
      <4> QED BY <2>1, <3>1, <4>1, <4>2 DEF TunerInv
    <3> QED BY <3>2, <3>3
  <2> QED BY <1>1, <2>2, <2>3 DEF AirspyCreate
<1>2. CASE AirspyRefuses
  BY <1>2 DEF AirspyRefuses, TunerInv
<1>3. ASSUME NEW rate \in TunerRates, AirspySetParameters(rate) PROVE TunerInv'
  <2>1. rate \in Int /\ gain_mode' = gain_mode /\ airspyState' # "creating" /\ AgcOf(gain_mode) \in BOOLEAN
    BY <1>3, AirspyAssumption, AgcType DEF AirspySetParameters
  <2>2. CASE airspyRate = rate /\ AirspyTuneAndGain(tuner) /\ UNCHANGED <<airspyRate, rateLost>>
    BY <2>1, <2>2 DEF AirspyTuneAndGain, TunerInv
  <2>3. CASE AirspyTuneAndGain([tuner EXCEPT !.rate = rate]) /\ airspyRate' = rate /\ rateLost' = FALSE
    <3> DEFINE at == [tuner EXCEPT !.rate = rate]
    <3>1. at \in [rate : Int, agc : BOOLEAN] /\ at.rate = rate
      BY <2>1 DEF TunerInv
    <3>2. AirspyTuneAndGain(at)
      BY <2>3
    <3> HIDE DEF at
    <3> QED BY <2>1, <2>3, <3>1, <3>2 DEF AirspyTuneAndGain, TunerInv
  <2>4. CASE AirspySetRate(rate, FALSE) /\ airspyCode' = -1
    BY <2>1, <2>4 DEF AirspySetRate, TunerInv
  <2> QED BY <1>3, <2>2, <2>3, <2>4 DEF AirspySetParameters
<1>4. CASE \/ AirspyStartRx \/ AirspyStage \/ AirspyStopRx \/ AirspyDestroy
           \/ \E n \in Transfers : AirspyTransfer(n)
  BY <1>4 DEF AirspyStartRx, AirspyStage, AirspyStopRx, AirspyDestroy, AirspyTransfer, tunerVars, TunerInv
<1> QED BY <1>1, <1>2, <1>3, <1>4 DEF AirspyNext

\* The counters are numbers, and a stream that was stopped has no block in hand.
StagingTypes ==
  /\ staging_len \in 0..(StagingSize - 1)
  /\ remaining \in Nat /\ received \in Nat /\ delivered \in Nat
  /\ streaming \in BOOLEAN
  /\ ~streaming => remaining = 0

StagingInv == StagingTypes /\ StagingConserves

\* One block more or less: the product is a number, and distributes over the new block.
LEMMA OneBlockMore ==
  ASSUME NEW d \in Nat, NEW s \in Nat
  PROVE  d * s \in Nat /\ (d + 1) * s = d * s + s
  OBVIOUS

\* One turn of the loop of airspy_rx_callback moves len samples from the block into the
\* staging buffer, or with it into a delivered block.
LEMMA StageStep == ASSUME StagingInv, AirspyStage PROVE StagingInv'
<1> DEFINE free == StagingSize - staging_len
           len  == IF free > remaining THEN remaining ELSE free
<1>1. /\ StagingSize \in Nat \ {0} /\ staging_len \in Nat /\ staging_len < StagingSize
      /\ remaining \in Nat /\ remaining > 0 /\ received \in Nat /\ delivered \in Nat
      /\ streaming \in BOOLEAN
      /\ ~streaming => remaining = 0
  BY AirspyAssumption DEF StagingInv, StagingTypes, AirspyStage
<1>2. len \in Nat /\ len <= remaining /\ len >= 1 /\ staging_len + len <= StagingSize
  BY <1>1
<1>3. remaining' = remaining - len /\ received' = received /\ streaming' = streaming
  BY DEF AirspyStage
<1>4. received = delivered * StagingSize + staging_len + remaining
  BY DEF StagingInv, StagingConserves
<1>5. streaming
  BY <1>1
<1> DEFINE blocks == delivered * StagingSize
<1>6. blocks \in Nat /\ (delivered + 1) * StagingSize = blocks + StagingSize
  BY <1>1, OneBlockMore
<1> HIDE DEF len, blocks
<1>7. CASE staging_len + len = StagingSize
  <2>1. staging_len' = 0 /\ delivered' = delivered + 1
    BY <1>7, <1>1 DEF AirspyStage, len
  <2>2. received' = blocks + StagingSize + staging_len' + remaining'
    BY <2>1, <1>1, <1>2, <1>3, <1>4, <1>6, <1>7 DEF blocks
  <2>3. StagingConserves'
    BY <2>1, <2>2, <1>1, <1>6 DEF StagingConserves
  <2> QED BY <2>1, <2>3, <1>1, <1>2, <1>3, <1>5 DEF StagingInv, StagingTypes
<1>8. CASE staging_len + len # StagingSize
  <2>1. staging_len' = staging_len + len /\ delivered' = delivered
    BY <1>8, <1>1 DEF AirspyStage, len
  <2>2. staging_len' \in 0..(StagingSize - 1)
    BY <2>1, <1>1, <1>2, <1>8
  <2>3. received' = blocks + staging_len' + remaining'
    BY <2>1, <1>1, <1>2, <1>3, <1>4, <1>6 DEF blocks
  <2>4. StagingConserves'
    BY <2>1, <2>2, <2>3 DEF StagingConserves, blocks
  <2> QED BY <2>1, <2>2, <2>4, <1>1, <1>2, <1>3, <1>5 DEF StagingInv, StagingTypes
<1> QED BY <1>7, <1>8

LEMMA StagingInit == ASSUME AirspyInit PROVE StagingInv
<1>1. 0 * StagingSize = 0
  BY AirspyAssumption
<1>2. ASSUME AirspyInit PROVE StagingTypes
  <2>1. staging_len = 0 /\ remaining = 0 /\ received = 0 /\ delivered = 0 /\ streaming = FALSE
    BY <1>2 DEF AirspyInit
  <2>2. 0 \in 0..(StagingSize - 1)
    BY AirspyAssumption
  <2> QED BY <2>1, <2>2 DEF StagingTypes
<1>3. ASSUME AirspyInit PROVE StagingConserves
  BY <1>1, <1>3, AirspyAssumption DEF AirspyInit, StagingConserves
<1> QED BY <1>2, <1>3 DEF StagingInv

LEMMA StagingStep == ASSUME StagingInv, AirspyNext PROVE StagingInv'
<1> USE DEF streamVars
<1>1. CASE UNCHANGED streamVars
  BY <1>1 DEF StagingInv, StagingTypes, StagingConserves
<1>2. CASE AirspyCreate \/ AirspyRefuses \/ \E rate \in TunerRates : AirspySetParameters(rate)
  BY <1>1, <1>2 DEF AirspyCreate, AirspyRefuses, AirspySetParameters
<1>3. CASE AirspyStartRx
  <2>1. staging_len' = 0 /\ received' = 0 /\ delivered' = 0 /\ remaining' = 0 /\ streaming' \in BOOLEAN
    BY <1>3 DEF AirspyStartRx, StagingInv, StagingTypes
  <2> QED BY <2>1, AirspyAssumption DEF StagingInv, StagingTypes, StagingConserves
<1>4. ASSUME NEW n \in Transfers, AirspyTransfer(n) PROVE StagingInv'
  <2>1. n \in Nat
    BY AirspyAssumption
  <2>2. /\ remaining = 0 /\ remaining' = n /\ received' = received + n /\ streaming /\ streaming' = streaming
        /\ staging_len' = staging_len /\ delivered' = delivered
    BY <1>4 DEF AirspyTransfer
  <2> DEFINE blocks == delivered * StagingSize
  <2>3. blocks \in Nat
    BY OneBlockMore, AirspyAssumption DEF StagingInv, StagingTypes
  <2>4. received' = blocks + staging_len' + remaining'
    BY <2>1, <2>2, <2>3 DEF StagingInv, StagingTypes, StagingConserves
  <2> QED BY <2>1, <2>2, <2>4 DEF StagingInv, StagingTypes, StagingConserves
<1>5. CASE AirspyStage
  BY <1>5, StageStep
<1>6. CASE AirspyStopRx \/ AirspyDestroy
  BY <1>6 DEF AirspyStopRx, AirspyDestroy, StagingInv, StagingTypes, StagingConserves
<1> QED BY <1>2, <1>3, <1>4, <1>5, <1>6 DEF AirspyNext

-----------------------------------------------------------------------------
(* sdr_file.c *)

\* Up to the last chunk the samples read are the bytes read; with it, or when the end was
\* reported, what is left of the file is less than a sample.
FileInv ==
  /\ fileSize \in Nat /\ bytesLeft \in Nat /\ samplesRead \in Nat /\ rxFile \in Kinds
  /\ \/ fileSize = samplesRead * BytesPerSample(rx_format) + bytesLeft
     \/ bytesLeft = 0 /\ samplesRead = fileSize \div BytesPerSample(rx_format)
  /\ rxEnded /\ ~readFailed /\ rxFile # "none" =>
       bytesLeft < BytesPerSample(rx_format) /\ (rxFile = "gz" => bytesLeft = 0)

LEMMA BytesType == BytesPerSample(rx_format) \in Nat \ {0}
  BY DEF BytesPerSample

LEMMA Quotient ==
  ASSUME NEW n \in Nat, NEW q \in Nat, NEW d \in Nat \ {0}, NEW r \in Nat, n = q * d + r
  PROVE  n \div d = q + r \div d /\ r \div d \in Nat
<1>1. q * d \in Nat
  OBVIOUS
<1> DEFINE p == r \div d
<1>2. p \in Nat /\ p * d <= r /\ r < p * d + d
  OBVIOUS
<1>3. (q + p) * d = q * d + p * d /\ p * d \in Nat
  BY <1>2
<1> HIDE DEF p
<1>4. (q + p) * d <= n /\ n < (q + p) * d + d
  BY <1>1, <1>2, <1>3
<1>5. n \div d = q + p
  BY <1>2, <1>4
<1> QED BY <1>2, <1>5 DEF p

LEMMA WholeChunk ==
  ASSUME NEW c \in Nat, NEW d \in Nat \ {0}
  PROVE  c * d \in Nat /\ (c * d) \div d = c
  OBVIOUS

LEMMA SmallQuotient ==
  ASSUME NEW r \in Nat, NEW d \in Nat \ {0}, r \div d = 0
  PROVE  r < d
  OBVIOUS

LEMMA ReadStep ==
  ASSUME FileInv, FileProcessRx PROVE FileInv'
<1> DEFINE d == BytesPerSample(rx_format)
           wanted == ChunkSize * d
           bytes == IF bytesLeft < wanted THEN bytesLeft ELSE wanted
<1>1. d \in Nat \ {0} /\ ChunkSize \in Nat \ {0} /\ fileSize \in Nat /\ bytesLeft \in Nat /\ samplesRead \in Nat
  BY BytesType, FileAssumption DEF FileInv
<1>2. UNCHANGED <<fileSize, rx_format, rxFile, readFailed>> /\ BytesPerSample(rx_format)' = d
  BY DEF FileProcessRx, fileSettings, BytesPerSample
<1>3. \/ AtEnd(bytes) /\ rxEnded' = TRUE /\ UNCHANGED <<bytesLeft, samplesRead>>
      \/ ~AtEnd(bytes) /\ bytesLeft' = bytesLeft - bytes /\ samplesRead' = samplesRead + bytes \div d /\ UNCHANGED rxEnded
  BY DEF FileProcessRx
<1>4. /\ rxFile \in {"none", "plain", "gz"}
      /\ rxFile = "plain" => AtEnd(bytes) = (bytes \div d = 0)
      /\ rxFile = "gz" => AtEnd(bytes) = (bytes = 0)
      /\ rxFile = "none" => AtEnd(bytes)
  <2> HIDE DEF bytes
  <2> QED BY DEF AtEnd, FileInv, Kinds
<1>5. \/ fileSize = samplesRead * d + bytesLeft
      \/ bytesLeft = 0 /\ samplesRead = fileSize \div d
  BY DEF FileInv
<1>6. rxEnded /\ ~readFailed /\ rxFile # "none" => bytesLeft < d /\ (rxFile = "gz" => bytesLeft = 0)
  BY DEF FileInv
<1> HIDE DEF d
<1>7. wanted \in Nat /\ wanted \div d = ChunkSize /\ wanted >= d
  <2>1. wanted \in Nat /\ wanted \div d = ChunkSize
    BY <1>1, WholeChunk
  <2>2. ChunkSize * d >= d
    BY <1>1
  <2> QED BY <2>1, <2>2
<1> HIDE DEF wanted
<1>8. bytes \in Nat /\ bytes <= bytesLeft /\ (bytes = bytesLeft \/ bytes = wanted)
  BY <1>1, <1>7
<1>9. CASE AtEnd(bytes)
  <2>1. rxEnded' = TRUE /\ UNCHANGED <<bytesLeft, samplesRead>>
    BY <1>3, <1>9
  <2>2. ASSUME rxFile = "plain" PROVE bytesLeft < d
    <3>1. bytes \div d = 0
      BY <1>4, <1>9, <2>2
    <3>2. bytes < d
      <4> HIDE DEF bytes
      <4> QED BY <1>1, <1>8, <3>1, SmallQuotient
    <3> QED BY <1>1, <1>7, <1>8, <3>2
  <2>3. ASSUME rxFile = "gz" PROVE bytesLeft = 0
    <3>1. bytes = 0
      BY <1>4, <1>9, <2>3
    <3> QED BY <1>1, <1>7, <3>1
  <2> QED BY <1>1, <1>2, <1>4, <1>5, <2>1, <2>2, <2>3 DEF FileInv, d, Kinds
<1>10. CASE ~AtEnd(bytes)
  <2>1. bytesLeft' = bytesLeft - bytes /\ samplesRead' = samplesRead + bytes \div d /\ UNCHANGED rxEnded
    BY <1>3, <1>10
  <2>2. (rxFile = "plain" /\ bytes \div d # 0) \/ (rxFile = "gz" /\ bytes # 0)
    BY <1>4, <1>10
  <2> HIDE DEF bytes
  <2>3. bytes < d => bytes \div d = 0
    BY <1>1, <1>8
  <2>4. bytesLeft # 0
    BY <1>1, <1>8, <2>2, <2>3
  <2>5. ~rxEnded \/ readFailed
    BY <1>1, <1>6, <1>8, <2>2, <2>3
  <2>6. fileSize = samplesRead * d + bytesLeft
    BY <1>5, <2>4
  <2>7. CASE bytes = bytesLeft
    <3>1. bytesLeft' = 0
      BY <1>1, <2>1, <2>7
    <3>2. samplesRead' = fileSize \div d /\ samplesRead' \in Nat
      <4>1. fileSize \div d = samplesRead + bytesLeft \div d /\ bytesLeft \div d \in Nat
        BY <1>1, <2>6, Quotient
      <4> QED BY <1>1, <2>1, <2>7, <4>1
    <3> QED BY <1>1, <1>2, <1>4, <2>1, <2>5, <3>1, <3>2 DEF FileInv, d, Kinds
  <2>8. CASE bytes = wanted
    <3>1. samplesRead' = samplesRead + ChunkSize /\ bytesLeft' = bytesLeft - wanted /\ bytesLeft' \in Nat
      BY <1>1, <1>7, <1>8, <2>1, <2>8
    <3>2. (samplesRead + ChunkSize) * d = samplesRead * d + wanted /\ samplesRead * d \in Nat
      BY <1>1 DEF wanted
    <3>3. fileSize = samplesRead' * d + bytesLeft'
      BY <1>1, <1>7, <2>6, <3>1, <3>2
    <3>4. samplesRead' \in Nat
      BY <1>1, <3>1
    <3> QED BY <1>1, <1>2, <1>4, <2>1, <2>5, <3>1, <3>3, <3>4 DEF FileInv, d, Kinds
  <2> QED BY <1>8, <2>7, <2>8
<1> QED BY <1>9, <1>10

LEMMA ReadFailsStep ==
  ASSUME FileInv, FileReadFails PROVE FileInv'
<1> DEFINE d == BytesPerSample(rx_format)
<1>1. d \in Nat \ {0} /\ ChunkSize \in Nat \ {0} /\ fileSize \in Nat /\ bytesLeft \in Nat /\ samplesRead \in Nat
  BY BytesType, FileAssumption DEF FileInv
<1>2. UNCHANGED <<fileSize, rx_format, rxFile>> /\ BytesPerSample(rx_format)' = d
  BY DEF FileReadFails, fileSettings, BytesPerSample
<1>3. CASE rxEnded' = TRUE /\ readFailed' = TRUE /\ UNCHANGED <<bytesLeft, samplesRead>>
  BY <1>2, <1>3 DEF FileInv
<1>4. CASE /\ rxFile = "plain" /\ UNCHANGED <<rxEnded, readFailed>>
           /\ \E n \in 1..(ChunkSize - 1) :
                n * d <= bytesLeft /\ bytesLeft' = bytesLeft - n * d /\ samplesRead' = samplesRead + n
  <2>1. PICK n \in 1..(ChunkSize - 1) :
                n * d <= bytesLeft /\ bytesLeft' = bytesLeft - n * d /\ samplesRead' = samplesRead + n
    BY <1>4
  <2>2. \/ fileSize = samplesRead * d + bytesLeft
        \/ bytesLeft = 0 /\ samplesRead = fileSize \div d
    BY DEF FileInv
  <2>3. rxEnded /\ ~readFailed /\ rxFile # "none" => bytesLeft < d
    BY DEF FileInv
  <2>4. rxFile \in Kinds
    BY DEF FileInv
  <2> HIDE DEF d
  <2>5. n \in Nat /\ n > 0 /\ n * d \in Nat /\ n * d >= d /\ (samplesRead + n) * d = samplesRead * d + n * d
        /\ samplesRead * d \in Nat
    BY <1>1
  <2>6. bytesLeft # 0 /\ bytesLeft >= d /\ bytesLeft' \in Nat /\ samplesRead' \in Nat
    BY <1>1, <2>1, <2>5
  <2>7. fileSize = samplesRead' * d + bytesLeft'
    BY <1>1, <2>1, <2>2, <2>5, <2>6
  <2>8. ~rxEnded \/ readFailed
    BY <1>1, <1>4, <2>3, <2>6
  <2> QED BY <1>1, <1>2, <1>4, <2>4, <2>6, <2>7, <2>8 DEF FileInv, d
<1> QED BY <1>3, <1>4 DEF FileReadFails

LEMMA FileStep ==
  ASSUME FileInv, SdrFileNext PROVE FileInv'
<1>1. CASE FileProcessRx
  BY <1>1, ReadStep
<1>2. CASE FileCreate \/ FileWriteChunk \/ FileDestroy \/ \E len \in TxLengths : FileProcessTx(len)
  BY <1>2 DEF FileCreate, FileWriteChunk, FileDestroy, FileProcessTx, fileSettings, FileInv, BytesPerSample
<1>3. CASE FileReadFails
  BY <1>3, ReadFailsStep
<1> QED BY <1>1, <1>2, <1>3 DEF SdrFileNext

-----------------------------------------------------------------------------
(* The device *)

DeviceInv == PlutoTypeOK /\ PlutoUse /\ BuffersOwned /\ RateInv /\ TunerInv /\ StagingInv
             /\ FileInv

LEMMA DeviceInvInit == ASSUME DeviceInit PROVE DeviceInv
<1>1. PlutoTypeOK
  BY PlutoTypeInit DEF DeviceInit
<1>2. PlutoUse /\ BuffersOwned
  BY DEF DeviceInit, PlutoInit, PlutoUse, BuffersOwned, Users
<1>3. RateInv
  <2>1. InRateWrites = {}
    BY DEF DeviceInit, PlutoInit, InRateWrites, RateWrites
  <2>2. PICK rate \in Rates \cap {r \in Nat : r >= MIN_FIR_FILTER}, lo \in BOOLEAN :
          /\ chip = [rate |-> rate, fir |-> Decimation(rate) # 0, taps |-> Decimation(rate), txLo |-> lo]
          /\ current_sample_rate = rate
    BY DEF DeviceInit, PlutoInit
  <2>3. RunsAt(current_sample_rate)
    BY <2>2 DEF RunsAt
  <2> QED BY <2>1, <2>3 DEF RateInv
<1>4. TunerInv
  BY DEF DeviceInit, AirspyInit, TunerInv
<1>5. FileInv
  <2>1. fileSize \in Nat /\ bytesLeft = fileSize /\ samplesRead = 0 /\ rxEnded = FALSE /\ rxFile \in Kinds
    BY FileAssumption DEF DeviceInit, SdrFileInit
  <2>2. 0 * BytesPerSample(rx_format) = 0
    BY BytesType
  <2> QED BY <2>1, <2>2 DEF FileInv
<1> QED BY <1>1, <1>2, <1>3, <1>4, <1>5, StagingInit DEF DeviceInv, DeviceInit

LEMMA DeviceInvStep == ASSUME DeviceInv, [DeviceNext]_deviceVars PROVE DeviceInv'
<1> DEFINE PlutoPart == PlutoTypeOK /\ PlutoUse /\ BuffersOwned /\ RateInv
<1>1. ASSUME UNCHANGED plutoVars PROVE PlutoPart'
  <2>1. PlutoTypeOK' /\ PlutoUse' /\ BuffersOwned'
    BY <1>1 DEF plutoVars, DeviceInv, PlutoTypeOK, PlutoUse, BuffersOwned
  <2>2. RateInv'
    BY <1>1 DEF plutoVars, DeviceInv, RateInv, RunsAt, Written, InRateWrites
  <2> QED BY <2>1, <2>2
<1>2. ASSUME UNCHANGED airspyVars PROVE TunerInv' /\ StagingInv'
  BY <1>2 DEF airspyVars, DeviceInv, TunerInv, StagingInv, StagingTypes, StagingConserves
<1>3. ASSUME UNCHANGED fileVars PROVE FileInv'
  BY <1>3 DEF fileVars, DeviceInv, FileInv, BytesPerSample
<1>4. CASE PlutoNext /\ UNCHANGED <<sdr_type, airspyVars, fileVars>>
  BY <1>2, <1>3, <1>4, PlutoTypeStep, PlutoUseStep, BuffersOwnedStep, RateInvStep DEF DeviceInv
<1>5. CASE AirspyNext /\ UNCHANGED <<sdr_type, plutoVars, fileVars>>
  BY <1>1, <1>3, <1>5, TunerStep, StagingStep DEF DeviceInv
<1>6. CASE SdrFileNext /\ UNCHANGED <<sdr_type, plutoVars, airspyVars>>
  BY <1>1, <1>2, <1>6, FileStep DEF DeviceInv
<1>7. CASE UNCHANGED deviceVars
  BY <1>1, <1>2, <1>3, <1>7 DEF deviceVars, DeviceInv
<1> QED BY <1>4, <1>5, <1>6, <1>7 DEF DeviceNext

LEMMA DeviceInvariant == DeviceSpec => []DeviceInv
  BY DeviceInvInit, DeviceInvStep, PTL DEF DeviceSpec

\* A change of the sample rate that completed alone has left the radio as the cached rates of
\* plutosdr.c and airspy.c say, with the filter and the gain control that go with them, until a
\* change fails or overlaps another.
THEOREM RadioRunsAsReported == DeviceSpec => []ConfiguredAsReported
<1>1. DeviceInv => ConfiguredAsReported
  <2> SUFFICES ASSUME DeviceInv PROVE ConfiguredAsReported
    OBVIOUS
  <2>1. ASSUME ~disturbed, \A t \in Users : plutoPc[t] \notin RateWrites
        PROVE  /\ chip.rate = current_sample_rate
               /\ chip.fir = (Decimation(current_sample_rate) # 0)
               /\ chip.fir => chip.taps = Decimation(current_sample_rate)
    <3>1. InRateWrites = {}
      BY <2>1 DEF InRateWrites
    <3> QED BY <2>1, <3>1 DEF DeviceInv, RateInv, RunsAt
  <2>2. ASSUME airspyCode = 0, ~rateLost PROVE tuner = [rate |-> airspyRate, agc |-> gain_mode = "auto"]
    <3>1. tuner \in [rate : Int, agc : BOOLEAN] /\ tuner.rate = airspyRate /\ tuner.agc = AgcOf(gain_mode)
      BY <2>2 DEF DeviceInv, TunerInv
    <3>2. tuner = [rate |-> airspyRate, agc |-> AgcOf(gain_mode)]
      BY <3>1
    <3> QED BY <3>2 DEF AgcOf
  <2> QED BY <2>1, <2>2 DEF ConfiguredAsReported
<1> QED BY <1>1, DeviceInvariant, PTL

\* plutosdr.c neither leaks a buffer of libiio nor destroys or uses one twice.
THEOREM BuffersAreOwned == DeviceSpec => []BuffersOwned
<1>1. DeviceInv => BuffersOwned
  BY DEF DeviceInv
<1> QED BY <1>1, DeviceInvariant, PTL

\* plutosdr_process_tx never pushes samples with the oscillator powered down.
THEOREM TransmissionIsPowered == DeviceSpec => []TransmitsPowered
<1>1. DeviceInv => TransmitsPowered
  BY DEF DeviceInv, PlutoUse, PlutoTypeOK, TransmitsPowered, Users
<1> QED BY <1>1, DeviceInvariant, PTL

\* Between airspy_start_rx and airspy_stop_rx every sample that libairspy delivers is handed
\* on exactly once, in blocks of exactly sdr_buffer_len.
THEOREM StagingCorrect == DeviceSpec => []StagingConserves
<1>1. DeviceInv => StagingConserves
  BY DEF DeviceInv, StagingInv
<1> QED BY <1>1, DeviceInvariant, PTL

\* As long as no read fails, sdr_file_process_rx reports the end only behind the last whole
\* sample, for every format, size of the file and length of the chunks.
THEOREM FileIsReadWhole == DeviceSpec => []WholeFileRead
<1>1. DeviceInv => WholeFileRead
  <2> SUFFICES ASSUME DeviceInv, rxEnded, ~readFailed, rxFile # "none"
               PROVE  samplesRead = fileSize \div BytesPerSample(rx_format)
    BY DEF WholeFileRead
  <2> DEFINE d == BytesPerSample(rx_format)
  <2>1. /\ d \in Nat \ {0} /\ fileSize \in Nat /\ bytesLeft \in Nat /\ samplesRead \in Nat /\ bytesLeft < d
        /\ (fileSize = samplesRead * d + bytesLeft \/ samplesRead = fileSize \div d)
    BY BytesType DEF DeviceInv, FileInv
  <2> HIDE DEF d
  <2>2. bytesLeft \div d = 0
    BY <2>1
  <2>3. samplesRead = fileSize \div d
    BY <2>1, <2>2, Quotient
  <2> QED BY <2>3 DEF d
<1> QED BY <1>1, DeviceInvariant, PTL
=============================================================================
