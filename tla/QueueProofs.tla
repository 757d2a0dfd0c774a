----------------------------- MODULE QueueProofs -----------------------------
(***************************************************************************)
(* The queue (src/queue.c), for any number of producers, any messages and  *)
(* any queue size: module Queue implements a bounded FIFO, and the         *)
(* pointers of module QueueList form the lists of Queue.                   *)
(***************************************************************************)
EXTENDS QueueList, TLAPS

\* Facts about the list operations of the queue.
LEMMA EmptyFacts == \A S : <<>> \in Seq(S)
  OBVIOUS

LEMMA AppendFacts ==
  ASSUME NEW S, NEW s \in Seq(S), NEW e \in S
  PROVE  /\ Append(s, e) \in Seq(S)
         /\ Append(s, e) # <<>>
         /\ Len(Append(s, e)) = Len(s) + 1
         /\ DOMAIN Append(s, e) = 1..(Len(s) + 1)
         /\ \A i \in 1..Len(s) : Append(s, e)[i] = s[i]
         /\ Append(s, e)[Len(s) + 1] = e
  OBVIOUS

LEMMA TailFacts ==
  ASSUME NEW S, NEW s \in Seq(S), s # <<>>
  PROVE  /\ Head(s) \in S
         /\ Head(s) = s[1]
         /\ Tail(s) \in Seq(S)
         /\ Len(Tail(s)) = Len(s) - 1
         /\ Len(s) \in Nat /\ Len(s) >= 1
         /\ DOMAIN s = 1..Len(s)
         /\ DOMAIN Tail(s) = 1..(Len(s) - 1)
         /\ \A i \in 1..(Len(s) - 1) : Tail(s)[i] = s[i + 1]
  OBVIOUS

LEMMA ConcatFacts ==
  ASSUME NEW S, NEW s \in Seq(S), NEW t \in Seq(S)
  PROVE  /\ s \o t \in Seq(S)
         /\ Len(s \o t) = Len(s) + Len(t)
         /\ DOMAIN (s \o t) = 1..(Len(s) + Len(t))
         /\ \A i \in 1..Len(s) : (s \o t)[i] = s[i]
         /\ \A i \in 1..Len(t) : (s \o t)[Len(s) + i] = t[i]
  OBVIOUS

LEMMA BroadcastType ==
  ASSUME NEW c \in [Threads -> {"running", "waiting", "woken"}]
  PROVE  /\ Broadcast(c) \in [Threads -> {"running", "waiting", "woken"}]
         /\ \A t \in Threads : Broadcast(c)[t] # "waiting"
  BY Zenon DEF Broadcast

-----------------------------------------------------------------------------
\* Every step keeps the types of queue.c's state, whatever call it belongs to.
LEMMA TypeStep == TypeOK /\ [Next]_vars => TypeOK'
  <1> SUFFICES ASSUME TypeOK, [Next]_vars
               PROVE  TypeOK'
    BY Zenon
  <1>blk. blocking' = blocking
    BY Zenon DEF Next, Stopped, vars
  <1> USE QueueAssumption, <1>blk
  <1>fail. ASSUME NEW p \in Producers, PutFails(p) PROVE TypeOK'
    BY <1>fail, Zenon DEF TypeOK, PutFails, Threads
  <1>wait. ASSUME NEW p \in Producers, NEW m \in Messages \cup {NULL}, PutWaits(p, m)
           PROVE  TypeOK'
    BY <1>wait, Zenon DEF TypeOK, PutWaits, Waiting, Threads
  <1>fill. ASSUME NEW p \in Producers, NEW m \in Messages \cup {NULL}, PutFills(p, m)
           PROVE  TypeOK'
    <2>1. cond' \in [Threads -> {"running", "waiting", "woken"}]
      BY <1>fill, BroadcastType, Zenon DEF TypeOK, PutFills, Threads
    <2>2. free' \in Seq(Nodes) /\ filled' \in Seq(Nodes)
      <3>1. CASE free # <<>>
        <4>1. Head(free) \in Nodes /\ Tail(free) \in Seq(Nodes)
          BY <3>1, TailFacts, Zenon DEF TypeOK
        <4>2. Append(filled, Head(free)) \in Seq(Nodes)
          BY <4>1, AppendFacts, Zenon DEF TypeOK
        <4> QED BY <1>fill, <3>1, <4>1, <4>2, Zenon DEF TypeOK, PutFills
      <3>2. CASE free = <<>>
        BY <1>fill, <3>2, Zenon DEF TypeOK, PutFills
      <3> QED BY <3>1, <3>2, Zenon
    <2>3. buffer' \in [Nodes -> Messages \cup {NULL}]
      BY <1>fill, Zenon DEF TypeOK, PutFills
    <2> QED BY <1>fill, <2>1, <2>2, <2>3, Zenon DEF TypeOK, PutFills
  <1>detach. ASSUME filled # <<>>, Detach PROVE TypeOK'
    BY <1>detach, TailFacts, Zenon DEF TypeOK, Detach, Threads
  <1>1. ASSUME NEW p \in Producers, NEW m \in Messages, Put(p, m) PROVE TypeOK'
    BY <1>1, <1>fail, <1>wait, <1>fill, Zenon DEF Put
  <1>2. ASSUME NEW p \in Producers, PutResume(p) PROVE TypeOK'
    BY <1>2, <1>fail, <1>wait, <1>fill, Zenon DEF PutResume, TypeOK
  <1>3. CASE Take
    <2>1. CASE filled # <<>> BY <1>3, <2>1, <1>detach, Zenon DEF Take
    <2>2. CASE filled = <<>> BY <1>3, <2>2, Zenon DEF Take, TypeOK, Waiting, Threads
    <2> QED BY <2>1, <2>2, Zenon
  <1>4. CASE Peak
    BY <1>4, <1>detach, Zenon DEF Peak
  <1>5. CASE Complete
    BY <1>5, BroadcastType, AppendFacts, Zenon DEF Complete, TypeOK
  <1>6. CASE Interrupt
    BY <1>6, BroadcastType, Zenon DEF Interrupt, TypeOK
  <1>7. CASE Reset
    <2>1. free \o filled \in Seq(Nodes)
      BY ConcatFacts, Zenon DEF TypeOK
    <2> QED BY <1>7, <2>1, EmptyFacts, Zenon DEF Reset, TypeOK
  <1>8. CASE Destroy
    BY <1>8, Zenon DEF Destroy, TypeOK
  <1>9. ASSUME NEW t \in Threads, SpuriousWakeup(t) PROVE TypeOK'
    BY <1>9, Zenon DEF SpuriousWakeup, TypeOK
  <1>10. CASE UNCHANGED vars
    BY <1>10, Zenon DEF vars, TypeOK
  <1> QED
    BY <1>1, <1>2, <1>3, <1>4, <1>5, <1>6, <1>7, <1>8, <1>9, <1>10, Zenon DEF Next, Stopped

LEMMA TypeInit == Init => TypeOK
  <1> SUFFICES ASSUME Init PROVE TypeOK
    BY Zenon
  <1>1. [i \in Nodes |-> i] \in Seq(Nodes)
    BY QueueAssumption DEF Nodes
  <1> QED BY <1>1, EmptyFacts, Zenon DEF Init, TypeOK

\* The state of the queue is well typed in every behaviour of queue.c.
THEOREM TypeCorrect == Spec => []TypeOK
  BY TypeInit, TypeStep, PTL DEF Spec

-----------------------------------------------------------------------------
\* What the list operations do to the set of nodes on a list.
LEMMA OnEmpty == \A n : ~On(n, <<>>)
  BY DEF On

LEMMA OnAppend ==
  ASSUME NEW s \in Seq(Nodes), NEW e \in Nodes
  PROVE  \A n : On(n, Append(s, e)) <=> On(n, s) \/ n = e
  <1>1. DOMAIN s = 1..Len(s) /\ Len(s) \in Nat
    OBVIOUS
  <1>2. ASSUME NEW n, On(n, Append(s, e)) PROVE On(n, s) \/ n = e
    BY <1>1, <1>2, AppendFacts DEF On
  <1>3. ASSUME NEW n, On(n, s) PROVE On(n, Append(s, e))
    BY <1>1, <1>3, AppendFacts DEF On
  <1>4. On(e, Append(s, e))
    BY <1>1, AppendFacts DEF On
  <1> QED BY <1>2, <1>3, <1>4, Zenon

LEMMA OnTail ==
  ASSUME NEW s \in Seq(Nodes), s # <<>>
  PROVE  \A n : On(n, s) <=> On(n, Tail(s)) \/ n = Head(s)
  <1>1. ASSUME NEW n, On(n, s) PROVE On(n, Tail(s)) \/ n = Head(s)
    <2>1. PICK i \in 1..Len(s) : s[i] = n
      BY <1>1, TailFacts, Zenon DEF On
    <2>2. CASE i = 1 BY <2>1, <2>2, TailFacts, Zenon
    <2>3. CASE i # 1
      <3>1. i - 1 \in 1..(Len(s) - 1) /\ Tail(s)[i - 1] = s[i]
        BY <2>1, <2>3, TailFacts
      <3> QED BY <2>1, <3>1, TailFacts, Zenon DEF On
    <2> QED BY <2>2, <2>3, Zenon
  <1>2. ASSUME NEW n, On(n, Tail(s)) PROVE On(n, s)
    <2>1. PICK i \in 1..(Len(s) - 1) : Tail(s)[i] = n
      BY <1>2, TailFacts, Zenon DEF On
    <2>2. i + 1 \in 1..Len(s) /\ s[i + 1] = n
      BY <2>1, TailFacts
    <2> QED BY <2>2, TailFacts, Zenon DEF On
  <1>3. On(Head(s), s)
    <2>1. 1 \in DOMAIN s /\ s[1] = Head(s)
      BY TailFacts
    <2> QED BY <2>1, Zenon DEF On
  <1> QED BY <1>1, <1>2, <1>3, Zenon

LEMMA OnConcat ==
  ASSUME NEW s \in Seq(Nodes), NEW t \in Seq(Nodes)
  PROVE  \A n : On(n, s \o t) <=> On(n, s) \/ On(n, t)
  <1>1. DOMAIN s = 1..Len(s) /\ Len(s) \in Nat /\ DOMAIN t = 1..Len(t) /\ Len(t) \in Nat
    OBVIOUS
  <1>2. ASSUME NEW n, On(n, s \o t) PROVE On(n, s) \/ On(n, t)
    <2>1. PICK i \in 1..(Len(s) + Len(t)) : (s \o t)[i] = n
      BY <1>2, ConcatFacts DEF On
    <2>2. CASE i \in 1..Len(s) BY <1>1, <2>1, <2>2, ConcatFacts DEF On
    <2>3. CASE i \notin 1..Len(s)
      <3>1. i - Len(s) \in 1..Len(t) /\ (s \o t)[Len(s) + (i - Len(s))] = t[i - Len(s)]
        BY <1>1, <2>1, <2>3, ConcatFacts
      <3>2. Len(s) + (i - Len(s)) = i BY <1>1, <2>1
      <3> QED BY <1>1, <2>1, <3>1, <3>2, Zenon DEF On
    <2> QED BY <2>2, <2>3, Zenon
  <1>3. ASSUME NEW n, On(n, s) PROVE On(n, s \o t)
    BY <1>1, <1>3, ConcatFacts DEF On
  <1>4. ASSUME NEW n, On(n, t) PROVE On(n, s \o t)
    <2>1. PICK i \in 1..Len(t) : t[i] = n
      BY <1>1, <1>4, Zenon DEF On
    <2>2. Len(s) + i \in 1..(Len(s) + Len(t)) /\ (s \o t)[Len(s) + i] = n
      BY <1>1, <2>1, ConcatFacts
    <2> QED BY <2>2, ConcatFacts DEF On
  <1> QED BY <1>2, <1>3, <1>4, Zenon

LEMMA NoRepeatsAppend ==
  ASSUME NEW s \in Seq(Nodes), NEW e \in Nodes, NoRepeats(s), ~On(e, s)
  PROVE  NoRepeats(Append(s, e))
  <1> SUFFICES ASSUME NEW i \in 1..(Len(s) + 1), NEW j \in 1..(Len(s) + 1),
                      Append(s, e)[i] = Append(s, e)[j], i # j
               PROVE  FALSE
    BY AppendFacts DEF NoRepeats
  <1>1. DOMAIN s = 1..Len(s) /\ Len(s) \in Nat
    OBVIOUS
  <1>2. CASE i \in 1..Len(s) /\ j \in 1..Len(s)
    BY <1>1, <1>2, AppendFacts DEF NoRepeats
  <1>3. CASE i = Len(s) + 1
    BY <1>1, <1>3, AppendFacts DEF On
  <1>4. CASE j = Len(s) + 1
    BY <1>1, <1>4, AppendFacts DEF On
  <1> QED BY <1>1, <1>2, <1>3, <1>4

LEMMA NoRepeatsTail ==
  ASSUME NEW s \in Seq(Nodes), s # <<>>, NoRepeats(s)
  PROVE  NoRepeats(Tail(s)) /\ ~On(Head(s), Tail(s))
  <1>1. ASSUME NEW i \in 1..(Len(s) - 1), NEW j \in 1..(Len(s) - 1), Tail(s)[i] = Tail(s)[j]
        PROVE  i = j
    <2>1. i + 1 \in DOMAIN s /\ j + 1 \in DOMAIN s /\ s[i + 1] = s[j + 1]
      BY <1>1, TailFacts
    <2>2. i + 1 = j + 1 BY <2>1, Zenon DEF NoRepeats
    <2> QED BY <2>2
  <1>2. ASSUME NEW i \in 1..(Len(s) - 1), Tail(s)[i] = Head(s) PROVE FALSE
    <2>1. i + 1 \in DOMAIN s /\ 1 \in DOMAIN s /\ s[i + 1] = s[1]
      BY <1>2, TailFacts
    <2>2. i + 1 = 1 BY <2>1, Zenon DEF NoRepeats
    <2> QED BY <2>2
  <1> QED BY <1>1, <1>2, TailFacts DEF NoRepeats, On

LEMMA NoRepeatsConcat ==
  ASSUME NEW s \in Seq(Nodes), NEW t \in Seq(Nodes), NoRepeats(s), NoRepeats(t),
         \A n \in Nodes : ~(On(n, s) /\ On(n, t))
  PROVE  NoRepeats(s \o t)
  <1> SUFFICES ASSUME NEW i \in 1..(Len(s) + Len(t)), NEW j \in 1..(Len(s) + Len(t)),
                      (s \o t)[i] = (s \o t)[j]
               PROVE  i = j
    BY ConcatFacts DEF NoRepeats
  <1>1. DOMAIN s = 1..Len(s) /\ Len(s) \in Nat /\ DOMAIN t = 1..Len(t) /\ Len(t) \in Nat
    OBVIOUS
  <1>2. ASSUME NEW k \in 1..(Len(s) + Len(t)), k \notin 1..Len(s)
        PROVE  /\ k - Len(s) \in 1..Len(t)
               /\ (s \o t)[k] = t[k - Len(s)]
    <2>1. k - Len(s) \in 1..Len(t) /\ Len(s) + (k - Len(s)) = k
      BY <1>1, <1>2
    <2>2. (s \o t)[Len(s) + (k - Len(s))] = t[k - Len(s)]
      BY <2>1, ConcatFacts
    <2> QED BY <2>1, <2>2, Zenon
  <1>3. ASSUME NEW a \in 1..Len(s), NEW b \in 1..Len(t), s[a] = t[b] PROVE FALSE
    BY <1>1, <1>3 DEF On
  <1>4. CASE i \in 1..Len(s) /\ j \in 1..Len(s)
    <2>1. (s \o t)[i] = s[i] /\ (s \o t)[j] = s[j]
      BY <1>4, ConcatFacts
    <2> QED BY <1>1, <1>4, <2>1, Zenon DEF NoRepeats
  <1>5. CASE i \in 1..Len(s) /\ j \notin 1..Len(s)
    BY <1>2, <1>3, <1>5, ConcatFacts
  <1>6. CASE i \notin 1..Len(s) /\ j \in 1..Len(s)
    BY <1>2, <1>3, <1>6, ConcatFacts
  <1>7. CASE i \notin 1..Len(s) /\ j \notin 1..Len(s)
    <2>1. i - Len(s) = j - Len(s)
      BY <1>1, <1>2, <1>7, Zenon DEF NoRepeats
    <2> QED BY <1>1, <2>1
  <1> QED BY <1>4, <1>5, <1>6, <1>7, Zenon

-----------------------------------------------------------------------------
\* Every step moves a node from one place to another and touches no other node.
LEMMA ConservedStep == TypeOK /\ NodesConserved /\ [Next]_vars => NodesConserved'
  <1> SUFFICES ASSUME TypeOK, NodesConserved, [Next]_vars
               PROVE  NodesConserved'
    BY Zenon
  <1> USE QueueAssumption
  <1>same. ASSUME UNCHANGED <<free, filled, detached>> PROVE NodesConserved'
    BY <1>same, Zenon DEF NodesConserved, On, NoRepeats
  <1>fill. ASSUME NEW p \in Producers, NEW m \in Messages \cup {NULL}, PutFills(p, m)
           PROVE  NodesConserved'
    <2>1. CASE free = <<>>
      BY <1>fill, <2>1, <1>same, Zenon DEF PutFills
    <2>2. CASE free # <<>>
      <3>1. /\ free' = Tail(free) /\ filled' = Append(filled, Head(free)) /\ detached' = detached
            /\ free \in Seq(Nodes) /\ filled \in Seq(Nodes) /\ Head(free) \in Nodes
        BY <1>fill, <2>2, TailFacts, Zenon DEF PutFills, TypeOK
      <3>2. On(Head(free), free)
        BY <2>2, <3>1, OnTail, Zenon
      <3>3. ~On(Head(free), filled)
        BY <3>1, <3>2, Zenon DEF NodesConserved
      <3>4. NoRepeats(free') /\ ~On(Head(free), free') /\ NoRepeats(filled')
        BY <2>2, <3>1, <3>3, NoRepeatsTail, NoRepeatsAppend, Zenon DEF NodesConserved
      <3>5. \A n : On(n, free) <=> On(n, free') \/ n = Head(free)
        BY <2>2, <3>1, OnTail, Zenon
      <3>6. \A n : On(n, filled') <=> On(n, filled) \/ n = Head(free)
        BY <3>1, OnAppend, Zenon
      <3> QED BY <3>1, <3>2, <3>4, <3>5, <3>6, Zenon DEF NodesConserved
    <2> QED BY <2>1, <2>2, Zenon
  <1>detach. ASSUME filled # <<>>, detached = NULL, Detach PROVE NodesConserved'
    <2>1. /\ filled' = Tail(filled) /\ detached' = Head(filled) /\ free' = free
          /\ filled \in Seq(Nodes) /\ Head(filled) \in Nodes
      BY <1>detach, TailFacts, Zenon DEF Detach, TypeOK
    <2>2. NoRepeats(filled') /\ ~On(Head(filled), filled')
      BY <1>detach, <2>1, NoRepeatsTail, Zenon DEF NodesConserved
    <2>3. \A n : On(n, filled) <=> On(n, filled') \/ n = Head(filled)
      BY <1>detach, <2>1, OnTail, Zenon
    <2>4. \A n : On(n, free') <=> On(n, free)
      BY <2>1, Zenon
    <2> QED BY <1>detach, <2>1, <2>2, <2>3, <2>4, Zenon DEF NodesConserved
  <1>1. ASSUME NEW p \in Producers, NEW m \in Messages, Put(p, m) PROVE NodesConserved'
    BY <1>1, <1>same, <1>fill, Zenon DEF Put, PutFails, PutWaits
  <1>2. ASSUME NEW p \in Producers, PutResume(p) PROVE NodesConserved'
    BY <1>2, <1>same, <1>fill, Zenon DEF PutResume, PutFails, PutWaits, TypeOK
  <1>3. CASE Take
    BY <1>3, <1>same, <1>detach, Zenon DEF Take
  <1>4. CASE Peak
    BY <1>4, <1>detach, Zenon DEF Peak
  <1>5. CASE Complete
    <2>1. /\ free' = Append(free, detached) /\ filled' = filled /\ detached' = NULL
          /\ free \in Seq(Nodes) /\ detached \in Nodes
      BY <1>5, Zenon DEF Complete, TypeOK
    <2>2. ~On(detached, free) /\ ~On(detached, filled)
      BY <1>5, Zenon DEF Complete, NodesConserved
    <2>3. NoRepeats(free')
      BY <2>1, <2>2, NoRepeatsAppend, Zenon DEF NodesConserved
    <2>4. \A n : On(n, free') <=> On(n, free) \/ n = detached
      BY <2>1, OnAppend, Zenon
    <2>5. NoRepeats(filled') /\ \A n : On(n, filled') <=> On(n, filled)
      BY <2>1, Zenon DEF NodesConserved
    <2> QED BY <2>1, <2>2, <2>3, <2>4, <2>5, Zenon DEF NodesConserved
  <1>6. CASE Interrupt
    BY <1>6, <1>same, Zenon DEF Interrupt
  <1>7. CASE Reset
    <2>1. /\ free' = free \o filled /\ filled' = <<>> /\ detached' = NULL /\ detached = NULL
          /\ free \in Seq(Nodes) /\ filled \in Seq(Nodes)
      BY <1>7, Zenon DEF Reset, TypeOK
    <2>2. NoRepeats(free')
      BY <2>1, NoRepeatsConcat, Zenon DEF NodesConserved
    <2>3. \A n : On(n, free') <=> On(n, free) \/ On(n, filled)
      BY <2>1, OnConcat, Zenon
    <2>4. NoRepeats(filled') /\ \A n : ~On(n, filled')
      BY <2>1 DEF NoRepeats, On
    <2> QED BY <2>1, <2>2, <2>3, <2>4, Zenon DEF NodesConserved
  <1>8. CASE Destroy
    BY <1>8, <1>same, Zenon DEF Destroy
  <1>9. ASSUME NEW t \in Threads, SpuriousWakeup(t) PROVE NodesConserved'
    BY <1>9, <1>same, Zenon DEF SpuriousWakeup
  <1>10. CASE UNCHANGED vars
    BY <1>10, <1>same, Zenon DEF vars
  <1> QED
    BY <1>1, <1>2, <1>3, <1>4, <1>5, <1>6, <1>7, <1>8, <1>9, <1>10, Zenon DEF Next, Stopped

LEMMA ConservedInit == Init => NodesConserved
  <1> SUFFICES ASSUME Init PROVE NodesConserved
    BY Zenon
  <1>1. DOMAIN free = Nodes /\ \A i \in Nodes : free[i] = i
    BY Zenon DEF Init
  <1>2. NoRepeats(free) /\ \A n \in Nodes : On(n, free)
    BY <1>1, Zenon DEF NoRepeats, On
  <1>3. NoRepeats(filled) /\ \A n : ~On(n, filled)
    BY DEF Init, NoRepeats, On
  <1> QED BY <1>2, <1>3, Zenon DEF Init, NodesConserved

\* No sequence of calls loses a node of the pool or puts it in two places: the free
\* list, the filled list and detached_node always partition the nodes that
\* queue_create allocated, so destroy_queue frees each of them once.
THEOREM NodesAreConserved == Spec => []NodesConserved
  BY TypeInit, TypeStep, ConservedInit, ConservedStep, PTL DEF Spec

-----------------------------------------------------------------------------
\* Every step that frees a node, fills one or sets the poison pill wakes everybody.
LEMMA WakeupStep == TypeOK /\ NoLostWakeup /\ [Next]_vars => NoLostWakeup'
  <1> SUFFICES ASSUME TypeOK, NoLostWakeup, [Next]_vars
               PROVE  NoLostWakeup'
    BY Zenon
  <1> USE QueueAssumption DEF Threads
  <1>nobody. ASSUME \A t \in Threads : cond'[t] # "waiting" PROVE NoLostWakeup'
    BY <1>nobody, Zenon DEF NoLostWakeup
  <1>fail. ASSUME NEW p \in Producers, PutFails(p) PROVE NoLostWakeup'
    BY <1>fail, Zenon DEF PutFails, NoLostWakeup, TypeOK
  <1>wait. ASSUME NEW p \in Producers, NEW m, PutWaits(p, m), free = <<>>, ~poison
           PROVE  NoLostWakeup'
    BY <1>wait, Zenon DEF PutWaits, Waiting, NoLostWakeup, TypeOK
  <1>fill. ASSUME NEW p \in Producers, NEW m, PutFills(p, m) PROVE NoLostWakeup'
    <2>1. \A t \in Threads : cond'[t] # "waiting"
      BY <1>fill, BroadcastType, Zenon DEF PutFills, TypeOK
    <2> QED BY <2>1, <1>nobody, Zenon
  <1>detach. ASSUME Detach PROVE NoLostWakeup'
    BY <1>detach, Zenon DEF Detach, NoLostWakeup, TypeOK
  <1>1. ASSUME NEW p \in Producers, NEW m \in Messages, Put(p, m) PROVE NoLostWakeup'
    BY <1>1, <1>fail, <1>wait, <1>fill, Zenon DEF Put
  <1>2. ASSUME NEW p \in Producers, PutResume(p) PROVE NoLostWakeup'
    BY <1>2, <1>fail, <1>wait, <1>fill, Zenon DEF PutResume
  <1>3. CASE Take
    <2>1. CASE filled # <<>> BY <1>3, <2>1, <1>detach, Zenon DEF Take
    <2>2. CASE filled = <<>> BY <1>3, <2>2 DEF Take, NoLostWakeup, TypeOK, Waiting
    <2> QED BY <2>1, <2>2, Zenon
  <1>4. CASE Peak
    BY <1>4, <1>detach, Zenon DEF Peak
  <1>5. CASE Complete
    BY <1>5, <1>nobody, BroadcastType, Zenon DEF Complete, TypeOK
  <1>6. CASE Interrupt
    BY <1>6, <1>nobody, BroadcastType, Zenon DEF Interrupt, TypeOK
  <1>7. CASE Reset
    BY <1>7, <1>nobody, Zenon DEF Reset, NoLostWakeup
  <1>8. CASE Destroy
    BY <1>8, Zenon DEF Destroy, NoLostWakeup
  <1>9. ASSUME NEW t \in Threads, SpuriousWakeup(t) PROVE NoLostWakeup'
    BY <1>9, Zenon DEF SpuriousWakeup, NoLostWakeup, TypeOK
  <1>10. CASE UNCHANGED vars
    BY <1>10, Zenon DEF vars, NoLostWakeup
  <1> QED
    BY <1>1, <1>2, <1>3, <1>4, <1>5, <1>6, <1>7, <1>8, <1>9, <1>10, Zenon DEF Next, Stopped

\* With any number of threads, nobody sleeps in pthread_cond_wait while what they
\* wait for is there: no broadcast of queue.c is missing.
THEOREM WakeupsAreNotLost == Spec => []NoLostWakeup
  <1>1. Init => NoLostWakeup
    BY Zenon DEF Init, NoLostWakeup, Threads
  <1> QED BY <1>1, TypeInit, TypeStep, WakeupStep, PTL DEF Spec

-----------------------------------------------------------------------------
\* A step that keeps the detached node does not write into it: queue_put writes into
\* a free node or into the last filled one, and the detached node is neither.
LEMMA DetachedStep ==
  TypeOK /\ NodesConserved /\ [Next]_vars =>
    (detached # NULL /\ detached' = detached => buffer'[detached] = buffer[detached])
  <1> SUFFICES ASSUME TypeOK, NodesConserved, [Next]_vars, detached # NULL
               PROVE  buffer'[detached] = buffer[detached]
    BY Zenon
  <1>0. detached \in Nodes
    BY Zenon DEF TypeOK
  <1>fill. ASSUME NEW p \in Producers, NEW m, PutFills(p, m)
           PROVE  buffer'[detached] = buffer[detached]
    <2>1. CASE free # <<>>
      <3>1. On(Head(free), free)
        BY <2>1, OnTail, Zenon DEF TypeOK
      <3>2. Head(free) # detached
        BY <3>1, Zenon DEF NodesConserved
      <3> QED BY <1>0, <1>fill, <2>1, <3>2, Zenon DEF PutFills, TypeOK
    <2>2. CASE free = <<>> /\ filled # <<>>
      <3>1. Len(filled) \in DOMAIN filled
        BY <2>2, TailFacts DEF TypeOK
      <3>2. filled[Len(filled)] # detached
        BY <3>1, Zenon DEF NodesConserved, On
      <3> QED BY <1>0, <1>fill, <2>2, <3>2, Zenon DEF PutFills, TypeOK
    <2> QED BY <1>fill, <2>1, <2>2, Zenon DEF PutFills
  <1>1. ASSUME NEW p \in Producers, PutResume(p) PROVE buffer'[detached] = buffer[detached]
    BY <1>1, <1>fill, Zenon DEF PutResume, PutFails, PutWaits
  <1>2. ASSUME NEW p \in Producers, NEW m \in Messages, Put(p, m)
        PROVE  buffer'[detached] = buffer[detached]
    BY <1>2, <1>fill, Zenon DEF Put, PutFails, PutWaits
  <1> QED BY <1>1, <1>2, Zenon DEF Next, Take, Peak, Detach, Complete, Interrupt, Reset, Destroy,
        SpuriousWakeup, Stopped, vars

\* The consumer may read the detached buffer without the mutex: from queue_take to
\* queue_complete no thread writes into it, however many producers there are.
THEOREM DetachedIsUntouched == Spec => DetachedUntouched
  <1>1. TypeOK /\ NodesConserved /\ [Next]_vars =>
          [detached # NULL /\ detached' = detached => buffer'[detached] = buffer[detached]]_vars
    BY DetachedStep, Zenon
  <1> QED BY <1>1, TypeInit, TypeStep, ConservedInit, ConservedStep, PTL DEF Spec, DetachedUntouched

-----------------------------------------------------------------------------
\* What the refinement needs besides NodesConserved: the lists together have every
\* node, a node that is not free holds a message, and a blocked queue_put has one.
Holding ==
  /\ Len(free) + Len(filled) + (IF detached = NULL THEN 0 ELSE 1) = QueueSize
  /\ \A i \in DOMAIN filled : buffer[filled[i]] \in Messages
  /\ detached # NULL => buffer[detached] \in Messages
  /\ \A p \in Producers : cond[p] # "running" => putting[p] \in Messages

FifoInv == TypeOK /\ NodesConserved /\ Holding

\* The three things that can happen to the filled list, seen through Contents.
LEMMA FillEffect ==
  ASSUME FifoInv, NEW p \in Producers, NEW m \in Messages, PutFills(p, m), free # <<>>
  PROVE  /\ Contents' = Append(Contents, m)
         /\ Holding'
  <1> USE QueueAssumption
  <1>1. /\ free' = Tail(free) /\ filled' = Append(filled, Head(free))
        /\ buffer' = [buffer EXCEPT ![Head(free)] = m]
        /\ detached' = detached
        /\ free \in Seq(Nodes) /\ filled \in Seq(Nodes) /\ Head(free) \in Nodes
        /\ buffer \in [Nodes -> Messages \cup {NULL}]
        /\ DOMAIN filled = 1..Len(filled) /\ Len(filled) \in Nat
    BY TailFacts DEF PutFills, TypeOK, FifoInv
  <1>2. On(Head(free), free)
    BY <1>1, OnTail, Zenon
  <1>3. /\ \A i \in 1..Len(filled) : filled[i] \in Nodes /\ filled[i] # Head(free)
        /\ detached # Head(free)
    <2>1. \A i \in 1..Len(filled) : filled[i] \in Nodes /\ On(filled[i], filled)
      BY <1>1 DEF On
    <2> QED BY <1>1, <1>2, <2>1, Zenon DEF FifoInv, NodesConserved
  <1>4. \A i \in 1..Len(filled) : buffer'[filled'[i]] = buffer[filled[i]]
    BY <1>1, <1>3, AppendFacts
  <1>5. buffer'[filled'[Len(filled) + 1]] = m /\ Len(filled') = Len(filled) + 1
    BY <1>1, AppendFacts
  <1>6. Contents' = Append(Contents, m)
    BY <1>1, <1>4, <1>5 DEF Contents
  <1>7. Len(free') + Len(filled') + (IF detached' = NULL THEN 0 ELSE 1) = QueueSize
    <2>1. Len(free) \in Nat /\ Len(free') = Len(free) - 1
      BY <1>1, TailFacts, Zenon
    <2>2. Len(free) + Len(filled) + (IF detached = NULL THEN 0 ELSE 1) = QueueSize
      BY Zenon DEF FifoInv, Holding
    <2>3. Len(filled) \in Nat /\ Len(filled') = Len(filled) + 1 /\ detached' = detached
      BY <1>1, <1>5, Zenon
    <2> QED BY <2>1, <2>2, <2>3
  <1>8. \A i \in DOMAIN filled' : buffer'[filled'[i]] \in Messages
    <2>1. DOMAIN filled' = 1..(Len(filled) + 1)
      BY <1>1, AppendFacts, Zenon
    <2>2. \A i \in 1..Len(filled) : buffer[filled[i]] \in Messages
      BY <1>1, Zenon DEF FifoInv, Holding
    <2> QED BY <1>1, <1>4, <1>5, <2>1, <2>2
  <1>9. detached' # NULL => buffer'[detached'] \in Messages
    BY <1>1, <1>3, Zenon DEF FifoInv, Holding, TypeOK
  <1>10. \A r \in Producers : cond'[r] # "running" => putting'[r] \in Messages
    BY Zenon DEF FifoInv, Holding, PutFills, Broadcast, TypeOK, Threads
  <1> QED BY <1>6, <1>7, <1>8, <1>9, <1>10, Zenon DEF Holding

LEMMA OverwriteEffect ==
  ASSUME FifoInv, NEW p \in Producers, NEW m \in Messages, PutFills(p, m), free = <<>>
  PROVE  /\ Contents # <<>>
         /\ Contents' = [Contents EXCEPT ![Len(Contents)] = m]
         /\ Holding'
  <1> USE QueueAssumption
  <1>1. /\ free' = free /\ filled' = filled /\ filled # <<>>
        /\ buffer' = [buffer EXCEPT ![filled[Len(filled)]] = m]
        /\ detached' = detached
        /\ filled \in Seq(Nodes)
        /\ buffer \in [Nodes -> Messages \cup {NULL}]
        /\ DOMAIN filled = 1..Len(filled) /\ Len(filled) \in Nat
    BY DEF PutFills, TypeOK, FifoInv
  <1>2. Len(filled) \in 1..Len(filled) /\ filled[Len(filled)] \in Nodes
    BY <1>1, TailFacts
  <1>3. /\ \A i \in 1..Len(filled) : filled[i] \in Nodes /\ (filled[i] = filled[Len(filled)] => i = Len(filled))
        /\ detached # filled[Len(filled)]
    <2>1. \A i \in 1..Len(filled) : filled[i] \in Nodes /\ On(filled[i], filled)
      BY <1>1 DEF On
    <2>2. \A i \in 1..Len(filled) : filled[i] = filled[Len(filled)] => i = Len(filled)
      BY <1>1, <1>2, Zenon DEF FifoInv, NodesConserved, NoRepeats
    <2>3. detached # filled[Len(filled)]
      BY <1>2, <2>1, Zenon DEF FifoInv, NodesConserved
    <2> QED BY <2>1, <2>2, <2>3, Zenon
  <1>4. \A i \in 1..Len(filled) :
          buffer'[filled'[i]] = IF i = Len(filled) THEN m ELSE buffer[filled[i]]
    BY <1>1, <1>2, <1>3, Zenon
  <1>5. Len(Contents) = Len(filled) /\ Contents # <<>>
    BY <1>1, <1>2 DEF Contents
  <1>6. Contents' = [Contents EXCEPT ![Len(Contents)] = m]
    BY <1>1, <1>4, <1>5, Zenon DEF Contents
  <1>7. Len(free') + Len(filled') + (IF detached' = NULL THEN 0 ELSE 1) = QueueSize
    BY <1>1, Zenon DEF FifoInv, Holding
  <1>8. \A i \in DOMAIN filled' : buffer'[filled'[i]] \in Messages
    BY <1>1, <1>4 DEF FifoInv, Holding
  <1>9. detached' # NULL => buffer'[detached'] \in Messages
    BY <1>1, <1>3, Zenon DEF FifoInv, Holding, TypeOK
  <1>10. \A r \in Producers : cond'[r] # "running" => putting'[r] \in Messages
    BY Zenon DEF FifoInv, Holding, PutFills, Broadcast, TypeOK, Threads
  <1> QED BY <1>5, <1>6, <1>7, <1>8, <1>9, <1>10, Zenon DEF Holding

LEMMA DetachEffect ==
  ASSUME FifoInv, filled # <<>>, detached = NULL, Detach
  PROVE  /\ Contents # <<>>
         /\ Contents' = Tail(Contents)
         /\ detached' # NULL /\ buffer'[detached'] = Head(Contents)
         /\ Holding'
  <1> USE QueueAssumption
  <1>1. /\ filled' = Tail(filled) /\ detached' = Head(filled) /\ free' = free /\ buffer' = buffer
        /\ filled \in Seq(Nodes) /\ Head(filled) \in Nodes /\ Head(filled) = filled[1]
        /\ DOMAIN filled = 1..Len(filled) /\ Len(filled) \in Nat /\ Len(filled) >= 1
        /\ Len(Tail(filled)) = Len(filled) - 1
        /\ \A i \in 1..(Len(filled) - 1) : Tail(filled)[i] = filled[i + 1]
        /\ DOMAIN Tail(filled) = 1..(Len(filled) - 1)
    BY TailFacts, Zenon DEF Detach, TypeOK, FifoInv
  <1>2. /\ Len(Contents) = Len(filled) /\ Contents # <<>> /\ Head(Contents) = buffer[Head(filled)]
        /\ Contents \in Seq(Messages)
    BY <1>1 DEF Contents, FifoInv, Holding
  <1>3. Contents' = Tail(Contents)
    BY <1>1, <1>2, TailFacts DEF Contents
  <1>4. Len(free') + Len(filled') + (IF detached' = NULL THEN 0 ELSE 1) = QueueSize
    <2>1. Len(free) \in Nat /\ Len(free) + Len(filled) = QueueSize
      BY <1>1 DEF FifoInv, Holding, TypeOK
    <2>2. detached' # NULL /\ Len(filled') = Len(filled) - 1
      BY <1>1, Zenon
    <2> QED BY <1>1, <2>1, <2>2
  <1>5. \A i \in DOMAIN filled' : buffer'[filled'[i]] \in Messages
    BY <1>1 DEF FifoInv, Holding
  <1>6. buffer'[detached'] \in Messages
    BY <1>1 DEF FifoInv, Holding
  <1>7. \A r \in Producers : cond'[r] # "running" => putting'[r] \in Messages
    BY Zenon DEF FifoInv, Holding, Detach, TypeOK, Threads
  <1> QED BY <1>1, <1>2, <1>3, <1>4, <1>5, <1>6, <1>7, Zenon DEF Holding

\* A node is free in the abstract queue exactly when the free list has one.
LEMMA FreeAgrees ==
  ASSUME FifoInv
  PROVE  /\ Len(Contents) = Len(filled)
         /\ Contents = <<>> <=> filled = <<>>
         /\ (IF detached = NULL THEN NULL ELSE buffer[detached]) = NULL <=> detached = NULL
         /\ Len(Contents) + (IF detached = NULL THEN 0 ELSE 1) < QueueSize <=> free # <<>>
  <1> USE QueueAssumption
  <1>1. Len(free) \in Nat /\ Len(filled) \in Nat /\ (free # <<>> <=> Len(free) > 0)
        /\ (filled # <<>> <=> Len(filled) > 0)
    BY DEF FifoInv, TypeOK
  <1>2. Len(Contents) = Len(filled) /\ (Contents = <<>> <=> filled = <<>>)
    BY <1>1 DEF Contents
  <1>3. (IF detached = NULL THEN NULL ELSE buffer[detached]) = NULL <=> detached = NULL
    BY Zenon DEF FifoInv, Holding
  <1>4. Len(Contents) + (IF detached = NULL THEN 0 ELSE 1) < QueueSize <=> free # <<>>
    BY <1>1, <1>2 DEF FifoInv, Holding
  <1> QED BY <1>2, <1>3, <1>4, Zenon

\* Every step of the queue is a step of the bounded FIFO or changes nothing it shows.
LEMMA FifoStep == FifoInv /\ [Next]_vars => Holding' /\ [Fifo!FifoNext]_(Fifo!fifoVars)
  <1> SUFFICES ASSUME FifoInv, [Next]_vars
               PROVE  Holding' /\ [Fifo!FifoNext]_(Fifo!fifoVars)
    BY Zenon
  <1>blk. blocking' = blocking
    BY Zenon DEF Next, Stopped, vars
  <1> USE QueueAssumption, <1>blk
  <1> DEFINE Q == [filled   |-> Contents,
                   detached |-> IF detached = NULL THEN NULL ELSE buffer[detached],
                   poison   |-> poison]
             Goal == Holding' /\ [Fifo!FifoNext]_(Fifo!fifoVars)
  <1>free. Fifo!HasFree(Q, QueueSize) <=> free # <<>>
    BY FreeAgrees, Zenon DEF Fifo!HasFree, Fifo!InUse
  <1>same. ASSUME UNCHANGED <<free, filled, detached, buffer, poison, ended>>,
                  \A r \in Producers : cond'[r] # "running" => putting'[r] \in Messages
           PROVE  Goal
    BY <1>same, Zenon DEF FifoInv, Holding, Contents, Fifo!fifoVars
  <1>fill. ASSUME NEW p \in Producers, NEW m \in Messages, PutFills(p, m),
                  blocking => ~poison /\ free # <<>>
           PROVE  Goal
    <2>0. poison' = poison /\ ended' = ended /\ detached' = detached
      BY <1>fill, Zenon DEF PutFills
    <2>1. CASE free # <<>>
      <3>1. Contents' = Append(Contents, m) /\ Holding'
        BY <1>fill, <2>1, FillEffect, Zenon
      <3>2. detached # NULL => buffer'[detached] = buffer[detached]
        <4>1. On(Head(free), free)
          BY <2>1, OnTail, Zenon DEF FifoInv, TypeOK
        <4>2. detached # Head(free) \/ detached = NULL
          BY <4>1, Zenon DEF FifoInv, NodesConserved
        <4> QED BY <1>fill, <2>1, <4>2, Zenon DEF PutFills, FifoInv, TypeOK
      <3>3. Q' = [filled |-> Append(Q.filled, m), detached |-> Q.detached, poison |-> Q.poison]
        BY <2>0, <3>1, <3>2, Zenon
      <3>4. Fifo!Accept(m)
        BY <1>fill, <1>free, <2>0, <2>1, <3>3, Zenon DEF Fifo!Accept, Fifo!QueueValue
      <3> QED BY <3>1, <3>4, Zenon DEF Fifo!FifoNext
    <2>2. CASE free = <<>>
      <3>1. Contents # <<>> /\ Contents' = [Contents EXCEPT ![Len(Contents)] = m] /\ Holding'
        BY <1>fill, <2>2, OverwriteEffect, Zenon
      <3>2. detached # NULL => buffer'[detached] = buffer[detached]
        <4>1. On(filled[Len(filled)], filled) /\ filled # <<>>
          BY <1>fill, <2>2, TailFacts DEF FifoInv, TypeOK, PutFills, On
        <4>2. detached # filled[Len(filled)] \/ detached = NULL
          BY <4>1, Zenon DEF FifoInv, NodesConserved
        <4> QED BY <1>fill, <2>2, <4>2, Zenon DEF PutFills, FifoInv, TypeOK
      <3>3. Q' = [filled   |-> [Q.filled EXCEPT ![Len(Q.filled)] = m],
                  detached |-> Q.detached, poison |-> Q.poison]
        BY <2>0, <3>1, <3>2, Zenon
      <3>4. Fifo!Replace(m)
        BY <1>fill, <1>free, <2>0, <2>2, <3>1, <3>3, Zenon DEF Fifo!Replace, Fifo!QueueValue
      <3> QED BY <3>1, <3>4, Zenon DEF Fifo!FifoNext
    <2> QED BY <2>1, <2>2, Zenon
  <1>detach. ASSUME filled # <<>>, detached = NULL, Detach PROVE Goal
    <2>1. /\ Contents # <<>> /\ Contents' = Tail(Contents) /\ Holding'
          /\ detached' # NULL /\ buffer'[detached'] = Head(Contents)
          /\ poison' = poison /\ ended' = ended
      BY <1>detach, DetachEffect, Zenon DEF Detach
    <2>2. Q' = [filled |-> Tail(Q.filled), detached |-> Head(Q.filled), poison |-> Q.poison]
      BY <2>1, Zenon
    <2>3. Fifo!Deliver
      BY <1>detach, <2>1, <2>2, Zenon DEF Fifo!Deliver, Fifo!AfterTake, Fifo!QueueValue
    <2> QED BY <2>1, <2>3, Zenon DEF Fifo!FifoNext
  <1>1. ASSUME NEW p \in Producers, NEW m \in Messages, Put(p, m) PROVE Goal
    <2>1. CASE PutFails(p)
      BY <2>1, <1>same, Zenon DEF PutFails, FifoInv, Holding, TypeOK, Threads
    <2>2. CASE PutWaits(p, m)
      BY <2>2, <1>same, Zenon DEF PutWaits, Waiting, FifoInv, Holding, TypeOK, Threads
    <2> QED BY <1>1, <1>fill, <2>1, <2>2, Zenon DEF Put
  <1>2. ASSUME NEW p \in Producers, PutResume(p) PROVE Goal
    <2>0. putting[p] \in Messages
      BY <1>2, Zenon DEF PutResume, FifoInv, Holding
    <2>1. CASE PutFails(p)
      BY <2>1, <1>same, Zenon DEF PutFails, FifoInv, Holding, TypeOK, Threads
    <2>2. CASE PutWaits(p, putting[p])
      BY <2>0, <2>2, <1>same, Zenon DEF PutWaits, Waiting, FifoInv, Holding, TypeOK, Threads
    <2> QED BY <1>2, <1>fill, <2>0, <2>1, <2>2, Zenon DEF PutResume
  <1>3. CASE Take
    <2>1. CASE filled # <<>> BY <1>3, <2>1, <1>detach, Zenon DEF Take
    <2>2. CASE filled = <<>> /\ ~poison
      BY <1>3, <2>2, <1>same, Zenon DEF Take, Waiting, FifoInv, Holding, TypeOK, Threads
    <2>3. CASE filled = <<>> /\ poison
      <3>1. /\ UNCHANGED <<free, filled, detached, buffer, poison>> /\ ended' = TRUE
            /\ detached = NULL
        BY <1>3, <2>3, Zenon DEF Take
      <3>2. Q' = Q /\ Contents = <<>>
        BY <2>3, <3>1, FreeAgrees, Zenon DEF Contents
      <3>3. Fifo!End
        BY <2>3, <3>1, <3>2, Zenon DEF Fifo!End, Fifo!TakeIsEnd
      <3>4. Holding'
        BY <1>3, <3>1, <2>3, Zenon DEF Take, FifoInv, Holding, TypeOK, Threads
      <3> QED BY <3>3, <3>4, Zenon DEF Fifo!FifoNext
    <2> QED BY <2>1, <2>2, <2>3, Zenon
  <1>4. CASE Peak
    BY <1>4, <1>detach, Zenon DEF Peak
  <1>5. CASE Complete
    <2>1. /\ free' = Append(free, detached) /\ filled' = filled /\ detached' = NULL
          /\ buffer' = buffer /\ poison' = poison /\ ended' = ended /\ putting' = putting
          /\ detached # NULL /\ free \in Seq(Nodes) /\ detached \in Nodes
      BY <1>5, Zenon DEF Complete, FifoInv, TypeOK
    <2>2. Contents' = Contents
      BY <2>1, Zenon DEF Contents
    <2>3. Q' = [filled |-> Q.filled, detached |-> NULL, poison |-> Q.poison]
      BY <2>1, <2>2, Zenon
    <2>4. Fifo!Finish
      BY <2>1, <2>3, FreeAgrees, Zenon DEF Fifo!Finish, Fifo!AfterComplete, Fifo!QueueValue
    <2>5. Len(free') + Len(filled') + (IF detached' = NULL THEN 0 ELSE 1) = QueueSize
      <3>1. Len(free') = Len(free) + 1 /\ Len(free) \in Nat /\ Len(filled) \in Nat
        BY <2>1, AppendFacts DEF FifoInv, TypeOK
      <3> QED BY <2>1, <3>1 DEF FifoInv, Holding
    <2>6. \A r \in Producers : cond'[r] # "running" => putting'[r] \in Messages
      BY <1>5, Zenon DEF Complete, Broadcast, FifoInv, Holding, TypeOK, Threads
    <2>7. Holding'
      BY <2>1, <2>5, <2>6, Zenon DEF FifoInv, Holding
    <2> QED BY <2>4, <2>7, Zenon DEF Fifo!FifoNext
  <1>6. CASE Interrupt
    <2>1. UNCHANGED <<free, filled, detached, buffer, ended>> /\ poison' = TRUE
      BY <1>6, Zenon DEF Interrupt
    <2>2. \A r \in Producers : cond'[r] # "running" => putting'[r] \in Messages
      BY <1>6, Zenon DEF Interrupt, Broadcast, FifoInv, Holding, TypeOK, Threads
    <2>3. Holding'
      BY <2>1, <2>2, Zenon DEF FifoInv, Holding
    <2>4. Q' = [filled |-> Q.filled, detached |-> Q.detached, poison |-> TRUE]
      BY <2>1, Zenon DEF Contents
    <2>5. Fifo!Close
      BY <2>1, <2>4, Zenon DEF Fifo!Close, Fifo!AfterInterrupt, Fifo!QueueValue
    <2> QED BY <2>3, <2>5, Zenon DEF Fifo!FifoNext
  <1>7. CASE Reset
    <2>1. /\ free' = free \o filled /\ filled' = <<>> /\ detached' = NULL /\ detached = NULL
          /\ poison' = FALSE /\ ended' = FALSE /\ UNCHANGED <<buffer, cond, putting>>
          /\ free \in Seq(Nodes) /\ filled \in Seq(Nodes)
      BY <1>7, Zenon DEF Reset, FifoInv, TypeOK
    <2>2. Contents' = <<>>
      BY <2>1 DEF Contents
    <2>3. Q' = [filled |-> <<>>, detached |-> Q.detached, poison |-> FALSE]
      BY <2>1, <2>2, Zenon
    <2>4. Fifo!Reopen
      BY <2>1, <2>3, Zenon DEF Fifo!Reopen, Fifo!AfterReset, Fifo!QueueValue
    <2>5. Len(free') + Len(filled') + (IF detached' = NULL THEN 0 ELSE 1) = QueueSize
      <3>1. Len(free') = Len(free) + Len(filled) /\ Len(filled') = 0
        BY <2>1, ConcatFacts, Zenon
      <3>2. Len(free) \in Nat /\ Len(filled) \in Nat
        BY <2>1
      <3> QED BY <2>1, <3>1, <3>2 DEF FifoInv, Holding
    <2>6. Holding'
      BY <2>1, <2>5 DEF FifoInv, Holding
    <2> QED BY <2>4, <2>6, Zenon DEF Fifo!FifoNext
  <1>8. CASE Destroy
    BY <1>8, <1>same, Zenon DEF Destroy, FifoInv, Holding
  <1>9. ASSUME NEW t \in Threads, SpuriousWakeup(t) PROVE Goal
    BY <1>9, <1>same, Zenon DEF SpuriousWakeup, FifoInv, Holding, TypeOK, Threads
  <1>10. CASE UNCHANGED vars
    BY <1>10, <1>same, Zenon DEF vars, FifoInv, Holding
  <1> QED
    BY <1>1, <1>2, <1>3, <1>4, <1>5, <1>6, <1>7, <1>8, <1>9, <1>10, Zenon DEF Next, Stopped

LEMMA FifoInitial == Init => Holding /\ Fifo!FifoInit
  <1> SUFFICES ASSUME Init PROVE Holding /\ Fifo!FifoInit
    BY Zenon
  <1>1. Len(free) = QueueSize
    BY QueueAssumption DEF Init, Nodes
  <1>2. Holding
    BY <1>1, QueueAssumption DEF Init, Holding, Threads
  <1>3. Contents = <<>>
    BY DEF Init, Contents
  <1> QED BY <1>2, <1>3, Zenon DEF Init, Fifo!FifoInit, Fifo!NewQueue, Fifo!QueueValue

\* queue.c is a bounded FIFO for every pool size and any producers: no message is
\* lost, duplicated or reordered, and queue_take reports the end of an interrupted
\* queue only when every pending message was handed out.
THEOREM QueueImplementsFifo == Spec => ImplementsFifo
  <1>1. Init => FifoInv /\ Fifo!FifoInit
    BY TypeInit, ConservedInit, FifoInitial, Zenon DEF FifoInv
  <1>2. FifoInv /\ [Next]_vars => FifoInv' /\ [Fifo!FifoNext]_(Fifo!fifoVars)
    BY TypeStep, ConservedStep, FifoStep, Zenon DEF FifoInv
  <1> QED BY <1>1, <1>2, PTL DEF Spec, ImplementsFifo, Fifo!FifoSpec

-----------------------------------------------------------------------------
\* The types of the pointers, and what queue_complete relies on: the node that comes back
\* does not lead anywhere.
PointerInv ==
  /\ TypeOK
  /\ NodesConserved
  /\ next \in [Nodes -> Nodes \cup {NULL}]
  /\ detached # NULL => next[detached] = NULL
  /\ PointersFormLists

LEMMA BeforeLast ==
  ASSUME NEW k \in Nat, NEW i \in 1..k, i # k
  PROVE  i \in 1..(k - 1) /\ i + 1 \in 1..k
  OBVIOUS

LEMMA EmptyByLength ==
  ASSUME NEW S, NEW s \in Seq(S), Len(s) = 0
  PROVE  s = <<>>
  OBVIOUS

LEMMA Trichotomy ==
  ASSUME NEW i \in Nat, NEW k \in Nat
  PROVE  i < k \/ i = k \/ i > k
  OBVIOUS

\* A list that is not empty starts and ends at nodes of it; an empty one has no pointers.
LEMMA LinksEnds ==
  ASSUME NEW nxt \in [Nodes -> Nodes \cup {NULL}], NEW s \in Seq(Nodes), NEW f, NEW l,
         Links(nxt, f, l, s)
  PROVE  /\ s = <<>> => f = NULL /\ l = NULL
         /\ s # <<>> => /\ f \in Nodes /\ l \in Nodes /\ f = Head(s)
                        /\ On(f, s) /\ On(l, s) /\ nxt[l] = NULL
         /\ (s = <<>>) <=> (f = NULL)
         /\ (s = <<>>) <=> (l = NULL)
  <1>1. CASE s = <<>>
    BY <1>1, Zenon DEF Links
  <1>2. CASE s # <<>>
    <2>1. Len(s) \in Nat /\ Len(s) >= 1 /\ DOMAIN s = 1..Len(s) /\ Head(s) = s[1]
      BY <1>2, TailFacts, Zenon
    <2>2. f = s[1] /\ l = s[Len(s)] /\ nxt[l] = NULL
      BY <1>2, Zenon DEF Links
    <2>3. s[1] \in Nodes /\ s[Len(s)] \in Nodes /\ On(s[1], s) /\ On(s[Len(s)], s)
      <3>1. 1 \in DOMAIN s /\ Len(s) \in DOMAIN s
        BY <2>1
      <3>2. \A i \in DOMAIN s : s[i] \in Nodes
        BY ONLY s \in Seq(Nodes)
      <3> QED BY <3>1, <3>2, Zenon DEF On
    <2> QED BY <1>2, <2>1, <2>2, <2>3, QueueAssumption, Zenon
  <1> QED BY <1>1, <1>2, Zenon

\* A pointer of a node that is not on the list does not matter to it.
LEMMA LinksFrame ==
  ASSUME NEW nxt \in [Nodes -> Nodes \cup {NULL}], NEW s \in Seq(Nodes), NEW f, NEW l,
         NEW n \in Nodes, NEW x, Links(nxt, f, l, s), ~On(n, s)
  PROVE  Links([nxt EXCEPT ![n] = x], f, l, s)
  <1>1. CASE s = <<>>
    BY <1>1, Zenon DEF Links
  <1>2. CASE s # <<>>
    <2>1. Len(s) \in Nat /\ Len(s) >= 1 /\ DOMAIN s = 1..Len(s)
      BY <1>2, TailFacts, Zenon
    <2>2. \A i \in 1..Len(s) : s[i] \in Nodes /\ s[i] # n
      BY <2>1 DEF On
    <2>3. \A i \in 1..Len(s) : [nxt EXCEPT ![n] = x][s[i]] = nxt[s[i]]
      BY <2>2, Zenon
    <2>4. \A i \in 1..(Len(s) - 1) : i \in 1..Len(s)
      BY <2>1
    <2>5. Len(s) \in 1..Len(s)
      BY <2>1
    <2> QED BY <1>2, <2>3, <2>4, <2>5, Zenon DEF Links
  <1> QED BY <1>1, <1>2, Zenon

\* "if (last == NULL) first = n else last->next = n; last = n" appends a node that leads
\* nowhere.
LEMMA LinksAppend ==
  ASSUME NEW nxt \in [Nodes -> Nodes \cup {NULL}], NEW s \in Seq(Nodes), NEW f, NEW l,
         NEW n \in Nodes, Links(nxt, f, l, s), NoRepeats(s), ~On(n, s), nxt[n] = NULL
  PROVE  Links(LinkAfter(nxt, l, n), IF l = NULL THEN n ELSE f, n, Append(s, n))
  <1>app. /\ Append(s, n) # <<>> /\ Len(Append(s, n)) = Len(s) + 1
          /\ \A i \in 1..Len(s) : Append(s, n)[i] = s[i]
          /\ Append(s, n)[Len(s) + 1] = n
    BY AppendFacts
  <1>1. CASE s = <<>>
    <2>1. l = NULL
      BY <1>1, Zenon DEF Links
    <2>2. Len(s) = 0
      BY <1>1, Zenon
    <2> QED BY <1>app, <2>1, <2>2 DEF Links, LinkAfter
  <1>2. CASE s # <<>>
    <2>1. Len(s) \in Nat /\ Len(s) >= 1 /\ DOMAIN s = 1..Len(s)
      BY <1>2, TailFacts, Zenon
    <2>2. l # NULL /\ l \in Nodes /\ l = s[Len(s)] /\ f = s[1]
      BY <1>2, LinksEnds DEF Links
    <2>3. l # n
      BY <2>1, <2>2 DEF On
    <2>4. LinkAfter(nxt, l, n) = [nxt EXCEPT ![l] = n]
      BY <2>2, Zenon DEF LinkAfter
    <2>5. LinkAfter(nxt, l, n)[n] = NULL /\ LinkAfter(nxt, l, n)[l] = n
      BY <2>2, <2>3, <2>4, Zenon
    <2>6. ASSUME NEW i \in 1..Len(s)
          PROVE  LinkAfter(nxt, l, n)[Append(s, n)[i]] = Append(s, n)[i + 1]
      <3>0. i \in Nat /\ 1 <= i /\ i <= Len(s)
        BY <2>1
      <3>1. CASE i = Len(s)
        BY <3>1, <2>2, <2>5, <1>app, Zenon
      <3>2. CASE i # Len(s)
        <4>1. i \in 1..(Len(s) - 1) /\ i + 1 \in 1..Len(s)
          BY <3>2, <2>1, BeforeLast, Zenon
        <4>2. nxt[s[i]] = s[i + 1] /\ s[i] \in Nodes
          BY <4>1, <1>2 DEF Links
        <4>3. s[i] # l
          <5>1. i \in DOMAIN s /\ Len(s) \in DOMAIN s
            BY <2>1
          <5> QED BY <5>1, <3>2, <2>2, Zenon DEF NoRepeats
        <4> QED BY <4>1, <4>2, <4>3, <2>4, <1>app, Zenon
      <3> QED BY <3>1, <3>2, Zenon
    <2>7. Append(s, n)[1] = f
      BY <2>1, <2>2, <1>app
    <2> QED BY <1>app, <2>1, <2>2, <2>5, <2>6, <2>7 DEF Links
  <1> QED BY <1>1, <1>2, Zenon

\* "first = first->next; if (first == NULL) last = NULL" removes the first node.
LEMMA LinksTail ==
  ASSUME NEW nxt \in [Nodes -> Nodes \cup {NULL}], NEW s \in Seq(Nodes), NEW f, NEW l,
         Links(nxt, f, l, s), s # <<>>
  PROVE  Links(nxt, nxt[f], IF nxt[f] = NULL THEN NULL ELSE l, Tail(s))
  <1>1. /\ Len(s) \in Nat /\ Len(s) >= 1 /\ DOMAIN s = 1..Len(s)
        /\ Tail(s) \in Seq(Nodes) /\ Len(Tail(s)) = Len(s) - 1
        /\ \A i \in 1..(Len(s) - 1) : Tail(s)[i] = s[i + 1]
    BY TailFacts, Zenon
  <1>2. f = s[1] /\ l = s[Len(s)] /\ nxt[l] = NULL
    BY Zenon DEF Links
  <1>3. CASE Len(s) = 1
    <2>1. Tail(s) = <<>>
      <3>1. Len(Tail(s)) = 0
        BY <1>1, <1>3
      <3> QED BY <3>1, <1>1, EmptyByLength, Zenon
    <2>2. nxt[f] = NULL
      BY <1>2, <1>3, Zenon
    <2> QED BY <2>1, <2>2, Zenon DEF Links
  <1>4. CASE Len(s) # 1
    <2>1. Tail(s) # <<>>
      BY <1>1, <1>4
    <2>2. nxt[f] = s[2] /\ s[2] \in Nodes
      BY <1>1, <1>2, <1>4 DEF Links
    <2>3. Tail(s)[1] = s[2] /\ Tail(s)[Len(s) - 1] = s[Len(s)]
      BY <1>1, <1>4
    <2>4. ASSUME NEW i \in 1..(Len(Tail(s)) - 1) PROVE nxt[Tail(s)[i]] = Tail(s)[i + 1]
      <3>1. i \in 1..(Len(s) - 1) /\ i + 1 \in 1..(Len(s) - 1)
        BY <1>1
      <3> QED BY <3>1, <1>1, Zenon DEF Links
    <2> QED BY <1>1, <1>2, <2>1, <2>2, <2>3, <2>4, QueueAssumption, Zenon DEF Links
  <1> QED BY <1>3, <1>4, Zenon

\* The first list followed by the second, "last_free_node->next = first_filled_node".
LEMMA LinksConcat ==
  ASSUME NEW nxt \in [Nodes -> Nodes \cup {NULL}], NEW s \in Seq(Nodes), NEW t \in Seq(Nodes),
         NEW f, NEW l, NEW g, NEW m, Links(nxt, f, l, s), Links(nxt, g, m, t), t # <<>>,
         NoRepeats(s), \A n \in Nodes : ~(On(n, s) /\ On(n, t))
  PROVE  Links(LinkAfter(nxt, l, g), IF l = NULL THEN g ELSE f, m, s \o t)
  <1>t. Len(t) \in Nat /\ Len(t) >= 1 /\ DOMAIN t = 1..Len(t)
    BY TailFacts, Zenon
  <1>con. /\ Len(s \o t) = Len(s) + Len(t)
          /\ \A i \in 1..Len(s) : (s \o t)[i] = s[i]
          /\ \A i \in 1..Len(t) : (s \o t)[Len(s) + i] = t[i]
    BY ConcatFacts
  <1>1. CASE s = <<>>
    <2>1. l = NULL
      BY <1>1, LinksEnds, Zenon
    <2>2. s \o t = t
      BY <1>1
    <2> QED BY <2>1, <2>2, Zenon DEF LinkAfter
  <1>2. CASE s # <<>>
    <2>1. Len(s) \in Nat /\ Len(s) >= 1 /\ DOMAIN s = 1..Len(s)
      BY <1>2, TailFacts, Zenon
    <2>2. l # NULL /\ l \in Nodes /\ l = s[Len(s)] /\ f = s[1] /\ On(l, s)
      BY <1>2, LinksEnds DEF Links
    <2>3. ~On(l, t)
      BY <2>2, Zenon
    <2> DEFINE nn == [nxt EXCEPT ![l] = g]
    <2>4. LinkAfter(nxt, l, g) = nn
      BY <2>2, Zenon DEF LinkAfter
    <2>5. Links(nn, g, m, t)
      BY <2>2, <2>3, LinksFrame, Zenon
    <2>6. g = t[1] /\ m = t[Len(t)] /\ nn[m] = NULL
          /\ \A i \in 1..(Len(t) - 1) : nn[t[i]] = t[i + 1]
      BY <2>5, Zenon DEF Links
    <2>7. nn[l] = g
      BY <2>2, Zenon
    <2>8. ASSUME NEW i \in 1..(Len(s) + Len(t) - 1)
          PROVE  nn[(s \o t)[i]] = (s \o t)[i + 1]
      <3>0. i \in Nat /\ 1 <= i /\ i <= Len(s) + Len(t) - 1
        BY <2>1, <1>t
      <3>1. CASE i < Len(s)
        <4>1. i \in 1..(Len(s) - 1) /\ i \in 1..Len(s) /\ i + 1 \in 1..Len(s)
          BY <3>1, <2>1
        <4>2. nxt[s[i]] = s[i + 1] /\ s[i] \in Nodes
          BY <4>1, <1>2 DEF Links
        <4>3. s[i] # l
          BY <3>1, <4>1, <2>1, <2>2 DEF NoRepeats
        <4>4. nn[s[i]] = nxt[s[i]]
          BY <4>2, <4>3, Zenon
        <4> QED BY <4>1, <4>2, <4>4, <1>con, Zenon
      <3>2. CASE i = Len(s)
        <4>1. (s \o t)[i] = l /\ (s \o t)[i + 1] = t[1]
          BY <3>2, <2>1, <2>2, <1>con, <1>t
        <4> QED BY <4>1, <2>6, <2>7, Zenon
      <3>3. CASE i > Len(s)
        <4>1. i - Len(s) \in 1..(Len(t) - 1) /\ i - Len(s) \in 1..Len(t)
              /\ i - Len(s) + 1 \in 1..Len(t)
          BY <3>3, <2>1, <1>t
        <4>2. (s \o t)[i] = t[i - Len(s)] /\ (s \o t)[i + 1] = t[i - Len(s) + 1]
          <5>1. Len(s) + (i - Len(s)) = i /\ Len(s) + (i - Len(s) + 1) = i + 1
            BY <2>1
          <5> QED BY <5>1, <4>1, <1>con
        <4> QED BY <4>1, <4>2, <2>6, Zenon
      <3> QED BY <3>0, <3>1, <3>2, <3>3, <2>1, Trichotomy, Zenon
    <2>9. (s \o t)[1] = f /\ (s \o t)[Len(s) + Len(t)] = m /\ s \o t # <<>>
      BY <2>1, <2>2, <2>6, <1>con, <1>t
    <2> HIDE DEF nn
    <2> QED BY <1>con, <2>1, <2>2, <2>4, <2>6, <2>8, <2>9, <1>t DEF Links
  <1> QED BY <1>1, <1>2, Zenon

-----------------------------------------------------------------------------
\* The part of queue_put that moves the first free node behind the filled nodes.
LEMMA FilledLinks ==
  ASSUME PointerInv, NEW p \in Producers, NEW m \in Messages \cup {NULL}, PutFills(p, m), LinkFilled
  PROVE  /\ next' \in [Nodes -> Nodes \cup {NULL}]
         /\ detached' # NULL => next'[detached'] = NULL
         /\ PointersFormLists'
  <1>inv. /\ free \in Seq(Nodes) /\ filled \in Seq(Nodes) /\ detached \in Nodes \cup {NULL}
          /\ next \in [Nodes -> Nodes \cup {NULL}]
          /\ detached # NULL => next[detached] = NULL
          /\ Links(next, first_free_node, last_free_node, free)
          /\ Links(next, first_filled_node, last_filled_node, filled)
    BY Zenon DEF PointerInv, TypeOK, PointersFormLists
  <1>det. detached' = detached
    BY Zenon DEF PutFills
  <1>ends. /\ (free = <<>>) <=> (first_free_node = NULL)
           /\ (filled = <<>>) <=> (last_filled_node = NULL)
           /\ free # <<>> => first_free_node \in Nodes /\ first_free_node = Head(free)
           /\ filled # <<>> => last_filled_node \in Nodes /\ On(last_filled_node, filled)
    BY <1>inv, LinksEnds, Zenon
  <1>1. CASE free = <<>>
    <2>1. UNCHANGED pointers /\ UNCHANGED <<free, filled>>
      BY <1>1, <1>ends, Zenon DEF LinkFilled, PutFills
    <2> QED BY <2>1, <1>inv, <1>det, Zenon DEF PointersFormLists, pointers, freePtrs, filledPtrs
  <1>2. CASE free # <<>>
    <2> DEFINE n == first_free_node
               cut == [next EXCEPT ![n] = NULL]
    <2>1. /\ n \in Nodes /\ n = Head(free)
          /\ free' = Tail(free) /\ filled' = Append(filled, n)
      BY <1>2, <1>ends, Zenon DEF PutFills
    <2>2. /\ next' = LinkAfter(cut, last_filled_node, n)
          /\ first_free_node' = next[n]
          /\ last_free_node' = IF next[n] = NULL THEN NULL ELSE last_free_node
          /\ first_filled_node' = IF last_filled_node = NULL THEN n ELSE first_filled_node
          /\ last_filled_node' = n
      BY <1>2, <1>ends, Zenon DEF LinkFilled, UnlinkFirstFree
    <2>3. /\ NoRepeats(Tail(free)) /\ ~On(n, Tail(free)) /\ ~On(n, filled) /\ NoRepeats(filled)
          /\ (detached # NULL => detached # n)
      <3>1. On(n, free)
        BY <1>2, <1>inv, <2>1, OnTail, Zenon
      <3> QED BY <1>2, <1>inv, <2>1, <3>1, NoRepeatsTail, Zenon DEF PointerInv, NodesConserved
    <2>4. cut \in [Nodes -> Nodes \cup {NULL}] /\ cut[n] = NULL
      BY <1>inv, <2>1, Zenon
    <2>tail. Tail(free) \in Seq(Nodes)
      BY <1>2, <1>inv, TailFacts, Zenon
    <2>5. Links(cut, first_free_node', last_free_node', Tail(free))
      <3>1. Links(next, first_free_node', last_free_node', Tail(free))
        BY <1>2, <1>inv, <2>2, LinksTail, Zenon
      <3> QED BY <3>1, <1>inv, <2>1, <2>3, <2>tail, LinksFrame, Zenon
    <2>6. Links(cut, first_filled_node, last_filled_node, filled)
      BY <1>inv, <2>1, <2>3, LinksFrame, Zenon
    <2>7. Links(next', first_filled_node', last_filled_node', filled')
      BY <2>1, <2>2, <2>3, <2>4, <2>6, <1>inv, LinksAppend, Zenon
    <2>8. /\ next' \in [Nodes -> Nodes \cup {NULL}]
          /\ Links(next', first_free_node', last_free_node', free')
          /\ detached' # NULL => next'[detached'] = NULL
      <3>d. detached # NULL => cut[detached] = NULL
        BY <1>inv, <2>1, <2>3, Zenon
      <3>1. CASE filled = <<>>
        BY <3>1, <3>d, <1>ends, <1>det, <2>1, <2>2, <2>4, <2>5, Zenon DEF LinkAfter
      <3>2. CASE filled # <<>>
        <4>1. next' = [cut EXCEPT ![last_filled_node] = n] /\ last_filled_node \in Nodes
          BY <3>2, <1>ends, <2>2, Zenon DEF LinkAfter
        <4>2. ~On(last_filled_node, Tail(free))
          BY <3>2, <1>ends, <1>2, <1>inv, OnTail, Zenon DEF PointerInv, NodesConserved
        <4>3. detached # NULL => detached # last_filled_node
          BY <3>2, <1>ends, Zenon DEF PointerInv, NodesConserved
        <4>4. Links(next', first_free_node', last_free_node', free')
          BY <4>1, <4>2, <2>1, <2>4, <2>5, <2>tail, LinksFrame, Zenon
        <4>5. next' \in [Nodes -> Nodes \cup {NULL}]
          BY <4>1, <2>1, <2>4, Zenon
        <4> QED BY <4>1, <4>3, <4>4, <4>5, <3>d, <1>det, <2>4, <1>inv, Zenon
      <3> QED BY <3>1, <3>2, Zenon
    <2> QED BY <2>7, <2>8, Zenon DEF PointersFormLists
  <1> QED BY <1>1, <1>2, Zenon

\* Every call relinks the nodes the way it moves them between the lists.
LEMMA PointerStep == PointerInv /\ [ListNext]_<<vars, pointers>> => PointerInv'
  <1> SUFFICES ASSUME PointerInv, [ListNext]_<<vars, pointers>>
               PROVE  PointerInv'
    BY Zenon
  <1>next. [Next]_vars
    BY Zenon DEF ListNext, Next, ListPut, ListPutResume, ListDetach, ListComplete, ListReset
  <1>base. TypeOK' /\ NodesConserved'
    BY <1>next, TypeStep, ConservedStep, Zenon DEF PointerInv
  <1> DEFINE Goal == /\ next' \in [Nodes -> Nodes \cup {NULL}]
                     /\ detached' # NULL => next'[detached'] = NULL
                     /\ PointersFormLists'
  <1> SUFFICES Goal
    BY <1>base, Zenon DEF PointerInv
  <1>inv. /\ free \in Seq(Nodes) /\ filled \in Seq(Nodes) /\ detached \in Nodes \cup {NULL}
          /\ next \in [Nodes -> Nodes \cup {NULL}]
          /\ detached # NULL => next[detached] = NULL
          /\ Links(next, first_free_node, last_free_node, free)
          /\ Links(next, first_filled_node, last_filled_node, filled)
    BY Zenon DEF PointerInv, TypeOK, PointersFormLists
  <1>ends. /\ (free = <<>>) <=> (first_free_node = NULL)
           /\ (free = <<>>) <=> (last_free_node = NULL)
           /\ (filled = <<>>) <=> (first_filled_node = NULL)
           /\ free # <<>> => last_free_node \in Nodes /\ On(last_free_node, free)
           /\ filled # <<>> => first_filled_node \in Nodes /\ first_filled_node = Head(filled)
    BY <1>inv, LinksEnds, Zenon
  <1>same. ASSUME UNCHANGED <<free, filled, detached, pointers>> PROVE Goal
    BY <1>same, <1>inv, Zenon DEF PointersFormLists, pointers, freePtrs, filledPtrs
  <1>1. ASSUME NEW p \in Producers, NEW m \in Messages, ListPut(p, m) PROVE Goal
    <2>1. CASE m \in TooLong \/ (blocking /\ (poison \/ first_free_node = NULL))
      <3>1. UNCHANGED pointers
        BY <1>1, <2>1, Zenon DEF ListPut
      <3>2. PutFails(p) \/ PutWaits(p, m)
        BY <1>1, <2>1, <1>ends, Zenon DEF ListPut, Put
      <3> QED BY <3>1, <3>2, <1>same, Zenon DEF PutFails, PutWaits
    <2>2. CASE m \notin TooLong /\ (blocking => ~poison /\ first_free_node # NULL)
      <3>1. LinkFilled /\ PutFills(p, m)
        BY <1>1, <2>2, <1>ends, Zenon DEF ListPut, Put
      <3> HIDE DEF Goal
      <3> QED BY <3>1, FilledLinks, Zenon DEF Goal
    <2> QED BY <2>1, <2>2, Zenon
  <1>2. ASSUME NEW p \in Producers, ListPutResume(p) PROVE Goal
    <2>1. CASE poison \/ first_free_node = NULL
      <3>1. UNCHANGED pointers
        BY <1>2, <2>1, Zenon DEF ListPutResume
      <3>2. PutFails(p) \/ PutWaits(p, putting[p])
        BY <1>2, <2>1, <1>ends, Zenon DEF ListPutResume, PutResume
      <3> QED BY <3>1, <3>2, <1>same, Zenon DEF PutFails, PutWaits
    <2>2. CASE ~(poison \/ first_free_node = NULL)
      <3>1. LinkFilled /\ PutFills(p, putting[p])
        BY <1>2, <2>2, <1>ends, Zenon DEF ListPutResume, PutResume
      <3>2. putting[p] \in Messages \cup {NULL}
        BY Zenon DEF PointerInv, TypeOK
      <3> HIDE DEF Goal
      <3> QED BY <3>1, <3>2, FilledLinks, Zenon DEF Goal
    <2> QED BY <2>1, <2>2, Zenon
  <1>3. CASE ListDetach
    <2>1. CASE filled = <<>>
      <3>1. UNCHANGED pointers
        BY <1>3, <2>1, <1>ends, Zenon DEF ListDetach
      <3>2. UNCHANGED <<free, filled, detached>>
        BY <1>3, <2>1, Zenon DEF ListDetach, Take, Peak
      <3> QED BY <3>1, <3>2, <1>same, Zenon
    <2>2. CASE filled # <<>>
      <3> DEFINE n == first_filled_node
      <3>1. /\ next' = [next EXCEPT ![n] = NULL]
            /\ first_filled_node' = next[n]
            /\ last_filled_node' = IF next[n] = NULL THEN NULL ELSE last_filled_node
            /\ UNCHANGED freePtrs
        BY <1>3, <2>2, <1>ends, Zenon DEF ListDetach
      <3>2. detached' = n /\ filled' = Tail(filled) /\ free' = free /\ n \in Nodes
        BY <1>3, <2>2, <1>ends, Zenon DEF ListDetach, Take, Peak, Detach
      <3>3. ~On(n, Tail(filled)) /\ ~On(n, free) /\ Tail(filled) \in Seq(Nodes)
        <4>1. On(n, filled)
          BY <2>2, <1>inv, <1>ends, OnTail, Zenon
        <4> QED BY <4>1, <2>2, <1>inv, <1>ends, NoRepeatsTail, TailFacts, Zenon
                DEF PointerInv, NodesConserved
      <3>4. Links(next, first_filled_node', last_filled_node', Tail(filled))
        BY <2>2, <1>inv, <3>1, LinksTail, Zenon
      <3>5. Links(next', first_filled_node', last_filled_node', filled')
        BY <3>1, <3>2, <3>3, <3>4, <1>inv, LinksFrame, Zenon
      <3>6. Links(next', first_free_node', last_free_node', free')
        BY <3>1, <3>2, <3>3, <1>inv, LinksFrame, Zenon DEF freePtrs
      <3>7. next' \in [Nodes -> Nodes \cup {NULL}] /\ next'[n] = NULL
        BY <3>1, <3>2, <1>inv, Zenon
      <3> QED BY <3>2, <3>5, <3>6, <3>7, Zenon DEF PointersFormLists
    <2> QED BY <2>1, <2>2, Zenon
  <1>4. CASE ListComplete
    <2>1. /\ detached \in Nodes /\ next[detached] = NULL
          /\ detached' = NULL /\ free' = Append(free, detached) /\ filled' = filled
      BY <1>4, <1>inv, Zenon DEF ListComplete, Complete
    <2>2. /\ next' = LinkAfter(next, last_free_node, detached)
          /\ first_free_node' = IF last_free_node = NULL THEN detached ELSE first_free_node
          /\ last_free_node' = detached
          /\ UNCHANGED filledPtrs
      BY <1>4, Zenon DEF ListComplete
    <2>3. ~On(detached, free) /\ NoRepeats(free)
      BY <2>1, QueueAssumption, Zenon DEF PointerInv, NodesConserved
    <2>4. Links(next', first_free_node', last_free_node', free')
      BY <2>1, <2>2, <2>3, <1>inv, LinksAppend, Zenon
    <2>5. /\ next' \in [Nodes -> Nodes \cup {NULL}]
          /\ Links(next', first_filled_node', last_filled_node', filled')
      <3>1. CASE free = <<>>
        BY <3>1, <1>ends, <1>inv, <2>1, <2>2, Zenon DEF LinkAfter, filledPtrs
      <3>2. CASE free # <<>>
        <4>1. next' = [next EXCEPT ![last_free_node] = detached] /\ last_free_node \in Nodes
          BY <3>2, <1>ends, <2>2, Zenon DEF LinkAfter
        <4>2. ~On(last_free_node, filled)
          BY <3>2, <1>ends, Zenon DEF PointerInv, NodesConserved
        <4>3. Links(next', first_filled_node, last_filled_node, filled)
          BY <4>1, <4>2, <1>inv, LinksFrame, Zenon
        <4> QED BY <4>1, <4>3, <2>1, <2>2, <1>inv, Zenon DEF filledPtrs
      <3> QED BY <3>1, <3>2, Zenon
    <2> QED BY <2>1, <2>4, <2>5, Zenon DEF PointersFormLists
  <1>5. CASE ListReset
    <2>1. detached' = NULL /\ free' = free \o filled /\ filled' = <<>>
      BY <1>5, Zenon DEF ListReset, Reset
    <2>2. CASE filled = <<>>
      <3>1. UNCHANGED pointers
        BY <1>5, <2>2, <1>ends, Zenon DEF ListReset
      <3>2. free \o filled = free
        BY <2>2, <1>inv
      <3> QED BY <3>1, <3>2, <2>1, <2>2, <1>inv, Zenon DEF PointersFormLists, pointers, freePtrs, filledPtrs
    <2>3. CASE filled # <<>>
      <3>1. /\ next' = LinkAfter(next, last_free_node, first_filled_node)
            /\ first_free_node' = IF last_free_node = NULL THEN first_filled_node ELSE first_free_node
            /\ last_free_node' = last_filled_node
            /\ first_filled_node' = NULL /\ last_filled_node' = NULL
        BY <1>5, <2>3, <1>ends, Zenon DEF ListReset
      <3>2. NoRepeats(free) /\ \A n \in Nodes : ~(On(n, free) /\ On(n, filled))
        BY Zenon DEF PointerInv, NodesConserved
      <3>3. Links(next', first_free_node', last_free_node', free')
        BY <2>1, <2>3, <3>1, <3>2, <1>inv, LinksConcat, Zenon
      <3>4. Links(next', first_filled_node', last_filled_node', filled')
        BY <2>1, <3>1, Zenon DEF Links
      <3>5. next' \in [Nodes -> Nodes \cup {NULL}]
        BY <3>1, <1>inv, <1>ends, <2>3, Zenon DEF LinkAfter
      <3> QED BY <2>1, <3>3, <3>4, <3>5, Zenon DEF PointersFormLists
    <2> QED BY <2>2, <2>3, Zenon
  <1>6. CASE /\ Interrupt \/ Destroy \/ (\E t \in Threads : SpuriousWakeup(t)) \/ Stopped
             /\ UNCHANGED pointers
    BY <1>6, <1>same, Zenon DEF Interrupt, Destroy, SpuriousWakeup, Stopped, vars
  <1>7. CASE UNCHANGED <<vars, pointers>>
    BY <1>7, <1>same, Zenon DEF vars
  <1> QED
    BY <1>1, <1>2, <1>3, <1>4, <1>5, <1>6, <1>7, Zenon DEF ListNext

\* queue_create's chain of nodes is the free list.
LEMMA PointerInit == ListInit => PointerInv
  <1> SUFFICES ASSUME ListInit PROVE PointerInv
    BY Zenon
  <1>1. TypeOK /\ NodesConserved
    BY TypeInit, ConservedInit, Zenon DEF ListInit
  <1>2. next \in [Nodes -> Nodes \cup {NULL}]
    BY QueueAssumption DEF ListInit, Nodes
  <1>3. /\ free = [i \in Nodes |-> i] /\ filled = <<>> /\ detached = NULL
        /\ free \in Seq(Nodes)
    BY <1>1, Zenon DEF ListInit, Init, TypeOK
  <1>4. Len(free) = QueueSize /\ free # <<>>
    BY <1>3, QueueAssumption DEF Nodes
  <1>5. \A i \in Nodes : free[i] = i
    BY <1>3, Zenon
  <1>6. Links(next, first_free_node, last_free_node, free)
    BY <1>4, <1>5, QueueAssumption DEF ListInit, Links, Nodes
  <1>7. Links(next, first_filled_node, last_filled_node, filled)
    BY <1>3, Zenon DEF ListInit, Links
  <1> QED BY <1>1, <1>2, <1>3, <1>6, <1>7, Zenon DEF PointerInv, PointersFormLists

\* Whatever calls queue.c gets, by however many threads and for whatever queue_size, its
\* first, last and next pointers are the lists of module Queue: with NodesAreConserved,
\* destroy_queue frees every node once.
THEOREM PointersAreLists == ListSpec => []PointersFormLists
  <1>1. PointerInv => PointersFormLists
    BY Zenon DEF PointerInv
  <1> QED BY <1>1, PointerInit, PointerStep, PTL DEF ListSpec

\* The functions with their pointers are those of module Queue: what is proved of Queue holds
\* of them.
THEOREM ListsImplementQueue == ListSpec => Spec
  <1>1. ListInit => Init
    BY Zenon DEF ListInit
  <1>2. [ListNext]_<<vars, pointers>> => [Next]_vars
    BY Zenon DEF ListNext, Next, ListPut, ListPutResume, ListDetach, ListComplete, ListReset
  <1> QED BY <1>1, <1>2, PTL DEF ListSpec, Spec

\* The linked lists keep every promise of the queue: queue.c with its pointers is a bounded FIFO,
\* loses no node and no wakeup, and leaves a message alone while a consumer reads it.
THEOREM ListsImplementFifo == ListSpec => [](NodesConserved /\ NoLostWakeup) /\ DetachedUntouched /\ ImplementsFifo
  BY ListsImplementQueue, NodesAreConserved, WakeupsAreNotLost, DetachedIsUntouched, QueueImplementsFifo, PTL
=============================================================================
