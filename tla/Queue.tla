-------------------------------- MODULE Queue --------------------------------
(***************************************************************************)
(* src/queue.c: producers and one consumer over a fixed pool of nodes that *)
(* move between the free list, the filled list and the detached node.      *)
(* A function of queue.h runs under the queue's mutex, so it is one step   *)
(* up to a pthread_cond_wait, which releases the mutex; the thread goes on *)
(* with another step after it was woken.  One condition variable serves    *)
(* producers and consumer alike and is always broadcast.                   *)
(***************************************************************************)
EXTENDS Naturals, Sequences

CONSTANTS Producers,   \* threads that call queue_put
          Consumer,    \* the thread that calls queue_take, queue_peak, queue_complete
          Messages,    \* what is put into the queue
          TooLong,     \* messages with buffer_len > buffer_size
          QueueSize,   \* number of nodes
          NULL

Threads == Producers \cup {Consumer}
Nodes == 1..QueueSize

ASSUME QueueAssumption ==
  /\ QueueSize \in Nat \ {0}
  /\ Consumer \notin Producers
  /\ TooLong \subseteq Messages
  /\ NULL \notin Messages
  /\ NULL \notin Nodes

VARIABLES free,        \* the list first_free_node .. last_free_node
          filled,      \* the list first_filled_node .. last_filled_node
          detached,    \* detached_node
          buffer,      \* node -> the message copied into it
          poison,      \* poison_pill
          cond,        \* thread -> "running", "waiting" in or "woken" from pthread_cond_wait
          putting,     \* producer -> the message of its blocked queue_put
          ended,       \* queue_take returned NULL: the consumer left its loop
          destroyed,   \* destroy_queue returned
          blocking     \* argument of queue_create

vars == <<free, filled, detached, buffer, poison, cond, putting, ended, destroyed, blocking>>

\* queue_create: every node is on the free list.
Init ==
  /\ free = [i \in Nodes |-> i]
  /\ filled = <<>>
  /\ detached = NULL
  /\ buffer = [n \in Nodes |-> NULL]
  /\ poison = FALSE
  /\ cond = [t \in Threads |-> "running"]
  /\ putting = [p \in Producers |-> NULL]
  /\ ended = FALSE
  /\ destroyed = FALSE
  /\ blocking \in BOOLEAN

\* pthread_cond_broadcast
Broadcast(c) == [t \in Threads |-> IF c[t] = "waiting" THEN "woken" ELSE c[t]]

\* pthread_cond_wait by t
Waiting(t) == [cond EXCEPT ![t] = "waiting"]

-----------------------------------------------------------------------------
\* queue_put returns -1.
PutFails(p) ==
  /\ cond' = [cond EXCEPT ![p] = "running"]
  /\ putting' = [putting EXCEPT ![p] = NULL]
  /\ UNCHANGED <<free, filled, detached, buffer, poison, ended, destroyed>>

\* queue_put waits for a free node.
PutWaits(p, m) ==
  /\ cond' = Waiting(p)
  /\ putting' = [putting EXCEPT ![p] = m]
  /\ UNCHANGED <<free, filled, detached, buffer, poison, ended, destroyed>>

\* The end of queue_put that follows the wait: the first free node, or the last
\* filled node when there is none, gets the message (see NodeToFill).
PutFills(p, m) ==
  /\ \/ /\ free # <<>>
        /\ free' = Tail(free)
        /\ filled' = Append(filled, Head(free))
        /\ buffer' = [buffer EXCEPT ![Head(free)] = m]
     \/ /\ free = <<>>
        /\ filled # <<>>
        /\ buffer' = [buffer EXCEPT ![filled[Len(filled)]] = m]
        /\ UNCHANGED <<free, filled>>
  /\ cond' = [Broadcast(cond) EXCEPT ![p] = "running"]
  /\ putting' = [putting EXCEPT ![p] = NULL]
  /\ UNCHANGED <<detached, poison, ended, destroyed>>

\* queue_put from its call to its return or to pthread_cond_wait.
Put(p, m) ==
  /\ ~destroyed
  /\ cond[p] = "running"
  /\ \/ /\ m \in TooLong \/ (blocking /\ poison)
        /\ PutFails(p)
     \/ /\ m \notin TooLong
        /\ blocking /\ ~poison /\ free = <<>>
        /\ PutWaits(p, m)
     \/ /\ m \notin TooLong
        /\ blocking => ~poison /\ free # <<>>
        /\ PutFills(p, m)

\* queue_put after pthread_cond_wait returned.
PutResume(p) ==
  /\ ~destroyed
  /\ cond[p] = "woken"
  /\ \/ /\ poison
        /\ PutFails(p)
     \/ /\ ~poison
        /\ free = <<>>
        /\ PutWaits(p, putting[p])
     \/ /\ ~poison
        /\ free # <<>>
        /\ PutFills(p, putting[p])

-----------------------------------------------------------------------------
\* Mutant: the node is given back before it was processed.
DetachAndFree ==
  /\ detached' = Head(filled)
  /\ filled' = Tail(filled)
  /\ free' = Append(free, Head(filled))
  /\ cond' = [cond EXCEPT ![Consumer] = "running"]
  /\ UNCHANGED <<buffer, poison, putting, ended, destroyed>>

\* The first filled node becomes the detached node.
Detach ==
  /\ detached' = Head(filled)
  /\ filled' = Tail(filled)
  /\ cond' = [cond EXCEPT ![Consumer] = "running"]
  /\ UNCHANGED <<free, buffer, poison, putting, ended, destroyed>>

\* Mutant: an interrupt ends the consumer before the queue is drained.
TakeNoDrain ==
  /\ ~destroyed
  /\ ~ended
  /\ cond[Consumer] \in {"running", "woken"}
  /\ detached = NULL
  /\ \/ /\ poison
        /\ ended' = TRUE
        /\ cond' = [cond EXCEPT ![Consumer] = "running"]
        /\ UNCHANGED <<free, filled, detached, buffer, poison, putting, destroyed>>
     \/ /\ ~poison /\ filled = <<>>
        /\ cond' = Waiting(Consumer)
        /\ UNCHANGED <<free, filled, detached, buffer, poison, putting, ended, destroyed>>
     \/ /\ ~poison /\ filled # <<>>
        /\ Detach

\* queue_take, from its call or after pthread_cond_wait returned: both check the
\* poison pill and the filled list in the same way.
Take ==
  /\ ~destroyed
  /\ ~ended
  /\ cond[Consumer] \in {"running", "woken"}
  /\ detached = NULL
  /\ \/ /\ poison /\ filled = <<>>
        /\ ended' = TRUE
        /\ cond' = [cond EXCEPT ![Consumer] = "running"]
        /\ UNCHANGED <<free, filled, detached, buffer, poison, putting, destroyed>>
     \/ /\ ~poison /\ filled = <<>>
        /\ cond' = Waiting(Consumer)
        /\ UNCHANGED <<free, filled, detached, buffer, poison, putting, ended, destroyed>>
     \/ /\ filled # <<>>
        /\ Detach

\* queue_peak never waits and does not look at the poison pill; without a pending
\* message it changes nothing.
Peak ==
  /\ ~destroyed
  /\ ~ended
  /\ cond[Consumer] = "running"
  /\ detached = NULL
  /\ filled # <<>>
  /\ Detach

\* Mutant: queue_complete does not wake the producers.
CompleteSilently ==
  /\ ~destroyed
  /\ detached # NULL
  /\ free' = Append(free, detached)
  /\ detached' = NULL
  /\ UNCHANGED <<filled, buffer, poison, cond, putting, ended, destroyed>>

\* queue_complete
Complete ==
  /\ ~destroyed
  /\ detached # NULL
  /\ free' = Append(free, detached)
  /\ detached' = NULL
  /\ cond' = Broadcast(cond)
  /\ UNCHANGED <<filled, buffer, poison, putting, ended, destroyed>>

-----------------------------------------------------------------------------
\* Mutant: queue_interrupt does not wake the threads that wait.
InterruptSilently ==
  /\ ~destroyed
  /\ poison' = TRUE
  /\ UNCHANGED <<free, filled, detached, buffer, cond, putting, ended, destroyed>>

\* queue_interrupt
Interrupt ==
  /\ ~destroyed
  /\ poison' = TRUE
  /\ cond' = Broadcast(cond)
  /\ UNCHANGED <<free, filled, detached, buffer, putting, ended, destroyed>>

\* Mutant: the filled nodes replace the free list instead of joining it.
ResetLosesNodes ==
  /\ ~destroyed
  /\ detached = NULL
  /\ poison \/ \A t \in Threads : cond[t] # "waiting"
  /\ free' = filled
  /\ filled' = <<>>
  /\ poison' = FALSE
  /\ ended' = FALSE
  /\ UNCHANGED <<detached, buffer, cond, putting, destroyed>>

\* queue_reset, as queue.h and its tests use it: no message is being processed, and
\* the queue was interrupted or nobody waits on it (it does not broadcast).  The
\* consumer may enter its loop again.
Reset ==
  /\ ~destroyed
  /\ detached = NULL
  /\ poison \/ \A t \in Threads : cond[t] # "waiting"
  /\ free' = free \o filled
  /\ filled' = <<>>
  /\ poison' = FALSE
  /\ ended' = FALSE
  /\ UNCHANGED <<detached, buffer, cond, putting, destroyed>>

\* destroy_queue, called by the owners after they joined the consumer and when no
\* producer is left inside queue_put.
Destroy ==
  /\ ~destroyed
  /\ ended
  /\ \A t \in Threads : cond[t] = "running"
  /\ destroyed' = TRUE
  /\ UNCHANGED <<free, filled, detached, buffer, poison, cond, putting, ended>>

\* pthread_cond_wait may return without a broadcast.
SpuriousWakeup(t) ==
  /\ ~destroyed
  /\ cond[t] = "waiting"
  /\ cond' = [cond EXCEPT ![t] = "woken"]
  /\ UNCHANGED <<free, filled, detached, buffer, poison, putting, ended, destroyed>>

Stopped == destroyed /\ UNCHANGED vars

Next ==
  /\ \/ \E p \in Producers : PutResume(p) \/ \E m \in Messages : Put(p, m)
     \/ Take
     \/ Peak
     \/ Complete
     \/ Interrupt
     \/ Reset
     \/ Destroy
     \/ \E t \in Threads : SpuriousWakeup(t)
     \/ Stopped
  /\ UNCHANGED blocking

Spec == Init /\ [][Next]_vars

\* A thread inside a queue function goes on when it gets the mutex, and the
\* consumer's loop keeps taking messages and completing them.
Fairness ==
  /\ \A p \in Producers : WF_vars(PutResume(p) /\ UNCHANGED blocking)
  /\ WF_vars(Take /\ UNCHANGED blocking)
  /\ WF_vars(Complete /\ UNCHANGED blocking)

-----------------------------------------------------------------------------
\* Types: lists of nodes, a message in every node that was filled, and a message
\* kept for exactly the producers that are blocked.
TypeOK ==
  /\ free \in Seq(Nodes)
  /\ filled \in Seq(Nodes)
  /\ detached \in Nodes \cup {NULL}
  /\ buffer \in [Nodes -> Messages \cup {NULL}]
  /\ poison \in BOOLEAN
  /\ cond \in [Threads -> {"running", "waiting", "woken"}]
  /\ putting \in [Producers -> Messages \cup {NULL}]
  /\ ended \in BOOLEAN
  /\ destroyed \in BOOLEAN
  /\ blocking \in BOOLEAN

\* The node is on the list.
On(n, list) == \E i \in DOMAIN list : list[i] = n

\* No node is twice on the list.
NoRepeats(list) == \A i, j \in DOMAIN list : list[i] = list[j] => i = j

\* Every node is at exactly one place, whatever the order of calls: on the free
\* list, on the filled list or detached.  Otherwise destroy_queue would leak or
\* free twice, and a producer would write into a message that is pending.
NodesConserved ==
  /\ NoRepeats(free) /\ NoRepeats(filled)
  /\ \A n \in Nodes : On(n, free) \/ On(n, filled) \/ n = detached
  /\ \A n \in Nodes : ~(On(n, free) /\ On(n, filled))
  /\ detached # NULL => ~On(detached, free) /\ ~On(detached, filled)

\* No wakeup is lost: a producer sleeps only while no node is free, the consumer
\* only while nothing is pending, and nobody sleeps after queue_interrupt.  One
\* condition variable serves both sides, so this rests on every broadcast.
NoLostWakeup ==
  /\ \A p \in Producers : cond[p] = "waiting" => free = <<>> /\ ~poison
  /\ cond[Consumer] = "waiting" => filled = <<>> /\ ~poison

\* "input thread cannot read or write into it": nobody writes into the detached
\* node between queue_take and queue_complete, though its reader has no lock.
DetachedUntouched ==
  [][detached # NULL /\ detached' = detached => buffer'[detached] = buffer[detached]]_vars

\* The queue seen through its interface: the contents of the filled nodes.
Contents == [i \in 1..Len(filled) |-> buffer[filled[i]]]

Fifo == INSTANCE BoundedFifo WITH
  q <- [filled   |-> Contents,
        detached |-> IF detached = NULL THEN NULL ELSE buffer[detached],
        poison   |-> poison]

\* The node lists behave like the bounded FIFO: nothing is lost, duplicated or
\* reordered, and an interrupted consumer is stopped only after the last message.
ImplementsFifo == Fifo!FifoSpec

\* queue_interrupt releases every thread that is inside queue_put or queue_take,
\* unless queue_reset takes the poison pill away first.
InterruptReleases ==
  \A t \in Threads : (poison /\ cond[t] # "running") ~> (cond[t] = "running" \/ ~poison)

\* Producers and the consumer never wait for each other: when every producer is
\* inside a blocked queue_put, one of them gets out.
ProducersNeverAllStuck ==
  (\A p \in Producers : cond[p] # "running") ~> (\E p \in Producers : cond[p] = "running")
=============================================================================
