------------------------------ MODULE QueueList ------------------------------
(***************************************************************************)
(* The linked lists of src/queue.c, pointer by pointer.  Module Queue has  *)
(* the two lists as sequences; here every function also relinks the nodes  *)
(* as the code does, deciding by its pointers alone, in the same step: the *)
(* functions run under the mutex.                                          *)
(***************************************************************************)
EXTENDS Queue

VARIABLES next,                                  \* node -> next node or NULL
          first_free_node, last_free_node,
          first_filled_node, last_filled_node

freePtrs == <<first_free_node, last_free_node>>
filledPtrs == <<first_filled_node, last_filled_node>>
pointers == <<next, freePtrs, filledPtrs>>

\* queue_create links the nodes in the order of their allocation.
ListInit ==
  /\ Init
  /\ next = [n \in Nodes |-> IF n = QueueSize THEN NULL ELSE n + 1]
  /\ first_free_node = 1
  /\ last_free_node = QueueSize
  /\ first_filled_node = NULL
  /\ last_filled_node = NULL

\* next after "if (last == NULL) first = n else last->next = n".
LinkAfter(nxt, last, n) == IF last = NULL THEN nxt ELSE [nxt EXCEPT ![last] = n]

\* Mutant: to_fill->next = NULL is missing.
UnlinkFirstFreeKeepsNext == next

\* to_fill->next = NULL for the first free node.
UnlinkFirstFree == [next EXCEPT ![first_free_node] = NULL]

\* The pointers in the rest of queue_put, once it is known that it fills a node; a node that
\* is overwritten stays where it is.
LinkFilled ==
  \/ first_free_node = NULL /\ UNCHANGED pointers
  \/ /\ first_free_node # NULL
     /\ next' = LinkAfter(UnlinkFirstFree, last_filled_node, first_free_node)
     /\ first_free_node' = next[first_free_node]
     /\ last_free_node' = IF first_free_node' = NULL THEN NULL ELSE last_free_node
     /\ first_filled_node' = IF last_filled_node = NULL THEN first_free_node ELSE first_filled_node
     /\ last_filled_node' = first_free_node

\* queue_put
ListPut(p, m) ==
  /\ Put(p, m)
  /\ \/ /\ m \in TooLong \/ (blocking /\ (poison \/ first_free_node = NULL))
        /\ UNCHANGED pointers
     \/ /\ m \notin TooLong
        /\ blocking => ~poison /\ first_free_node # NULL
        /\ LinkFilled

\* ... after pthread_cond_wait
ListPutResume(p) ==
  /\ PutResume(p)
  /\ \/ (poison \/ first_free_node = NULL) /\ UNCHANGED pointers
     \/ ~poison /\ first_free_node # NULL /\ LinkFilled

\* queue_take and queue_peak
ListDetach ==
  /\ Take \/ Peak
  /\ \/ first_filled_node = NULL /\ UNCHANGED pointers
     \/ /\ first_filled_node # NULL
        /\ first_filled_node' = next[first_filled_node]
        /\ next' = [next EXCEPT ![first_filled_node] = NULL]
        /\ last_filled_node' = IF first_filled_node' = NULL THEN NULL ELSE last_filled_node
        /\ UNCHANGED freePtrs

\* queue_complete
ListComplete ==
  /\ Complete
  /\ first_free_node' = IF last_free_node = NULL THEN detached ELSE first_free_node
  /\ next' = LinkAfter(next, last_free_node, detached)
  /\ last_free_node' = detached
  /\ UNCHANGED filledPtrs

\* queue_reset: the filled list is linked behind the free list.
ListReset ==
  /\ Reset
  /\ \/ first_filled_node = NULL /\ UNCHANGED pointers
     \/ /\ first_filled_node # NULL
        /\ first_free_node' = IF last_free_node = NULL THEN first_filled_node ELSE first_free_node
        /\ next' = LinkAfter(next, last_free_node, first_filled_node)
        /\ last_free_node' = last_filled_node
        /\ first_filled_node' = NULL
        /\ last_filled_node' = NULL

ListNext ==
  /\ \/ \E p \in Producers : ListPutResume(p) \/ \E m \in Messages : ListPut(p, m)
     \/ ListDetach
     \/ ListComplete
     \/ ListReset
     \/ /\ Interrupt \/ Destroy \/ (\E t \in Threads : SpuriousWakeup(t)) \/ Stopped
        /\ UNCHANGED pointers
  /\ UNCHANGED blocking

ListSpec == ListInit /\ [][ListNext]_<<vars, pointers>>

ListFairSpec == ListSpec /\ Fairness

-----------------------------------------------------------------------------
\* A loop over the next pointers nxt from first meets the nodes of the sequence in its order and ends at
\* last, behind which there is nothing.
Links(nxt, first, last, list) ==
  IF list = <<>> THEN first = NULL /\ last = NULL
  ELSE /\ first = list[1]
       /\ last = list[Len(list)]
       /\ nxt[last] = NULL
       /\ \A i \in 1..(Len(list) - 1) : nxt[list[i]] = list[i + 1]

\* After any calls in any order the pointers are the two lists: an append behind a stale
\* last pointer would lose a node, a next that was not cleared would join the lists.  With
\* NodesConserved, destroy_queue, which walks both lists and frees the detached node, meets
\* every node that queue_create allocated and none of them twice.
PointersFormLists ==
  /\ Links(next, first_free_node, last_free_node, free)
  /\ Links(next, first_filled_node, last_filled_node, filled)
=============================================================================
