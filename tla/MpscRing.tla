------------------------------ MODULE MpscRing ------------------------------
(* Ring_atomic_MPSC of gep/include/rgh/gep/ringatomic.hpp: a ring of CAP     *)
(* slots shared by the producers that call push and the consumer that calls  *)
(* pop.  Every atomic access of the code is one step; the plain accesses to  *)
(* a slot are steps of their own, so that two threads can be caught on the   *)
(* same slot.  Steps interleave (sequential consistency): the acquire and    *)
(* release pairs of the code order everything one producer and the consumer  *)
(* exchange.  A payload moved from leaves NoPayload behind.                  *)
EXTENDS Naturals, Sequences, FiniteSets

CONSTANTS Producers,   \* the threads that push
          Payloads,    \* the values pushed
          NoPayload,   \* the value of an empty or moved-from object
          CAP          \* the number of slots, CAP_

ASSUME RingAssumption == /\ CAP \in Nat \ {0}
                         /\ NoPayload \notin Payloads

VARIABLES head,        \* _head: the next slot to pop
          tail_push,   \* _tail_push: the next slot to claim
          tail_pop,    \* _tail_pop: the end of what the consumer may read
          buffer,      \* _buffer
          pc,          \* where each producer stands in push
          tail,        \* its local tail
          src,         \* its argument src_
          cpc,         \* where the consumer stands in pop
          chead,       \* its local head
          dst          \* *dst_

shared == <<head, tail_push, tail_pop, buffer>>
producer == <<pc, tail, src>>
consumer == <<cpc, chead, dst>>
vars == <<head, tail_push, tail_pop, buffer, pc, tail, src, cpc, chead, dst>>

Slots == 0 .. CAP - 1

NextItr(i) == (i + 1) % CAP

Init ==
  /\ head = 0 /\ tail_push = 0 /\ tail_pop = 0
  /\ buffer = [i \in Slots |-> NoPayload]
  /\ pc = [p \in Producers |-> "idle"]
  /\ tail = [p \in Producers |-> 0]
  /\ src = [p \in Producers |-> NoPayload]
  /\ cpc = "idle" /\ chead = 0 /\ dst = NoPayload

-----------------------------------------------------------------------------
(* push: a producer claims a slot by a compare-exchange on _tail_push, then  *)
(* fills it, then publishes it by a store to _tail_pop.                      *)

Goto(p, step) == pc' = [pc EXCEPT ![p] = step]

\* push( src_ ): the call, and the first load of _tail_push.
PushBegin(p) ==
  /\ pc[p] = "idle"
  /\ \E m \in Payloads : src' = [src EXCEPT ![p] = m]
  /\ tail' = [tail EXCEPT ![p] = tail_push]
  /\ Goto(p, "head")
  /\ UNCHANGED <<shared, consumer>>

\* Mutant: two slots are kept free instead of one.
FullOneEarly(p) == NextItr(NextItr(tail[p])) = head

\* What the producer takes for a full ring when it loads _head.
LooksFull(p) == NextItr(tail[p]) = head

PushBusy(p) ==
  /\ pc[p] = "head"
  /\ LooksFull(p)
  /\ src' = [src EXCEPT ![p] = NoPayload]
  /\ Goto(p, "idle")
  /\ UNCHANGED <<shared, tail, consumer>>

PushHead(p) ==
  /\ pc[p] = "head"
  /\ ~ LooksFull(p)
  /\ Goto(p, "cas")
  /\ UNCHANGED <<shared, tail, src, consumer>>

\* Mutant: the slot is published by the claim itself.
PushClaimPublished(p) ==
  /\ pc[p] = "cas"
  /\ tail_push = tail[p]
  /\ tail_push' = NextItr(tail[p])
  /\ tail_pop' = NextItr(tail[p])
  /\ Goto(p, "write")
  /\ UNCHANGED <<head, buffer, tail, src, consumer>>

\* The compare-exchange succeeds.
PushClaim(p) ==
  /\ pc[p] = "cas"
  /\ tail_push = tail[p]
  /\ tail_push' = NextItr(tail[p])
  /\ Goto(p, "write")
  /\ UNCHANGED <<head, tail_pop, buffer, tail, src, consumer>>

\* The compare-exchange fails, having lost a race or spuriously (it is the
\* weak one), and reloads tail.
PushRetry(p) ==
  /\ pc[p] = "cas"
  /\ tail' = [tail EXCEPT ![p] = tail_push]
  /\ Goto(p, "head")
  /\ UNCHANGED <<shared, src, consumer>>

PushWrite(p) ==
  /\ pc[p] = "write"
  /\ buffer' = [buffer EXCEPT ![tail[p]] = src[p]]
  /\ Goto(p, "publish")
  /\ UNCHANGED <<head, tail_push, tail_pop, tail, src, consumer>>

PushPublish(p) ==
  /\ pc[p] = "publish"
  /\ tail_pop' = NextItr(tail[p])
  /\ src' = [src EXCEPT ![p] = NoPayload]
  /\ Goto(p, "idle")
  /\ UNCHANGED <<head, tail_push, buffer, tail, consumer>>

Push(p) == \/ PushBegin(p) \/ PushBusy(p) \/ PushHead(p)
           \/ PushClaim(p) \/ PushRetry(p)
           \/ PushWrite(p) \/ PushPublish(p)

-----------------------------------------------------------------------------
(* pop: the consumer loads both indices, moves the payload out of the slot,  *)
(* and only then gives the slot back by a store to _head.                    *)

PopHead ==
  /\ cpc = "idle"
  /\ chead' = head
  /\ cpc' = "tail"
  /\ UNCHANGED <<shared, producer, dst>>

PopDepleted ==
  /\ cpc = "tail"
  /\ chead = tail_pop
  /\ cpc' = "idle"
  /\ UNCHANGED <<shared, producer, chead, dst>>

PopTail ==
  /\ cpc = "tail"
  /\ chead # tail_pop
  /\ cpc' = "read"
  /\ UNCHANGED <<shared, producer, chead, dst>>

PopRead ==
  /\ cpc = "read"
  /\ dst' = buffer[chead]
  /\ buffer' = [buffer EXCEPT ![chead] = NoPayload]
  /\ cpc' = "advance"
  /\ UNCHANGED <<head, tail_push, tail_pop, producer, chead>>

PopAdvance ==
  /\ cpc = "advance"
  /\ head' = NextItr(chead)
  /\ cpc' = "idle"
  /\ UNCHANGED <<tail_push, tail_pop, buffer, producer, chead, dst>>

Pop == PopHead \/ PopDepleted \/ PopTail \/ PopRead \/ PopAdvance

-----------------------------------------------------------------------------

Next == (\E p \in Producers : Push(p)) \/ Pop

(* A call in progress keeps running.  The consumer pops once per frame, for  *)
(* ever (immersive.hpp, _resolve_payloads).  A weak compare-exchange that is *)
(* tried again and again succeeds in the end.                                *)
Fairness ==
  /\ \A p \in Producers :
       /\ WF_vars(PushBusy(p) \/ PushHead(p) \/ PushRetry(p))
       /\ WF_vars(PushWrite(p) \/ PushPublish(p))
       /\ SF_vars(PushClaim(p))
  /\ WF_vars(Pop)

Spec == Init /\ [][Next]_vars /\ Fairness

-----------------------------------------------------------------------------

\* The ring holds indices into the buffer; payloads exist where the code has
\* moved one.
TypeOK ==
  /\ head \in Slots /\ tail_push \in Slots /\ tail_pop \in Slots
  /\ buffer \in [Slots -> Payloads \cup {NoPayload}]
  /\ pc \in [Producers -> {"idle", "head", "cas", "write", "publish"}]
  /\ tail \in [Producers -> Slots]
  /\ src \in [Producers -> Payloads \cup {NoPayload}]
  /\ cpc \in {"idle", "tail", "read", "advance"}
  /\ chead \in Slots
  /\ dst \in Payloads \cup {NoPayload}

\* The condition under which the ring keeps its promise.
SingleProducer == \A p, q \in Producers : p = q

Writing(p) == IF pc[p] \in {"write", "publish"} THEN {tail[p]} ELSE {}
Reading == IF cpc \in {"read", "advance"} THEN {chead} ELSE {}

\* No slot is being filled by a producer (ringatomic.hpp:40) while the
\* consumer moves a payload out of it (:51) or another producer fills it.
NoDataRace ==
  /\ \A p \in Producers : Writing(p) \cap Reading = {}
  /\ \A p, q \in Producers : p # q => Writing(p) \cap Writing(q) = {}

\* What the consumer may read: the slots from _head up to _tail_pop, the
\* first of which it may already have moved out of.
Held ==
  [i \in 1 .. (tail_pop + CAP - head) % CAP |->
     IF i = 1 /\ cpc = "advance" THEN dst ELSE buffer[(head + i - 1) % CAP]]

\* push takes effect when it publishes, pop when it stores _head.
Fifo == INSTANCE BoundedFifo
          WITH pending <- src, queue <- Held, out <- dst,
               handing <- (cpc = "advance"), Capacity <- CAP - 1

\* The ring is a bounded queue: nothing is lost, repeated or reordered, BUSY
\* is answered only when the ring is full, and every call to push returns.
RingIsFifo == Fifo!Spec
=============================================================================
