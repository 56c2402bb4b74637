--------------------------- MODULE MpscRingProofs ---------------------------
(* TypeOK of MpscRing for any producers; for one producer NoDataRace, and    *)
(* that every step is a step of BoundedFifo or none.                         *)
EXTENDS MpscRing, SequenceTheorems, TLAPS

\* The successor of an index is an index.
LEMMA NextInSlots ==
  ASSUME NEW i \in Slots
  PROVE  NextItr(i) \in Slots
  BY RingAssumption DEF NextItr, Slots

\* Two indices with the same successor are the same index.
LEMMA NextInjective ==
  ASSUME NEW i \in Slots, NEW j \in Slots, NextItr(i) = NextItr(j)
  PROVE  i = j
<1>1. i + 1 \in 1 .. CAP /\ j + 1 \in 1 .. CAP /\ CAP \in Nat \ {0}
  BY RingAssumption DEF Slots
<1>2. \A k \in 1 .. CAP : k % CAP = IF k = CAP THEN 0 ELSE k
  BY <1>1
<1>3. (i + 1) % CAP = IF i + 1 = CAP THEN 0 ELSE i + 1
  BY <1>1, <1>2
<1>4. (j + 1) % CAP = IF j + 1 = CAP THEN 0 ELSE j + 1
  BY <1>1, <1>2
<1>. QED  BY <1>1, <1>3, <1>4 DEF NextItr, Slots

\* The ring begins empty and every thread outside of it.
LEMMA TypeInit == Init => TypeOK
<1>. SUFFICES ASSUME Init PROVE TypeOK
  OBVIOUS
<1>1. 0 \in Slots
  BY RingAssumption DEF Slots
<1>. QED  BY <1>1 DEF Init, TypeOK

\* Every step keeps the type.
LEMMA TypeStep == TypeOK /\ [Next]_vars => TypeOK'
<1>. SUFFICES ASSUME TypeOK, [Next]_vars PROVE TypeOK'
  OBVIOUS
<1>. USE DEF TypeOK, shared, producer, consumer, Goto
<1>1. ASSUME NEW p \in Producers, PushBegin(p) PROVE TypeOK'
  BY <1>1 DEF PushBegin
<1>2. ASSUME NEW p \in Producers, PushBusy(p) PROVE TypeOK'
  BY <1>2 DEF PushBusy
<1>3. ASSUME NEW p \in Producers, PushHead(p) PROVE TypeOK'
  BY <1>3 DEF PushHead
<1>4. ASSUME NEW p \in Producers, PushClaim(p) PROVE TypeOK'
  BY <1>4, NextInSlots DEF PushClaim
<1>5. ASSUME NEW p \in Producers, PushRetry(p) PROVE TypeOK'
  BY <1>5 DEF PushRetry
<1>6. ASSUME NEW p \in Producers, PushWrite(p) PROVE TypeOK'
  BY <1>6 DEF PushWrite
<1>7. ASSUME NEW p \in Producers, PushPublish(p) PROVE TypeOK'
  BY <1>7, NextInSlots DEF PushPublish
<1>8. CASE PopHead
  BY <1>8 DEF PopHead
<1>9. CASE PopDepleted
  BY <1>9 DEF PopDepleted
<1>10. CASE PopTail
  BY <1>10 DEF PopTail
<1>11. CASE PopRead
  BY <1>11 DEF PopRead
<1>12. CASE PopAdvance
  BY <1>12, NextInSlots DEF PopAdvance
<1>13. CASE UNCHANGED vars
  BY <1>13 DEF vars
<1>. QED
  BY <1>1, <1>2, <1>3, <1>4, <1>5, <1>6, <1>7, <1>8, <1>9, <1>10, <1>11,
     <1>12, <1>13 DEF Next, Push, Pop

\* Whatever the producers, every index stays inside the buffer
\* (ringatomic.hpp:22).
THEOREM TypeCorrect == Spec => []TypeOK
<1>. QED  BY TypeInit, TypeStep, PTL DEF Spec

-----------------------------------------------------------------------------
(* With one producer, _tail_push runs one slot ahead of _tail_pop between    *)
(* the claim and the publication and is equal to it otherwise; the slot      *)
(* claimed is neither the one the consumer reads nor, once advanced, the     *)
(* head of the ring.                                                         *)

ProducerInv(p) ==
  /\ pc[p] \in {"idle", "head", "cas"} => tail_push = tail_pop
  /\ pc[p] \in {"head", "cas"} => tail[p] = tail_push
  /\ pc[p] \in {"write", "publish"} =>
       tail[p] = tail_pop /\ tail_push = NextItr(tail[p])
  /\ pc[p] \in {"cas", "write", "publish"} => NextItr(tail[p]) # head

ConsumerInv ==
  /\ cpc # "idle" => chead = head
  /\ cpc \in {"read", "advance"} => head # tail_pop

IInv == /\ TypeOK
        /\ \A p \in Producers : ProducerInv(p)
        /\ ConsumerInv

\* With nobody inside, the ring is empty.
LEMMA IInvInit == Init => IInv
  BY TypeInit DEF Init, IInv, ProducerInv, ConsumerInv

\* Every access keeps how the indices lag behind one another.
LEMMA IInvStep ==
  ASSUME SingleProducer
  PROVE  IInv /\ [Next]_vars => IInv'
<1>. SUFFICES ASSUME IInv, [Next]_vars
              PROVE  (\A p \in Producers : ProducerInv(p))' /\ ConsumerInv'
  BY TypeStep DEF IInv
<1>. USE DEF IInv, TypeOK, ProducerInv, ConsumerInv, shared, producer,
             consumer, Goto
<1>a. \A p, q \in Producers : p = q
  BY SingleProducer DEF SingleProducer
<1>1. ASSUME NEW p \in Producers, PushBegin(p)
      PROVE  (\A q \in Producers : ProducerInv(q))' /\ ConsumerInv'
  BY <1>1, <1>a DEF PushBegin
<1>2. ASSUME NEW p \in Producers, PushBusy(p)
      PROVE  (\A q \in Producers : ProducerInv(q))' /\ ConsumerInv'
  BY <1>2, <1>a DEF PushBusy
<1>3. ASSUME NEW p \in Producers, PushHead(p)
      PROVE  (\A q \in Producers : ProducerInv(q))' /\ ConsumerInv'
  BY <1>3, <1>a DEF PushHead, LooksFull
<1>4. ASSUME NEW p \in Producers, PushClaim(p)
      PROVE  (\A q \in Producers : ProducerInv(q))' /\ ConsumerInv'
  BY <1>4, <1>a DEF PushClaim
<1>5. ASSUME NEW p \in Producers, PushRetry(p)
      PROVE  (\A q \in Producers : ProducerInv(q))' /\ ConsumerInv'
  BY <1>5, <1>a DEF PushRetry
<1>6. ASSUME NEW p \in Producers, PushWrite(p)
      PROVE  (\A q \in Producers : ProducerInv(q))' /\ ConsumerInv'
  BY <1>6, <1>a DEF PushWrite
<1>7. ASSUME NEW p \in Producers, PushPublish(p)
      PROVE  (\A q \in Producers : ProducerInv(q))' /\ ConsumerInv'
  BY <1>7, <1>a DEF PushPublish
<1>8. CASE PopHead
  BY <1>8 DEF PopHead
<1>9. CASE PopDepleted
  BY <1>9 DEF PopDepleted
<1>10. CASE PopTail
  BY <1>10 DEF PopTail
<1>11. CASE PopRead
  BY <1>11 DEF PopRead
<1>12. CASE PopAdvance
  <2>1. ASSUME NEW p \in Producers,
               pc[p] \in {"cas", "write", "publish"}
        PROVE  NextItr(tail[p]) # NextItr(head)
    <3>1. tail[p] = tail_pop /\ head # tail_pop
      BY <1>12, <2>1 DEF PopAdvance
    <3>. QED  BY <3>1, NextInjective
  <2>. QED  BY <1>12, <2>1 DEF PopAdvance
<1>13. CASE UNCHANGED vars
  BY <1>13 DEF vars
<1>. QED
  BY <1>1, <1>2, <1>3, <1>4, <1>5, <1>6, <1>7, <1>8, <1>9, <1>10, <1>11,
     <1>12, <1>13 DEF Next, Push, Pop

\* The invariant keeps the producer out of the consumer's slot.
LEMMA IInvImplies ==
  ASSUME SingleProducer
  PROVE  IInv => NoDataRace
<1>. SUFFICES ASSUME IInv PROVE NoDataRace
  OBVIOUS
<1>1. ASSUME NEW p \in Producers PROVE Writing(p) \cap Reading = {}
  BY DEF IInv, ProducerInv, ConsumerInv, Writing, Reading
<1>2. \A p, q \in Producers : p = q
  BY SingleProducer DEF SingleProducer
<1>. QED  BY <1>1, <1>2 DEF NoDataRace

\* With a single producer, no slot is ever filled while the consumer moves a
\* payload out of it (ringatomic.hpp:40 and :51), for every capacity.
THEOREM OneProducerNoRace ==
  ASSUME SingleProducer
  PROVE  Spec => []NoDataRace
<1>1. Init => IInv
  BY IInvInit
<1>2. IInv /\ [Next]_vars => IInv'
  BY IInvStep, SingleProducer
<1>3. IInv => NoDataRace
  BY IInvImplies, SingleProducer
<1>. QED  BY <1>1, <1>2, <1>3, PTL DEF Spec

-----------------------------------------------------------------------------
(* With one producer the ring is a bounded queue.  A payload is in a call    *)
(* from its beginning to its end, and in the slot from the write on; so the  *)
(* publication appends it, the read hands the first one over and the store   *)
(* to _head gives its place back.                                            *)

PayloadInv ==
  \A p \in Producers : /\ pc[p] = "idle" <=> src[p] = NoPayload
                       /\ pc[p] = "publish" => buffer[tail[p]] = src[p]

\* No slot holds a payload at first.
LEMMA PayloadInit == Init => PayloadInv
  BY DEF Init, PayloadInv

\* Every access keeps the payloads of the visible slots.
LEMMA PayloadStep ==
  ASSUME SingleProducer
  PROVE  IInv /\ PayloadInv /\ [Next]_vars => PayloadInv'
<1>. SUFFICES ASSUME IInv, PayloadInv, [Next]_vars PROVE PayloadInv'
  OBVIOUS
<1>. USE DEF IInv, TypeOK, PayloadInv, shared, producer, consumer, Goto
<1>a. (\A p, q \in Producers : p = q) /\ NoPayload \notin Payloads
  BY SingleProducer, RingAssumption DEF SingleProducer
<1>1. ASSUME NEW p \in Producers, Push(p) PROVE PayloadInv'
  <2>1. CASE PushBegin(p)
    BY <1>a, <2>1 DEF PushBegin
  <2>2. CASE PushBusy(p) \/ PushHead(p) \/ PushClaim(p) \/ PushRetry(p)
    BY <1>a, <2>2 DEF PushBusy, PushHead, PushClaim, PushRetry
  <2>3. CASE PushWrite(p) \/ PushPublish(p)
    BY <1>a, <2>3 DEF PushWrite, PushPublish
  <2>. QED  BY <1>1, <2>1, <2>2, <2>3 DEF Push
<1>2. CASE PopHead \/ PopDepleted \/ PopTail \/ PopAdvance
  BY <1>2 DEF PopHead, PopDepleted, PopTail, PopAdvance
<1>3. CASE PopRead
  <2>1. ASSUME NEW p \in Producers, pc[p] = "publish" PROVE tail[p] # chead
    BY <1>3, <2>1 DEF PopRead, ProducerInv, ConsumerInv
  <2>. QED  BY <1>3, <2>1 DEF PopRead
<1>4. CASE UNCHANGED vars
  BY <1>4 DEF vars
<1>. QED  BY <1>1, <1>2, <1>3, <1>4 DEF Next, Pop

\* An index that has left the buffer by less than its length comes back
\* into it.
LEMMA WrapsOnce ==
  ASSUME NEW a \in 0 .. 2 * CAP - 1
  PROVE  a % CAP = IF a < CAP THEN a ELSE a - CAP
<1>0. CAP \in Nat /\ CAP > 0 /\ a \in Nat
  BY RingAssumption
<1>1. CASE a < CAP
  BY <1>0, <1>1
<1>2. CASE a >= CAP
  BY <1>0, <1>2
<1>. QED  BY <1>0, <1>1, <1>2

HeldLen == (tail_pop + CAP - head) % CAP
HeldSlot(i) == (head + i - 1) % CAP
HeldAt(i) == IF i = 1 /\ cpc = "advance" THEN dst ELSE buffer[HeldSlot(i)]

\* The payloads held are those from _head up to _tail_pop, around the end of
\* the buffer if need be, and never of the slot at _tail_pop.
HeldFacts ==
  /\ HeldLen \in Nat
  /\ HeldLen = IF head <= tail_pop THEN tail_pop - head
                                   ELSE tail_pop + CAP - head
  /\ \A i \in 1 .. HeldLen :
       /\ HeldSlot(i) \in Slots /\ HeldSlot(i) # tail_pop
       /\ HeldSlot(i) = IF head + i - 1 < CAP THEN head + i - 1
                                              ELSE head + i - 1 - CAP
       /\ HeldAt(i) \in Payloads \cup {NoPayload}
  /\ Held \in Seq(Payloads \cup {NoPayload})
  /\ Len(Held) = HeldLen
  /\ \A i \in 1 .. HeldLen : Held[i] = HeldAt(i)

\* The payloads held, as a sequence from the head to the tail.
LEMMA HeldIs == TypeOK => HeldFacts
<1>. SUFFICES ASSUME TypeOK PROVE HeldFacts
  OBVIOUS
<1>0. /\ CAP \in Nat /\ CAP > 0
      /\ head \in 0 .. CAP - 1 /\ tail_pop \in 0 .. CAP - 1
  BY RingAssumption DEF TypeOK, Slots
<1>1. /\ HeldLen = IF head <= tail_pop THEN tail_pop - head
                                       ELSE tail_pop + CAP - head
      /\ HeldLen \in Nat
  <2>1. tail_pop + CAP - head \in 0 .. 2 * CAP - 1
    BY <1>0
  <2>. QED  BY <1>0, <2>1, WrapsOnce DEF HeldLen
<1>2. ASSUME NEW i \in 1 .. HeldLen
      PROVE  /\ HeldSlot(i) \in Slots /\ HeldSlot(i) # tail_pop
             /\ HeldSlot(i) = IF head + i - 1 < CAP THEN head + i - 1
                                                    ELSE head + i - 1 - CAP
             /\ HeldAt(i) \in Payloads \cup {NoPayload}
  <2>1. i \in Nat /\ head + i - 1 \in 0 .. 2 * CAP - 1
    BY <1>0, <1>1
  <2>2. HeldSlot(i) = IF head + i - 1 < CAP THEN head + i - 1
                                           ELSE head + i - 1 - CAP
    BY <1>0, <2>1, WrapsOnce DEF HeldSlot
  <2>3. HeldSlot(i) \in Slots /\ HeldSlot(i) # tail_pop
    BY <1>0, <1>1, <2>1, <2>2 DEF Slots
  <2>. QED  BY <2>2, <2>3 DEF HeldAt, TypeOK
<1>3. Held = [i \in 1 .. HeldLen |-> HeldAt(i)]
  BY DEF Held, HeldLen, HeldAt, HeldSlot
<1>4. Held \in [1 .. HeldLen -> Payloads \cup {NoPayload}]
  BY <1>2, <1>3
<1>5. Held \in Seq(Payloads \cup {NoPayload}) /\ Len(Held) = HeldLen
  BY <1>1, <1>4
<1>. QED  BY <1>1, <1>2, <1>3, <1>5 DEF HeldFacts

\* ... and so they are after a step.
LEMMA HeldIsNext == TypeOK' => HeldFacts'
  BY HeldIs, PTL

\* The queue is the same when its slots and what they count for are.
LEMMA HeldStays ==
  ASSUME TypeOK, TypeOK', HeldLen' = HeldLen,
         \A i \in 1 .. HeldLen : HeldAt(i)' = HeldAt(i)
  PROVE  Held' = Held
<1>1. HeldFacts /\ HeldFacts'
  BY HeldIs, HeldIsNext
<1>2. /\ Held \in Seq(Payloads \cup {NoPayload})
      /\ Held' \in Seq(Payloads \cup {NoPayload})
      /\ Len(Held') = Len(Held)
      /\ \A i \in 1 .. Len(Held) : Held'[i] = Held[i]
  BY <1>1 DEF HeldFacts
<1>. QED  BY <1>2, SeqEqual

\* A store to _tail_pop publishes the payload of the slot it was at.
LEMMA PublishAppends ==
  ASSUME TypeOK, TypeOK', NEW m \in Payloads, ConsumerInv,
         NextItr(tail_pop) # head, buffer[tail_pop] = m,
         tail_pop' = NextItr(tail_pop), UNCHANGED <<head, buffer, cpc, dst>>
  PROVE  Len(Held) < CAP - 1 /\ Held' = Append(Held, m)
<1>0. /\ CAP \in Nat /\ CAP > 0
      /\ head \in 0 .. CAP - 1 /\ tail_pop \in 0 .. CAP - 1
  BY RingAssumption DEF TypeOK, Slots
<1>1. HeldFacts /\ HeldFacts'
  BY HeldIs, HeldIsNext
<1>2. NextItr(tail_pop) = IF tail_pop + 1 < CAP THEN tail_pop + 1 ELSE 0
  BY <1>0, WrapsOnce DEF NextItr
<1>a. /\ HeldLen \in Nat /\ HeldLen' \in Nat
      /\ HeldLen = IF head <= tail_pop THEN tail_pop - head
                                       ELSE tail_pop + CAP - head
      /\ HeldLen' = IF head <= tail_pop' THEN tail_pop' - head
                                         ELSE tail_pop' + CAP - head
  BY <1>1 DEF HeldFacts
<1>3. HeldLen < CAP - 1 /\ HeldLen' = HeldLen + 1
  BY <1>0, <1>2, <1>a
<1>4. ASSUME NEW i \in 1 .. HeldLen PROVE HeldAt(i)' = HeldAt(i)
  BY DEF HeldAt, HeldSlot
<1>5. ASSUME NEW n \in Nat, n = HeldLen + 1 PROVE HeldAt(n)' = m
  <2>1. n \in 1 .. HeldLen'
    BY <1>3, <1>5, <1>a
  <2>2. HeldSlot(n)' = IF head + n - 1 < CAP THEN head + n - 1
                                            ELSE head + n - 1 - CAP
    BY <1>1, <2>1 DEF HeldFacts
  <2>3. HeldSlot(n)' = tail_pop
    BY <1>0, <1>5, <1>a, <2>2
  <2>4. n = 1 => cpc # "advance"
    BY <1>0, <1>5, <1>a DEF ConsumerInv
  <2>. QED  BY <2>3, <2>4 DEF HeldAt
<1>6. m \in Payloads \cup {NoPayload} /\ Held \in Seq(Payloads \cup {NoPayload})
  BY <1>1 DEF HeldFacts
<1>7. /\ Append(Held, m) \in Seq(Payloads \cup {NoPayload})
      /\ Len(Append(Held, m)) = Len(Held) + 1
      /\ \A i \in 1 .. Len(Held) : Append(Held, m)[i] = Held[i]
      /\ Append(Held, m)[Len(Held) + 1] = m
  BY <1>6, AppendProperties
<1>8. ASSUME NEW i \in 1 .. Len(Held') PROVE Held'[i] = Append(Held, m)[i]
  <2>1. Held'[i] = HeldAt(i)' /\ i \in 1 .. HeldLen + 1 /\ Len(Held) = HeldLen
    BY <1>1, <1>3, <1>8 DEF HeldFacts
  <2>2. CASE i = HeldLen + 1
    BY <1>5, <1>7, <1>a, <2>1, <2>2
  <2>3. CASE i # HeldLen + 1
    <3>1. i \in 1 .. HeldLen
      BY <1>1, <2>1, <2>3 DEF HeldFacts
    <3>. QED  BY <1>1, <1>4, <1>7, <2>1, <3>1 DEF HeldFacts
  <2>. QED  BY <2>2, <2>3
<1>9. Held' \in Seq(Payloads \cup {NoPayload}) /\ Len(Held') = Len(Append(Held, m))
  BY <1>1, <1>3, <1>7 DEF HeldFacts
<1>10. Held' = Append(Held, m)
  BY <1>7, <1>8, <1>9, SeqEqual
<1>. QED  BY <1>1, <1>3, <1>10 DEF HeldFacts

\* A store to _head gives back the place of the first payload.
LEMMA AdvanceGivesBack ==
  ASSUME TypeOK, TypeOK', head # tail_pop, cpc' # "advance",
         head' = NextItr(head), UNCHANGED <<tail_pop, buffer, dst>>
  PROVE  Held # << >> /\ Held' = Tail(Held)
<1>0. /\ CAP \in Nat /\ CAP > 0
      /\ head \in 0 .. CAP - 1 /\ tail_pop \in 0 .. CAP - 1
  BY RingAssumption DEF TypeOK, Slots
<1>1. HeldFacts /\ HeldFacts'
  BY HeldIs, HeldIsNext
<1>2. NextItr(head) = IF head + 1 < CAP THEN head + 1 ELSE 0
  BY <1>0, WrapsOnce DEF NextItr
<1>3. /\ HeldLen \in Nat /\ HeldLen' \in Nat
      /\ HeldLen = IF head <= tail_pop THEN tail_pop - head
                                       ELSE tail_pop + CAP - head
      /\ HeldLen' = IF head' <= tail_pop THEN tail_pop - head'
                                         ELSE tail_pop + CAP - head'
  BY <1>1 DEF HeldFacts
<1>4. HeldLen > 0 /\ HeldLen' = HeldLen - 1
  BY <1>0, <1>2, <1>3
<1>5. ASSUME NEW i \in 1 .. HeldLen', NEW j \in Nat, j = i + 1
      PROVE  HeldAt(i)' = HeldAt(j)
  <2>1. j \in 1 .. HeldLen /\ j # 1
    BY <1>3, <1>4, <1>5
  <2>2. /\ HeldSlot(j) = IF head + j - 1 < CAP THEN head + j - 1
                                               ELSE head + j - 1 - CAP
        /\ HeldSlot(i)' = IF head' + i - 1 < CAP THEN head' + i - 1
                                                 ELSE head' + i - 1 - CAP
    BY <1>1, <2>1 DEF HeldFacts
  <2>3. HeldSlot(i)' = HeldSlot(j)
    BY <1>0, <1>2, <1>3, <1>4, <1>5, <2>1, <2>2
  <2>. QED  BY <2>1, <2>3 DEF HeldAt
<1>6. /\ Held \in Seq(Payloads \cup {NoPayload}) /\ Len(Held) = HeldLen
      /\ Held' \in Seq(Payloads \cup {NoPayload}) /\ Len(Held') = HeldLen'
      /\ \A i \in 1 .. HeldLen : Held[i] = HeldAt(i)
      /\ \A i \in 1 .. HeldLen' : Held'[i] = HeldAt(i)'
  BY <1>1 DEF HeldFacts
<1>7. Held # << >>
  BY <1>4, <1>6
<1>8. /\ Tail(Held) \in Seq(Payloads \cup {NoPayload})
      /\ Len(Tail(Held)) = Len(Held) - 1
      /\ \A i \in 1 .. Len(Tail(Held)) : Tail(Held)[i] = Held[i + 1]
  BY <1>6, <1>7, HeadTailProperties
<1>9. ASSUME NEW i \in 1 .. Len(Held') PROVE Held'[i] = Tail(Held)[i]
  <2>1. i \in 1 .. HeldLen' /\ i \in 1 .. Len(Tail(Held)) /\ i + 1 \in 1 .. HeldLen
    BY <1>3, <1>4, <1>6, <1>8
  <2>2. HeldAt(i)' = HeldAt(i + 1)
    BY <1>5, <2>1
  <2>. QED  BY <1>6, <1>8, <2>1, <2>2
<1>10. Held' = Tail(Held)
  BY <1>3, <1>4, <1>6, <1>8, <1>9, SeqEqual
<1>. QED  BY <1>7, <1>10

-----------------------------------------------------------------------------
(* Every step of the ring is a step of the queue, or none. *)

\* Every access of a push is a step of the queue, or none.
LEMMA PushIsFifo ==
  ASSUME SingleProducer, IInv, PayloadInv, TypeOK', NEW p \in Producers, Push(p)
  PROVE  [Fifo!Next]_(Fifo!vars)
<1>. USE DEF shared, producer, consumer, Goto
<1>0. /\ TypeOK /\ ProducerInv(p) /\ ConsumerInv
      /\ pc[p] = "idle" <=> src[p] = NoPayload
      /\ pc[p] = "publish" => buffer[tail[p]] = src[p]
      /\ src \in [Producers -> Payloads \cup {NoPayload}]
  BY DEF IInv, PayloadInv, TypeOK
<1>1. ASSUME UNCHANGED <<head, tail_pop, buffer, cpc, dst>> PROVE Held' = Held
  BY <1>0, <1>1, HeldStays DEF HeldLen, HeldAt, HeldSlot
<1>2. CASE PushBegin(p)
  <2>1. Held' = Held
    BY <1>1, <1>2 DEF PushBegin
  <2>2. Fifo!Call(p)
    BY <1>0, <1>2, <2>1 DEF PushBegin, Fifo!Call
  <2>. QED  BY <2>2 DEF Fifo!Next
<1>3. CASE PushBusy(p)
  <2>1. Held' = Held
    BY <1>1, <1>3 DEF PushBusy
  <2>2. Len(Held) = CAP - 1
    <3>1. /\ CAP \in Nat /\ CAP > 0
          /\ head \in 0 .. CAP - 1 /\ tail_pop \in 0 .. CAP - 1
      BY <1>0, RingAssumption DEF TypeOK, Slots
    <3>2. NextItr(tail_pop) = head
      BY <1>0, <1>3 DEF PushBusy, LooksFull, ProducerInv
    <3>3. NextItr(tail_pop) = IF tail_pop + 1 < CAP THEN tail_pop + 1 ELSE 0
      BY <3>1, WrapsOnce DEF NextItr
    <3>4. /\ Len(Held) = HeldLen
          /\ HeldLen = IF head <= tail_pop THEN tail_pop - head
                                           ELSE tail_pop + CAP - head
      BY <1>0, HeldIs DEF HeldFacts
    <3>5. HeldLen = CAP - 1
      <4>1. CASE tail_pop + 1 < CAP
        <5>1. head = tail_pop + 1
          BY <3>2, <3>3, <4>1
        <5>2. HeldLen = tail_pop + CAP - head
          BY <3>1, <3>4, <5>1
        <5>. QED  BY <3>1, <5>1, <5>2
      <4>2. CASE ~ (tail_pop + 1 < CAP)
        <5>1. head = 0
          BY <3>2, <3>3, <4>2
        <5>2. tail_pop = CAP - 1
          BY <3>1, <4>2
        <5>. QED  BY <3>1, <3>4, <5>1, <5>2
      <4>. QED  BY <4>1, <4>2
    <3>. QED  BY <3>4, <3>5
  <2>3. Fifo!Refuse(p)
    BY <1>0, <1>3, <2>1, <2>2 DEF PushBusy, Fifo!Refuse
  <2>. QED  BY <2>3 DEF Fifo!Next
<1>4. CASE PushHead(p) \/ PushClaim(p) \/ PushRetry(p)
  <2>1. Held' = Held
    BY <1>1, <1>4 DEF PushHead, PushClaim, PushRetry
  <2>. QED  BY <1>4, <2>1 DEF PushHead, PushClaim, PushRetry, Fifo!vars
<1>5. CASE PushWrite(p)
  <2>1. \A i \in 1 .. HeldLen : HeldSlot(i) # tail[p]
    BY <1>0, <1>5, HeldIs DEF HeldFacts, PushWrite, ProducerInv
  <2>2. \A i \in 1 .. HeldLen : HeldSlot(i) \in Slots
    BY <1>0, HeldIs DEF HeldFacts
  <2>3. \A i \in 1 .. HeldLen : HeldAt(i)' = HeldAt(i)
    BY <1>0, <1>5, <2>1, <2>2 DEF PushWrite, HeldAt, HeldSlot, TypeOK
  <2>4. HeldLen' = HeldLen
    BY <1>5 DEF PushWrite, HeldLen
  <2>5. Held' = Held
    BY <1>0, <2>3, <2>4, HeldStays
  <2>. QED  BY <1>5, <2>5 DEF PushWrite, Fifo!vars
<1>6. CASE PushPublish(p)
  <2>1. /\ src[p] \in Payloads /\ src[p] # NoPayload
        /\ tail[p] = tail_pop /\ NextItr(tail_pop) # head
        /\ buffer[tail_pop] = src[p] /\ tail_pop' = NextItr(tail_pop)
        /\ UNCHANGED <<head, buffer, cpc, dst>>
    BY <1>0, <1>6 DEF PushPublish, ProducerInv
  <2>2. Len(Held) < CAP - 1 /\ Held' = Append(Held, src[p])
    <3>. DEFINE m == src[p]
    <3>1. m \in Payloads /\ buffer[tail_pop] = m
      BY <2>1
    <3>. HIDE DEF m
    <3>2. Len(Held) < CAP - 1 /\ Held' = Append(Held, m)
      BY <1>0, <2>1, <3>1, PublishAppends
    <3>. QED  BY <3>2 DEF m
  <2>3. Fifo!Accept(p)
    BY <1>6, <2>1, <2>2 DEF PushPublish, Fifo!Accept
  <2>. QED  BY <2>3 DEF Fifo!Next
<1>. QED  BY <1>2, <1>3, <1>4, <1>5, <1>6 DEF Push

\* Every access of a pop is a step of the queue, or none.
LEMMA PopIsFifo ==
  ASSUME IInv, TypeOK', Pop
  PROVE  [Fifo!Next]_(Fifo!vars)
<1>. USE DEF shared, producer, consumer
<1>0. TypeOK /\ ConsumerInv
  BY DEF IInv
<1>1. CASE PopHead \/ PopDepleted \/ PopTail
  <2>1. /\ UNCHANGED <<head, tail_pop, buffer, dst, src>>
        /\ cpc # "advance" /\ cpc' # "advance"
    BY <1>1 DEF PopHead, PopDepleted, PopTail
  <2>2. Held' = Held
    BY <1>0, <2>1, HeldStays DEF HeldLen, HeldAt, HeldSlot
  <2>. QED  BY <2>1, <2>2 DEF Fifo!vars
<1>2. CASE PopRead
  <2>1. /\ chead = head /\ head # tail_pop /\ cpc = "read" /\ cpc' = "advance"
        /\ dst' = buffer[head] /\ buffer' = [buffer EXCEPT ![head] = NoPayload]
        /\ UNCHANGED <<head, tail_pop, src>>
    BY <1>0, <1>2 DEF PopRead, ConsumerInv
  <2>2. /\ CAP \in Nat /\ CAP > 0
        /\ head \in 0 .. CAP - 1 /\ tail_pop \in 0 .. CAP - 1
    BY <1>0, RingAssumption DEF TypeOK, Slots
  <2>3. HeldFacts
    BY <1>0, HeldIs
  <2>4. /\ HeldLen \in Nat /\ Len(Held) = HeldLen
        /\ Held \in Seq(Payloads \cup {NoPayload})
        /\ HeldLen = IF head <= tail_pop THEN tail_pop - head
                                         ELSE tail_pop + CAP - head
        /\ \A i \in 1 .. HeldLen :
             /\ HeldSlot(i) = IF head + i - 1 < CAP THEN head + i - 1
                                                    ELSE head + i - 1 - CAP
             /\ Held[i] = HeldAt(i)
    BY <2>3 DEF HeldFacts
  <2>5. HeldLen > 0
    BY <2>1, <2>2, <2>4
  <2>6. HeldSlot(1) = head
    BY <2>2, <2>4, <2>5
  <2>7. Held # << >> /\ Head(Held) = buffer[head]
    <3>1. Held # << >>
      BY <2>4, <2>5
    <3>2. Head(Held) = Held[1]
      BY <2>4, <3>1
    <3>. QED  BY <2>1, <2>4, <2>5, <2>6, <3>1, <3>2 DEF HeldAt
  <2>8. ASSUME NEW i \in 1 .. HeldLen PROVE HeldAt(i)' = HeldAt(i)
    <3>1. CASE i = 1
      BY <2>1, <2>6, <3>1 DEF HeldAt
    <3>2. CASE i # 1
      <4>1. HeldSlot(i) # head
        BY <2>2, <2>4, <3>2
      <4>2. HeldSlot(i) \in Slots /\ HeldSlot(i)' = HeldSlot(i)
        BY <2>1, <2>3 DEF HeldFacts, HeldSlot
      <4>. QED  BY <1>0, <2>1, <3>2, <4>1, <4>2 DEF HeldAt, TypeOK
    <3>. QED  BY <3>1, <3>2
  <2>9. Held' = Held
    <3>1. HeldLen' = HeldLen
      BY <2>1 DEF HeldLen
    <3>. QED  BY <1>0, <2>8, <3>1, HeldStays
  <2>10. Fifo!Take
    BY <2>1, <2>7, <2>9 DEF Fifo!Take
  <2>. QED  BY <2>10 DEF Fifo!Next
<1>3. CASE PopAdvance
  <2>1. /\ head # tail_pop /\ head' = NextItr(head)
        /\ cpc = "advance" /\ cpc' = "idle"
        /\ UNCHANGED <<tail_pop, buffer, dst, src>>
    BY <1>0, <1>3 DEF PopAdvance, ConsumerInv
  <2>2. Held' = Tail(Held)
    BY <1>0, <2>1, AdvanceGivesBack
  <2>3. Fifo!GiveBack
    BY <2>1, <2>2 DEF Fifo!GiveBack
  <2>. QED  BY <2>3 DEF Fifo!Next
<1>. QED  BY <1>1, <1>2, <1>3 DEF Pop

\* The ring begins as the empty queue.
LEMMA FifoInit == Init => Fifo!Init
<1>. SUFFICES ASSUME Init PROVE Fifo!Init
  OBVIOUS
<1>1. HeldFacts /\ head = 0 /\ tail_pop = 0 /\ CAP \in Nat
  BY TypeInit, HeldIs, RingAssumption DEF Init
<1>2. HeldLen = 0
  BY <1>1 DEF HeldFacts
<1>3. Held = << >>
  BY <1>1, <1>2, EmptySeq DEF HeldFacts
<1>. QED  BY <1>3 DEF Init, Fifo!Init

\* Together: every access is a step of the queue, or none.
LEMMA FifoStep ==
  ASSUME SingleProducer
  PROVE  IInv /\ PayloadInv /\ [Next]_vars => [Fifo!Next]_(Fifo!vars)
<1>. SUFFICES ASSUME IInv, PayloadInv, [Next]_vars PROVE [Fifo!Next]_(Fifo!vars)
  OBVIOUS
<1>1. TypeOK'
  BY TypeStep DEF IInv
<1>2. CASE UNCHANGED vars
  BY <1>2 DEF vars, Fifo!vars, Held
<1>3. CASE Next
  BY <1>1, <1>3, PushIsFifo, PopIsFifo, SingleProducer DEF Next
<1>. QED  BY <1>2, <1>3

\* The ring of one producer is a bounded queue, for every capacity: nothing is
\* lost, repeated or reordered, push answers BUSY only when the ring is full
\* and pop DEPLETED takes nothing (ringatomic.hpp:28-60).
THEOREM OneProducerIsFifo ==
  ASSUME SingleProducer
  PROVE  Spec => Fifo!Init /\ [][Fifo!Next]_(Fifo!vars)
<1>. DEFINE FullInv == IInv /\ PayloadInv
<1>1. Init => FullInv
  BY IInvInit, PayloadInit
<1>2. FullInv /\ [Next]_vars => FullInv'
  BY IInvStep, PayloadStep, SingleProducer
<1>3. FullInv /\ [Next]_vars => [Fifo!Next]_(Fifo!vars)
  BY FifoStep, SingleProducer
<1>. HIDE DEF FullInv
<1>. QED  BY <1>1, <1>2, <1>3, FifoInit, PTL DEF Spec
=============================================================================
