---------------------------- MODULE BoundedFifo ----------------------------
(* What a bounded multi-producer, single-consumer queue promises: a call to  *)
(* push takes effect at one instant, either appending its payload or         *)
(* refusing it because the queue is full at that instant; pop hands over the *)
(* oldest payload and gives its place back when it returns.                  *)
EXTENDS Naturals, Sequences

CONSTANTS Producers, Payloads, NoPayload, Capacity

VARIABLES pending,   \* the payload of each producer's call in progress
          queue,     \* the payloads accepted and not yet given back
          out,       \* the payload last handed to the consumer
          handing    \* a pop has read Head(queue) and not returned

vars == <<pending, queue, out, handing>>

Init == /\ pending = [p \in Producers |-> NoPayload]
        /\ queue = <<>>
        /\ out = NoPayload
        /\ handing = FALSE

Call(p) ==
  /\ pending[p] = NoPayload
  /\ \E m \in Payloads : pending' = [pending EXCEPT ![p] = m]
  /\ UNCHANGED <<queue, out, handing>>

Accept(p) ==
  /\ pending[p] # NoPayload
  /\ Len(queue) < Capacity
  /\ queue' = Append(queue, pending[p])
  /\ pending' = [pending EXCEPT ![p] = NoPayload]
  /\ UNCHANGED <<out, handing>>

Refuse(p) ==
  /\ pending[p] # NoPayload
  /\ Len(queue) = Capacity
  /\ pending' = [pending EXCEPT ![p] = NoPayload]
  /\ UNCHANGED <<queue, out, handing>>

Take ==
  /\ ~handing
  /\ queue # <<>>
  /\ out' = Head(queue)
  /\ handing' = TRUE
  /\ UNCHANGED <<pending, queue>>

GiveBack ==
  /\ handing
  /\ queue' = Tail(queue)
  /\ handing' = FALSE
  /\ UNCHANGED <<pending, out>>

Next == \/ \E p \in Producers : Call(p) \/ Accept(p) \/ Refuse(p)
        \/ Take
        \/ GiveBack

Fairness == /\ \A p \in Producers : WF_vars(Accept(p) \/ Refuse(p))
            /\ WF_vars(Take)
            /\ WF_vars(GiveBack)

Spec == Init /\ [][Next]_vars /\ Fairness
=============================================================================
