---------------------------- MODULE BoundedFifo ----------------------------
(***************************************************************************)
(* What netsvc_rdwrq promises to its one reader and its one writer: a FIFO *)
(* queue of at most Capacity values.                                       *)
(***************************************************************************)
EXTENDS Naturals, Sequences

CONSTANTS Values, NoValue, Capacity

VARIABLES
  queue,            \* values written and not yet read
  last              \* value the reader got, until it asks again

vars == <<queue, last>>

Init == queue = <<>> /\ last = NoValue

Put(v) ==
  /\ Len(queue) < Capacity
  /\ queue' = Append(queue, v)
  /\ UNCHANGED last

Get ==
  /\ queue # <<>>
  /\ last' = Head(queue)
  /\ queue' = Tail(queue)

\* The reader asks for another value.
Ask == last' = NoValue /\ UNCHANGED queue

Next == Get \/ Ask \/ \E v \in Values : Put(v)

Spec == Init /\ [][Next]_vars
=============================================================================
