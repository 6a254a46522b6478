----------------------------- MODULE AbstractFifo -----------------------------
(* What a FIFO of the standard library promises: data come out in the order *)
(* they went in, none twice, and never more than Depth are held.            *)
EXTENDS Naturals, Sequences

CONSTANTS Data, Depth, None

VARIABLES
  queue,     \* what has been pushed and not popped
  delivered  \* what the last pop gave, None at first

vars == <<queue, delivered>>

Init == queue = <<>> /\ delivered = None

Push(x) ==
  /\ Len(queue) < Depth
  /\ queue' = Append(queue, x)
  /\ UNCHANGED delivered

Pop ==
  /\ queue # <<>>
  /\ delivered' = Head(queue)
  /\ queue' = Tail(queue)

Reset == queue' = <<>> /\ UNCHANGED delivered

Next == (\E x \in Data : Push(x)) \/ Pop \/ Reset

Spec == Init /\ [][Next]_vars

===============================================================================
