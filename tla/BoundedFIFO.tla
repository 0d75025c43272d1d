---------------------------- MODULE BoundedFIFO ----------------------------
(***************************************************************************)
(* What a pipe promises: bytes come out in the order they went in, each at *)
(* most once, and at most Capacity of them are in transit.                 *)
(***************************************************************************)
EXTENDS Sequences, Naturals

CONSTANTS Byte, Capacity, NoByte

VARIABLES
  queue,   \* bytes in transit
  taken    \* the byte a reader took in the last step, or NoByte

Init == queue = <<>> /\ taken = NoByte

Put(ch) ==
  /\ Len(queue) < Capacity
  /\ queue' = Append(queue, ch)
  /\ taken' = NoByte

Take ==
  /\ queue # <<>>
  /\ queue' = Tail(queue)
  /\ taken' = Head(queue)

Forget == taken' = NoByte /\ UNCHANGED queue

Next == (\E ch \in Byte : Put(ch)) \/ Take \/ Forget

Spec == Init /\ [][Next]_<<queue, taken>>
=============================================================================
