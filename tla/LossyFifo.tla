----------------------------- MODULE LossyFifo -----------------------------
(***************************************************************************)
(* What the input path promises: the events the app sends, numbered here   *)
(* in the order it sends them, reach the guest in that order and at most   *)
(* once, and one is dropped only when Capacity others are waiting.         *)
(***************************************************************************)
EXTENDS Integers, Sequences

CONSTANT Capacity

VARIABLES
  sent,      \* how many events have been sent
  pending,   \* the numbers of those that wait
  delivered  \* the number of the last one delivered

fvars == <<sent, pending, delivered>>

FInit == sent = 0 /\ pending = <<>> /\ delivered = 0

Accept ==
  /\ Len(pending) <= Capacity
  /\ sent' = sent + 1
  /\ pending' = Append(pending, sent + 1)
  /\ UNCHANGED delivered

Drop ==
  /\ Len(pending) >= Capacity
  /\ sent' = sent + 1
  /\ UNCHANGED <<pending, delivered>>

Deliver ==
  /\ pending # <<>>
  /\ delivered' = Head(pending)
  /\ pending' = Tail(pending)
  /\ UNCHANGED sent

FNext == Accept \/ Drop \/ Deliver

FifoSpec == FInit /\ [][FNext]_fvars
=============================================================================
