----------------------------- MODULE FrameFifo -----------------------------
(***************************************************************************)
(* What a connection promises to the handlers of protocol.py: the frames   *)
(* the client sends are treated one by one, whole, unchanged and in order. *)
(* It promises no more: the loop may close the connection, or be left with *)
(* frames behind.                                                          *)
(***************************************************************************)
EXTENDS Sequences

CONSTANT Frames     \* the frames that may be sent, listed

VARIABLES queue, delivered

FifoInit == queue = <<>> /\ delivered = <<>>

Put ==
    /\ \E n \in DOMAIN Frames : queue' = Append(queue, Frames[n])
    /\ UNCHANGED delivered

Deliver ==
    /\ queue # <<>>
    /\ delivered' = Append(delivered, Head(queue))
    /\ queue' = Tail(queue)

FifoSafety == FifoInit /\ [][Put \/ Deliver]_<<queue, delivered>>
=============================================================================
