---------------------------- MODULE BoundedFifo ----------------------------
(***************************************************************************)
(* What the receive queue of the router promises: frames are handed to the *)
(* poller in the order in which they were accepted, each once, and no more *)
(* than a fixed number of them wait.  A frame that is refused is not seen. *)
(***************************************************************************)
EXTENDS Naturals, Sequences

CONSTANTS Frames, Capacity, None

VARIABLES
    queue,      \* the frames accepted and not yet taken
    taken       \* the frame the poller is handling, or None

Init == queue = <<>> /\ taken = None

Put(f) ==
    /\ Len(queue) < Capacity
    /\ queue' = Append(queue, f)
    /\ UNCHANGED taken

Take ==
    /\ taken = None
    /\ queue # <<>>
    /\ taken' = Head(queue)
    /\ queue' = Tail(queue)

Handled ==
    /\ taken # None
    /\ taken' = None
    /\ UNCHANGED queue

Next == (\E f \in Frames : Put(f)) \/ Take \/ Handled

Spec == Init /\ [][Next]_<<queue, taken>>
=============================================================================
