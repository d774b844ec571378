----------------------------- MODULE RecvQueue -----------------------------
(***************************************************************************)
(* The router's receive queue: sources/common/route_queue.c under the      *)
(* optional queue_lock of route_router_input and route_router_poll in      *)
(* sources/router/route_router.c.                                          *)
(*                                                                         *)
(* Producers (threads, or interrupt handlers of the ports) push frames,    *)
(* one poller pops and handles them.  Every access to a shared field is a  *)
(* step; count++ and count-- are a load and a store.  A frame stands for   *)
(* its bytes, length and port.                                             *)
(***************************************************************************)
EXTENDS Integers, Sequences

CONSTANTS
    Producers,  \* who calls route_router_input
    Frames,     \* what they push
    Oversize,   \* the frames longer than block_size
    Capacity,   \* capacity
    None,       \* nobody, nothing
    Exclusion   \* "lock": queue_lock is set; "isr": it is NULL, the producers
                \* are interrupt handlers and run without being interrupted

Cells == 0..(Capacity - 1)

ASSUME CapacityAssumption == Capacity \in Nat \ {0}
ASSUME FramesAssumption   == Oversize \subseteq Frames /\ None \notin Frames
ASSUME ProducerAssumption == "poller" \notin Producers /\ None \notin Producers
ASSUME ExclusionAssumption == Exclusion \in {"lock", "isr"} /\ None # "poller"

VARIABLES
    data,       \* the cells (data, lengths and from_port of the code)
    head, tail, count,
    holder,     \* who holds queue_lock, or None
    prod,       \* each producer: its pc, its frame and the count it loaded
    poller,     \* the poller: likewise
    accepted    \* history: the frames accepted and not popped, in order

vars == <<data, head, tail, count, holder, prod, poller, accepted>>

Idle == [pc |-> "idle", frame |-> None, loaded |-> 0]

Init ==
    /\ data = [i \in Cells |-> None]
    /\ head = 0 /\ tail = 0 /\ count = 0
    /\ holder = None
    /\ prod = [p \in Producers |-> Idle]
    /\ poller = Idle
    /\ accepted = <<>>

\* Mutant: the index runs off the end.
NextCellUnwrapped(i) == i + 1

\* The index after i, modulo the capacity.
NextCell(i) == IF i = Capacity - 1 THEN 0 ELSE i + 1

NoneInside == \A p \in Producers : prod[p].pc = "idle"

\* Mutant: the call goes on without the lock.
EnterUnlocked(self) == UNCHANGED holder

\* Inside a call the poller is stopped while an interrupt handler runs, and an
\* interrupt handler waits for the others; a lock is taken or found free.
Enter(self) == IF Exclusion = "lock" THEN holder = None /\ holder' = self
               ELSE NoneInside /\ UNCHANGED holder
Leave       == holder' = None
PollerRuns  == Exclusion = "isr" => NoneInside

-----------------------------------------------------------------------------
(* route_router_input: lock, route_queue_push, unlock.                     *)

GoProd(p, from, to) ==
    /\ prod[p].pc = from
    /\ prod' = [prod EXCEPT ![p].pc = to]

Input(p) ==
    /\ prod[p].pc = "idle"
    /\ Enter(p)
    /\ \E f \in Frames : prod' = [prod EXCEPT ![p] = [Idle EXCEPT !.pc = "check", !.frame = f]]
    /\ UNCHANGED <<data, head, tail, count, poller, accepted>>

\* Mutant: one frame too many is let in.
RoomForOneMore(f) == count <= Capacity /\ f \notin Oversize

Room(f) == count < Capacity /\ f \notin Oversize

PushRefuse(p) ==
    /\ ~Room(prod[p].frame)
    /\ prod[p].pc = "check"
    /\ prod' = [prod EXCEPT ![p] = Idle]
    /\ Leave
    /\ UNCHANGED <<data, head, tail, count, poller, accepted>>

PushCheck(p) ==
    /\ Room(prod[p].frame)
    /\ GoProd(p, "check", "copy")
    /\ UNCHANGED <<data, head, tail, count, holder, poller, accepted>>

PushCopy(p) ==
    /\ GoProd(p, "copy", "advance")
    /\ data' = [data EXCEPT ![tail] = prod[p].frame]
    /\ UNCHANGED <<head, tail, count, holder, poller, accepted>>

PushAdvance(p) ==
    /\ GoProd(p, "advance", "load")
    /\ tail' = NextCell(tail)
    /\ UNCHANGED <<data, head, count, holder, poller, accepted>>

PushLoad(p) ==
    /\ prod[p].pc = "load"
    /\ prod' = [prod EXCEPT ![p].pc = "store", ![p].loaded = count]
    /\ UNCHANGED <<data, head, tail, count, holder, poller, accepted>>

PushStore(p) ==
    /\ prod[p].pc = "store"
    /\ count' = prod[p].loaded + 1
    /\ accepted' = Append(accepted, prod[p].frame)
    /\ prod' = [prod EXCEPT ![p] = Idle]
    /\ Leave
    /\ UNCHANGED <<data, head, tail, poller>>

-----------------------------------------------------------------------------
(* route_router_poll: lock, route_queue_pop, unlock, handle, again.        *)

GoPoller(from, to) ==
    /\ PollerRuns
    /\ poller.pc = from
    /\ poller' = [poller EXCEPT !.pc = to]

Poll ==
    /\ GoPoller("idle", "check")
    /\ Enter("poller")
    /\ UNCHANGED <<data, head, tail, count, prod, accepted>>

PopEmpty ==
    /\ count = 0
    /\ GoPoller("check", "idle")
    /\ Leave
    /\ UNCHANGED <<data, head, tail, count, prod, accepted>>

PopCheck ==
    /\ count # 0
    /\ GoPoller("check", "copy")
    /\ UNCHANGED <<data, head, tail, count, holder, prod, accepted>>

PopCopy ==
    /\ PollerRuns
    /\ poller.pc = "copy"
    /\ poller' = [poller EXCEPT !.pc = "advance", !.frame = data[head]]
    /\ UNCHANGED <<data, head, tail, count, holder, prod, accepted>>

PopAdvance ==
    /\ GoPoller("advance", "load")
    /\ head' = NextCell(head)
    /\ UNCHANGED <<data, tail, count, holder, prod, accepted>>

PopLoad ==
    /\ PollerRuns
    /\ poller.pc = "load"
    /\ poller' = [poller EXCEPT !.pc = "store", !.loaded = count]
    /\ UNCHANGED <<data, head, tail, count, holder, prod, accepted>>

PopStore ==
    /\ GoPoller("store", "handle")
    /\ count' = poller.loaded - 1
    /\ accepted' = Tail(accepted)
    /\ Leave
    /\ UNCHANGED <<data, head, tail, prod>>

\* router_handle_frame on the popped frame, unlocked; then the next turn of the loop.
Handle ==
    /\ PollerRuns
    /\ poller.pc = "handle"
    /\ poller' = Idle
    /\ UNCHANGED <<data, head, tail, count, holder, prod, accepted>>

ProducerStep(p) ==
    \/ Input(p) \/ PushRefuse(p) \/ PushCheck(p) \/ PushCopy(p) \/ PushAdvance(p)
    \/ PushLoad(p) \/ PushStore(p)

PollerStep ==
    Poll \/ PopEmpty \/ PopCheck \/ PopCopy \/ PopAdvance \/ PopLoad \/ PopStore \/ Handle

Next == (\E p \in Producers : ProducerStep(p)) \/ PollerStep

Spec == Init /\ [][Next]_vars

-----------------------------------------------------------------------------
(* Properties.                                                             *)

\* The indices stay in the ring and the count within the capacity.
TypeOK ==
    /\ data \in [Cells -> Frames \cup {None}]
    /\ head \in Cells /\ tail \in Cells /\ count \in 0..Capacity
    /\ holder \in Producers \cup {"poller", None}
    /\ accepted \in Seq(Frames)

\* The cell k places after cell h, and n cells of the ring from cell h on.
Cell(h, k) == IF h + k < Capacity THEN h + k ELSE h + k - Capacity
Ring(h, n) == [k \in 1..n |-> data[Cell(h, k - 1)]]

\* Between calls the ring holds the frames whose acceptance was reported and that
\* were not popped: none is lost, none is there twice, none is out of order.
QueueHoldsAccepted ==
    NoneInside /\ poller.pc \in {"idle", "handle"} => Ring(head, count) = accepted

\* The poller has moved head on but not yet counted the frame down.
Ahead == IF poller.pc \in {"load", "store"} THEN 1 ELSE 0

\* Under the lock the queue is a bounded FIFO: a push takes effect when it stores
\* count, a pop when it advances head.
Fifo == INSTANCE BoundedFifo WITH
    queue <- Ring(head, count - Ahead),
    taken <- IF poller.pc \in {"load", "store", "handle"} THEN poller.frame ELSE None

ImplementsFifo == Fifo!Spec
=============================================================================
