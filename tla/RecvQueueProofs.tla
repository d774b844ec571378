-------------------------- MODULE RecvQueueProofs --------------------------
(***************************************************************************)
(* Theorems about RecvQueue under queue_lock, for any number of producers, *)
(* any frames and any capacity: the ring implements BoundedFifo.           *)
(***************************************************************************)
EXTENDS RecvQueue, SequenceTheorems, TLAPS

-----------------------------------------------------------------------------
(* The invariant.                                                          *)

ProdPcs   == {"idle", "check", "copy", "advance", "load", "store"}
PollerPcs == ProdPcs \cup {"handle"}

\* The locals of the threads.
Shape ==
    /\ prod \in [Producers -> [pc : ProdPcs, frame : Frames \cup {None}, loaded : 0..Capacity]]
    /\ poller \in [pc : PollerPcs, frame : Frames \cup {None}, loaded : 0..Capacity]

\* Who is inside holds the lock.
Locked ==
    /\ \A p \in Producers : prod[p].pc # "idle" <=> holder = p
    /\ poller.pc \notin {"idle", "handle"} <=> holder = "poller"

\* A frame is stored, and tail beyond it, but it is not yet counted.
Stored(p) == prod[p].pc \in {"load", "store"}

\* tail follows the frames in the ring.
Indices ==
    /\ \A p \in Producers : Stored(p) => tail = Cell(head, count + 1)
    /\ (\A p \in Producers : ~Stored(p)) => tail = Cell(head, count - Ahead)

\* The ring holds the accepted frames, but for the one the poller has moved beyond.
Contents ==
    /\ Len(accepted) = count /\ Ahead <= count
    /\ \A k \in 1..(count - Ahead) : accepted[k + Ahead] = data[Cell(head, k - 1)]

\* What each step inside a call has established.
Stages ==
    /\ \A p \in Producers :
          /\ prod[p].pc # "idle" => prod[p].frame \in Frames
          /\ prod[p].pc \in {"copy", "advance", "load", "store"} => count < Capacity
          /\ prod[p].pc = "advance" => data[tail] = prod[p].frame
          /\ Stored(p) => data[Cell(head, count)] = prod[p].frame
          /\ prod[p].pc = "store" => prod[p].loaded = count
    /\ poller.pc \in {"copy", "advance", "load", "store"} => count > 0
    /\ poller.pc \in {"advance", "load", "store"} => poller.frame = accepted[1]
    /\ poller.pc = "store" => poller.loaded = count
    /\ poller.pc = "handle" => poller.frame \in Frames

Inv == TypeOK /\ Shape /\ Locked /\ Indices /\ Contents /\ Stages

-----------------------------------------------------------------------------
(* The cells of the ring.                                                  *)

\* Cells are cells, NextCell is the next one, and less than a whole turn leads to
\* another cell.
LEMMA CellFacts ==
    ASSUME NEW h \in Cells
    PROVE  /\ NextCell(h) \in Cells /\ NextCell(h) = Cell(h, 1) /\ Cell(h, 0) = h
           /\ \A k \in 0..Capacity : Cell(h, k) \in Cells
           /\ \A k \in 0..(Capacity - 1) : NextCell(Cell(h, k)) = Cell(h, k + 1)
           /\ \A k \in 1..Capacity : Cell(NextCell(h), k - 1) = Cell(h, k)
           /\ \A j, k \in 0..(Capacity - 1) : j # k => Cell(h, j) # Cell(h, k)
  BY CapacityAssumption DEF Cells, Cell, NextCell

\* The refinement mapping: what waits, and what the poller is handling.
Waiting == Ring(head, count - Ahead)
Taken   == IF poller.pc \in {"load", "store", "handle"} THEN poller.frame ELSE None

\* What waits has been accepted, but for the frame the poller has moved beyond.
Mapped ==
    /\ Ahead = 0 => Waiting = accepted
    /\ Ahead = 1 => Waiting = Tail(accepted)
    /\ Ahead \in {0, 1}

\* The invariant says so.
LEMMA RingIsAccepted ==
    ASSUME Inv
    PROVE  Mapped
  <1> DEFINE n == count - Ahead
             q == IF Ahead = 1 THEN Tail(accepted) ELSE accepted
  <1>1. /\ Ahead \in {0, 1} /\ count \in 0..Capacity /\ n \in 0..Capacity
        /\ accepted \in Seq(Frames) /\ Len(accepted) = count
        /\ \A k \in 1..n : accepted[k + Ahead] = data[Cell(head, k - 1)]
    BY CapacityAssumption DEF Inv, TypeOK, Contents, Ahead
  <1> HIDE DEF n, q
  <1>2. q \in Seq(Frames) /\ Len(q) = n /\ \A k \in 1..n : q[k] = accepted[k + Ahead]
    <2>1. CASE Ahead = 1
      <3>1. accepted # <<>> /\ q = Tail(accepted) /\ n = count - 1 /\ n \in Nat
        BY <1>1, <2>1 DEF n, q
      <3>2. Tail(accepted) \in Seq(Frames) /\ Len(Tail(accepted)) = count - 1
        BY <1>1, <3>1
      <3>3. \A k \in 1..n : Tail(accepted)[k] = accepted[k + 1]
        BY <1>1, <3>1, <3>2
      <3>4. QED
        BY <2>1, <3>1, <3>2, <3>3
    <2>2. CASE Ahead = 0
      <3>1. q = accepted /\ n = count
        BY <1>1, <2>2 DEF n, q
      <3>2. \A k \in 1..n : k + Ahead = k
        BY <1>1, <2>2
      <3>3. QED
        BY <1>1, <3>1, <3>2
    <2>3. QED
      BY <1>1, <2>1, <2>2
  <1>3. \A k \in 1..n : data[Cell(head, k - 1)] = q[k]
    BY <1>1, <1>2
  <1>4. q = [k \in 1..n |-> q[k]]
    BY <1>1, <1>2
  <1>5. Ring(head, n) = [k \in 1..n |-> q[k]]
    BY <1>3 DEF Ring
  <1>6. Waiting = q
    BY <1>4, <1>5 DEF Waiting, n
  <1>7. (Ahead = 0 => q = accepted) /\ (Ahead = 1 => q = Tail(accepted))
    BY DEF q
  <1>8. QED
    BY <1>1, <1>6, <1>7 DEF Mapped

\* The same of the state after a step.
LEMMA RingIsAcceptedNext == Inv' => Mapped'
  <1>1. Inv => Mapped
    BY RingIsAccepted
  <1>2. QED
    BY <1>1, PTL

-----------------------------------------------------------------------------
(* Mutual exclusion.                                                       *)

\* While a producer is inside, the others and the poller are outside.
LEMMA ProducerAlone ==
    ASSUME Inv, NEW p \in Producers, prod[p].pc # "idle"
    PROVE  /\ holder = p /\ poller.pc \in {"idle", "handle"} /\ Ahead = 0
           /\ \A o \in Producers : o # p => prod[o].pc = "idle" /\ ~Stored(o)
           /\ prod[p] \in [pc : ProdPcs, frame : Frames \cup {None}, loaded : 0..Capacity]
           /\ prod[p].frame \in Frames
  BY ProducerAssumption DEF Inv, Locked, Stages, Shape, Ahead, Stored

\* While the poller is inside, the producers are outside.
LEMMA PollerAlone ==
    ASSUME Inv, poller.pc \notin {"idle", "handle"}
    PROVE  holder = "poller" /\ \A p \in Producers : prod[p].pc = "idle" /\ ~Stored(p)
  BY ProducerAssumption DEF Inv, Locked, Stored

\* A free lock is taken by one of those outside.
LEMMA LockFree ==
    ASSUME Inv, holder = None
    PROVE  /\ poller.pc \in {"idle", "handle"} /\ Ahead = 0
           /\ \A p \in Producers : prod[p].pc = "idle" /\ ~Stored(p)
  BY ProducerAssumption, ExclusionAssumption DEF Inv, Locked, Shape, Ahead, Stored

-----------------------------------------------------------------------------
(* The steps of a producer.                                                *)

\* An empty queue, nobody inside.
LEMMA InitInv == Init => Inv
  <1> SUFFICES ASSUME Init PROVE Inv
    OBVIOUS
  <1>1. /\ \A p \in Producers : prod[p] = Idle /\ prod[p].pc = "idle" /\ ~Stored(p)
        /\ poller.pc = "idle" /\ Ahead = 0
    BY DEF Init, Idle, Stored, Ahead
  <1>2. TypeOK /\ Shape
    BY CapacityAssumption DEF Init, Idle, TypeOK, Shape, Cells, ProdPcs, PollerPcs
  <1>3. Locked
    BY <1>1, ProducerAssumption, ExclusionAssumption DEF Init, Locked
  <1>4. Indices /\ Contents
    BY <1>1, CapacityAssumption DEF Init, Indices, Contents, Cell
  <1>5. Stages
    BY <1>1 DEF Stages, Stored
  <1>6. QED
    BY <1>2, <1>3, <1>4, <1>5 DEF Inv

\* A call takes the lock.
LEMMA InputKeeps ==
    ASSUME Inv, Exclusion = "lock", NEW p \in Producers, Input(p)
    PROVE  Inv'
  <1>1. PICK f \in Frames :
            prod' = [prod EXCEPT ![p] = [Idle EXCEPT !.pc = "check", !.frame = f]]
    BY DEF Input
  <1>2. holder = None /\ holder' = p
    BY DEF Input, Enter
  <1>3. UNCHANGED <<data, head, tail, count, poller, accepted>>
    BY DEF Input
  <1>4. prod'[p] = [pc |-> "check", frame |-> f, loaded |-> 0]
        /\ \A o \in Producers : o # p => prod'[o] = prod[o]
    BY <1>1 DEF Inv, Shape, Idle
  <1>5. TypeOK' /\ Shape'
    <2>1. prod'[p] \in [pc : ProdPcs, frame : Frames \cup {None}, loaded : 0..Capacity]
      BY <1>4, CapacityAssumption DEF ProdPcs
    <2>2. Shape'
      BY <1>1, <1>3, <1>4, <2>1 DEF Inv, Shape, Idle
    <2>3. QED
      BY <1>2, <1>3, <2>2 DEF Inv, TypeOK
  <1>6. Locked'
    BY <1>2, <1>3, <1>4, LockFree, ProducerAssumption DEF Locked
  <1>7. \A o \in Producers : ~Stored(o) /\ ~Stored(o)'
    BY <1>4, <1>2, LockFree DEF Stored
  <1>8. Indices' /\ Contents'
    BY <1>3, <1>7 DEF Inv, Indices, Contents, Ahead, Cell
  <1>9. Stages'
    BY <1>2, <1>3, <1>4, <1>7, LockFree DEF Inv, Stages
  <1>10. QED
    BY <1>5, <1>6, <1>8, <1>9 DEF Inv

\* A producer inside goes from one step to the next.
LEMMA ProducerGoesOn ==
    ASSUME Inv, NEW p \in Producers, prod[p].pc # "idle",
           NEW r \in [pc : ProdPcs \ {"idle"}, frame : Frames \cup {None}, loaded : 0..Capacity],
           prod' = [prod EXCEPT ![p] = r], UNCHANGED <<holder, poller>>
    PROVE  /\ Shape' /\ Locked' /\ prod'[p] = r /\ Ahead' = 0
           /\ \A o \in Producers : o # p => prod'[o].pc = "idle" /\ ~Stored(o)'
           /\ poller'.pc \in {"idle", "handle"}
  <1>1. prod'[p] = r /\ \A o \in Producers : o # p => prod'[o] = prod[o]
    BY DEF Inv, Shape
  <1>2. Shape'
    BY DEF Inv, Shape
  <1>3. Locked'
    BY <1>1, ProducerAlone DEF Inv, Locked
  <1>4. QED
    BY <1>1, <1>2, <1>3, ProducerAlone DEF Stored, Ahead

\* A producer leaves.
LEMMA ProducerLeaves ==
    ASSUME Inv, NEW p \in Producers, prod[p].pc # "idle",
           prod' = [prod EXCEPT ![p] = Idle], holder' = None, poller' = poller
    PROVE  /\ Shape' /\ Locked' /\ Ahead' = 0
           /\ \A o \in Producers : prod'[o].pc = "idle" /\ ~Stored(o)'
           /\ poller'.pc \in {"idle", "handle"}
  <1>1. prod'[p] = Idle /\ \A o \in Producers : o # p => prod'[o] = prod[o]
    BY DEF Inv, Shape
  <1>2. \A o \in Producers : prod'[o].pc = "idle"
    BY <1>1, ProducerAlone DEF Idle
  <1>3. Shape'
    BY CapacityAssumption DEF Inv, Shape, Idle, ProdPcs
  <1>4. Locked'
    BY <1>2, ProducerAlone, ProducerAssumption, ExclusionAssumption DEF Locked
  <1>5. QED
    BY <1>2, <1>3, <1>4, ProducerAlone DEF Stored, Ahead

\* A push that is refused changes nothing.
LEMMA PushRefuseKeeps ==
    ASSUME Inv, NEW p \in Producers, PushRefuse(p)
    PROVE  Inv'
  <1>1. /\ prod[p].pc = "check" /\ prod' = [prod EXCEPT ![p] = Idle] /\ holder' = None
        /\ UNCHANGED <<data, head, tail, count, poller, accepted>>
    BY DEF PushRefuse, Leave
  <1>2. /\ Shape' /\ Locked' /\ Ahead' = 0 /\ poller'.pc \in {"idle", "handle"}
        /\ \A o \in Producers : prod'[o].pc = "idle" /\ ~Stored(o)'
    BY <1>1, ProducerLeaves
  <1>3. Ahead = 0 /\ \A o \in Producers : ~Stored(o)
    BY <1>1, ProducerAlone DEF Stored
  <1>4. TypeOK' /\ Indices' /\ Contents'
    BY <1>1, <1>2, <1>3 DEF Inv, TypeOK, Indices, Contents, Cell
  <1>5. Stages'
    BY <1>1, <1>2 DEF Inv, Stages
  <1>6. QED
    BY <1>2, <1>4, <1>5 DEF Inv

\* There is room.
LEMMA PushCheckKeeps ==
    ASSUME Inv, NEW p \in Producers, PushCheck(p)
    PROVE  Inv'
  <1> DEFINE r == [prod[p] EXCEPT !.pc = "copy"]
  <1>1. /\ prod[p].pc = "check" /\ prod' = [prod EXCEPT ![p] = r] /\ count < Capacity
        /\ UNCHANGED <<data, head, tail, count, holder, poller, accepted>>
    BY DEF PushCheck, GoProd, Room
  <1>2. /\ Ahead = 0 /\ \A o \in Producers : ~Stored(o)
        /\ r \in [pc : ProdPcs \ {"idle"}, frame : Frames \cup {None}, loaded : 0..Capacity]
        /\ r.pc = "copy" /\ r.frame \in Frames
    BY <1>1, ProducerAlone DEF Stored, ProdPcs
  <1> HIDE DEF r
  <1>3. /\ Shape' /\ Locked' /\ prod'[p] = r /\ Ahead' = 0 /\ poller'.pc \in {"idle", "handle"}
        /\ \A o \in Producers : o # p => prod'[o].pc = "idle" /\ ~Stored(o)'
    BY <1>1, <1>2, ProducerGoesOn
  <1>4. ~Stored(p)'
    BY <1>2, <1>3 DEF Stored
  <1>5. TypeOK' /\ Indices' /\ Contents'
    BY <1>1, <1>2, <1>3, <1>4 DEF Inv, TypeOK, Indices, Contents, Cell
  <1>6. Stages'
    BY <1>1, <1>2, <1>3, <1>4 DEF Inv, Stages
  <1>7. QED
    BY <1>3, <1>5, <1>6 DEF Inv

\* The frame goes into the cell after the last one in the ring.
LEMMA PushCopyKeeps ==
    ASSUME Inv, NEW p \in Producers, PushCopy(p)
    PROVE  Inv'
  <1> DEFINE r == [prod[p] EXCEPT !.pc = "advance"]
  <1>1. /\ prod[p].pc = "copy" /\ prod' = [prod EXCEPT ![p] = r]
        /\ data' = [data EXCEPT ![tail] = prod[p].frame]
        /\ UNCHANGED <<head, tail, count, holder, poller, accepted>>
    BY DEF PushCopy, GoProd
  <1>2. /\ Ahead = 0 /\ \A o \in Producers : ~Stored(o)
        /\ r \in [pc : ProdPcs \ {"idle"}, frame : Frames \cup {None}, loaded : 0..Capacity]
        /\ r.pc = "advance" /\ r.frame = prod[p].frame /\ prod[p].frame \in Frames
    BY <1>1, ProducerAlone DEF Stored, ProdPcs
  <1> HIDE DEF r
  <1>3. /\ Shape' /\ Locked' /\ prod'[p] = r /\ Ahead' = 0 /\ poller'.pc \in {"idle", "handle"}
        /\ \A o \in Producers : o # p => prod'[o].pc = "idle" /\ ~Stored(o)'
    BY <1>1, <1>2, ProducerGoesOn
  <1>4. ~Stored(p)'
    BY <1>2, <1>3 DEF Stored
  <1>5. TypeOK' /\ data'[tail] = prod[p].frame
    BY <1>1, <1>2 DEF Inv, TypeOK
  <1>6. Indices'
    BY <1>1, <1>2, <1>3, <1>4 DEF Inv, Indices, Cell
  <1>7. count \in 0..(Capacity - 1) /\ head \in Cells /\ tail = Cell(head, count)
    BY <1>1, <1>2, CapacityAssumption DEF Inv, TypeOK, Stages, Indices
  <1>8. \A k \in 1..count : data'[Cell(head, k - 1)] = data[Cell(head, k - 1)]
    <2> TAKE k \in 1..count
    <2>1. k - 1 \in 0..(Capacity - 1) /\ k - 1 # count
      BY <1>7, CapacityAssumption
    <2>2. Cell(head, k - 1) # tail /\ Cell(head, k - 1) \in Cells
      BY <1>7, <2>1, CellFacts, CapacityAssumption
    <2>3. QED
      BY <1>1, <2>2 DEF Inv, TypeOK
  <1>9. Contents'
    BY <1>1, <1>2, <1>3, <1>7, <1>8 DEF Inv, Contents, Cell
  <1>10. Stages'
    BY <1>1, <1>2, <1>3, <1>4, <1>5, <1>7 DEF Inv, Stages
  <1>11. QED
    BY <1>3, <1>5, <1>6, <1>9, <1>10 DEF Inv

\* The frame is stored, but does not count.
LEMMA PushAdvanceKeeps ==
    ASSUME Inv, NEW p \in Producers, PushAdvance(p)
    PROVE  Inv'
  <1> DEFINE r == [prod[p] EXCEPT !.pc = "load"]
  <1>1. /\ prod[p].pc = "advance" /\ prod' = [prod EXCEPT ![p] = r] /\ tail' = NextCell(tail)
        /\ UNCHANGED <<data, head, count, holder, poller, accepted>>
    BY DEF PushAdvance, GoProd
  <1>2. /\ Ahead = 0 /\ \A o \in Producers : ~Stored(o)
        /\ r \in [pc : ProdPcs \ {"idle"}, frame : Frames \cup {None}, loaded : 0..Capacity]
        /\ r.pc = "load" /\ r.frame = prod[p].frame /\ prod[p].frame \in Frames
    BY <1>1, ProducerAlone DEF Stored, ProdPcs
  <1> HIDE DEF r
  <1>3. /\ Shape' /\ Locked' /\ prod'[p] = r /\ Ahead' = 0 /\ poller'.pc \in {"idle", "handle"}
        /\ \A o \in Producers : o # p => prod'[o].pc = "idle" /\ ~Stored(o)'
    BY <1>1, <1>2, ProducerGoesOn
  <1>4. /\ count \in 0..(Capacity - 1) /\ head \in Cells /\ tail = Cell(head, count)
        /\ data[tail] = prod[p].frame
    BY <1>1, <1>2, CapacityAssumption DEF Inv, TypeOK, Stages, Indices
  <1>5. Stored(p)' /\ tail' = Cell(head, count + 1) /\ tail' \in Cells
    <2>1. tail' = Cell(head, count + 1)
      BY <1>1, <1>4, CellFacts
    <2>2. tail' \in Cells
      BY <1>4, <2>1, CapacityAssumption DEF Cells, Cell
    <2>3. QED
      BY <1>2, <1>3, <2>1, <2>2 DEF Stored
  <1>6. TypeOK' /\ Indices' /\ Contents'
    BY <1>1, <1>2, <1>3, <1>5 DEF Inv, TypeOK, Indices, Contents, Cell
  <1>7. data'[Cell(head, count)'] = r.frame /\ Cell(head, count)' = Cell(head, count)
    BY <1>1, <1>2, <1>4 DEF Cell
  <1>8. Stages'
    BY <1>1, <1>2, <1>3, <1>4, <1>5, <1>7 DEF Inv, Stages
  <1>9. QED
    BY <1>3, <1>6, <1>8 DEF Inv

\* count is read.
LEMMA PushLoadKeeps ==
    ASSUME Inv, NEW p \in Producers, PushLoad(p)
    PROVE  Inv'
  <1> DEFINE r == [prod[p] EXCEPT !.pc = "store", !.loaded = count]
  <1>1. /\ prod[p].pc = "load"
        /\ prod' = [prod EXCEPT ![p].pc = "store", ![p].loaded = count]
        /\ UNCHANGED <<data, head, tail, count, holder, poller, accepted>>
    BY DEF PushLoad
  <1>2. /\ Ahead = 0 /\ Stored(p) /\ prod[p].frame \in Frames /\ count \in 0..Capacity
        /\ prod[p] \in [pc : ProdPcs, frame : Frames \cup {None}, loaded : 0..Capacity]
    BY <1>1, ProducerAlone DEF Stored, Inv, TypeOK
  <1>3. prod' = [prod EXCEPT ![p] = r]
    BY <1>1, <1>2 DEF Inv, Shape
  <1>4. /\ r \in [pc : ProdPcs \ {"idle"}, frame : Frames \cup {None}, loaded : 0..Capacity]
        /\ r.pc = "store" /\ r.frame = prod[p].frame /\ r.loaded = count
    BY <1>2 DEF ProdPcs
  <1> HIDE DEF r
  <1>5. /\ Shape' /\ Locked' /\ prod'[p] = r /\ Ahead' = 0 /\ poller'.pc \in {"idle", "handle"}
        /\ \A o \in Producers : o # p => prod'[o].pc = "idle" /\ ~Stored(o)'
    BY <1>1, <1>3, <1>4, ProducerGoesOn
  <1>6. Stored(p)'
    BY <1>4, <1>5 DEF Stored
  <1>7. TypeOK' /\ Indices' /\ Contents'
    BY <1>1, <1>2, <1>5, <1>6 DEF Inv, TypeOK, Indices, Contents, Cell
  <1>8. /\ count' = count /\ count < Capacity /\ data'[Cell(head, count)'] = r.frame
        /\ prod'[p].loaded = count'
    BY <1>1, <1>2, <1>4, <1>5 DEF Inv, Stages, Cell
  <1>9. Stages'
    BY <1>1, <1>2, <1>4, <1>5, <1>8 DEF Inv, Stages
  <1>10. QED
    BY <1>5, <1>7, <1>9 DEF Inv

\* The frame counts.
LEMMA PushStoreKeeps ==
    ASSUME Inv, NEW p \in Producers, PushStore(p)
    PROVE  /\ Inv' /\ Ahead = 0 /\ Ahead' = 0 /\ count < Capacity
           /\ prod[p].frame \in Frames /\ accepted' = Append(accepted, prod[p].frame)
  <1>1. /\ prod[p].pc = "store" /\ prod' = [prod EXCEPT ![p] = Idle] /\ holder' = None
        /\ count' = prod[p].loaded + 1 /\ accepted' = Append(accepted, prod[p].frame)
        /\ UNCHANGED <<data, head, tail, poller>>
    BY DEF PushStore, Leave
  <1>2. /\ Shape' /\ Locked' /\ Ahead' = 0 /\ poller'.pc \in {"idle", "handle"}
        /\ \A o \in Producers : prod'[o].pc = "idle" /\ ~Stored(o)'
    BY <1>1, ProducerLeaves
  <1>3. Ahead = 0 /\ Stored(p) /\ prod[p].frame \in Frames
    BY <1>1, ProducerAlone DEF Stored
  <1>4. /\ count \in 0..(Capacity - 1) /\ count' = count + 1
        /\ data[Cell(head, count)] = prod[p].frame /\ tail = Cell(head, count + 1)
    BY <1>1, <1>3, CapacityAssumption DEF Inv, TypeOK, Stages, Indices
  <1>5. accepted \in Seq(Frames) /\ Len(accepted) = count
        /\ \A k \in 1..count : accepted[k] = data[Cell(head, k - 1)]
    BY <1>3, <1>4 DEF Inv, TypeOK, Contents
  <1>6. /\ accepted' \in Seq(Frames) /\ Len(accepted') = count + 1
        /\ \A k \in 1..(count + 1) :
              accepted'[k] = IF k = count + 1 THEN prod[p].frame ELSE accepted[k]
    BY <1>1, <1>3, <1>4, <1>5
  <1>7. TypeOK'
    BY <1>1, <1>4, <1>6, CapacityAssumption DEF Inv, TypeOK
  <1>8. Indices'
    BY <1>1, <1>2, <1>4 DEF Indices, Cell
  <1>9. \A k \in 1..count' : accepted'[k] = data'[Cell(head, k - 1)']
    BY <1>1, <1>4, <1>5, <1>6 DEF Cell
  <1>10. Contents'
    <2>1. count' - Ahead' = count' /\ \A k \in 1..count' : k + Ahead' = k
      BY <1>2, <1>4
    <2>2. Ahead' <= count' /\ Len(accepted') = count'
      BY <1>2, <1>4, <1>6
    <2>3. QED
      BY <1>9, <2>1, <2>2 DEF Contents
  <1>11. Stages'
    BY <1>1, <1>2 DEF Inv, Stages
  <1>12. QED
    BY <1>1, <1>2, <1>3, <1>4, <1>7, <1>8, <1>10, <1>11, CapacityAssumption DEF Inv

-----------------------------------------------------------------------------
(* The steps of the poller.                                                *)

\* The poller goes from one step to another, under the lock or without it.
LEMMA PollerGoes ==
    ASSUME Inv, UNCHANGED prod,
           poller' \in [pc : PollerPcs, frame : Frames \cup {None}, loaded : 0..Capacity],
           \/ /\ poller.pc \notin {"idle", "handle"}
              /\ \/ poller'.pc \notin {"idle", "handle"} /\ holder' = holder
                 \/ poller'.pc \in {"idle", "handle"} /\ holder' = None
           \/ /\ poller.pc = "idle" /\ holder = None
              /\ poller'.pc \notin {"idle", "handle"} /\ holder' = "poller"
    PROVE  /\ Shape' /\ Locked'
           /\ \A p \in Producers : /\ prod[p].pc = "idle" /\ prod'[p].pc = "idle"
                                   /\ ~Stored(p) /\ ~Stored(p)'
  <1>1. \A p \in Producers : prod[p].pc = "idle" /\ prod'[p].pc = "idle"
    BY LockFree, PollerAlone
  <1>2. Shape'
    BY DEF Inv, Shape
  <1>3. Locked'
    BY <1>1, PollerAlone, ProducerAssumption, ExclusionAssumption DEF Locked
  <1>4. QED
    BY <1>1, <1>2, <1>3 DEF Stored

\* The poller takes the lock.
LEMMA PollKeeps ==
    ASSUME Inv, Exclusion = "lock", Poll
    PROVE  Inv'
  <1>1. /\ poller.pc = "idle" /\ poller' = [poller EXCEPT !.pc = "check"]
        /\ holder = None /\ holder' = "poller"
        /\ UNCHANGED <<data, head, tail, count, prod, accepted>>
    BY DEF Poll, GoPoller, Enter
  <1>2. /\ poller' \in [pc : PollerPcs, frame : Frames \cup {None}, loaded : 0..Capacity]
        /\ poller'.pc = "check" /\ Ahead = 0 /\ Ahead' = 0
    BY <1>1 DEF Inv, Shape, PollerPcs, ProdPcs, Ahead
  <1>3. /\ Shape' /\ Locked'
        /\ \A p \in Producers : prod'[p].pc = "idle" /\ ~Stored(p) /\ ~Stored(p)'
    BY <1>1, <1>2, PollerGoes
  <1>4. TypeOK' /\ Indices' /\ Contents'
    BY <1>1, <1>2, <1>3 DEF Inv, TypeOK, Indices, Contents, Cell
  <1>5. Stages'
    BY <1>2, <1>3 DEF Stages
  <1>6. QED
    BY <1>3, <1>4, <1>5 DEF Inv

\* There is nothing, and the poller leaves.
LEMMA PopEmptyKeeps ==
    ASSUME Inv, PopEmpty
    PROVE  Inv'
  <1>1. /\ poller.pc = "check" /\ poller' = [poller EXCEPT !.pc = "idle"] /\ holder' = None
        /\ UNCHANGED <<data, head, tail, count, prod, accepted>>
    BY DEF PopEmpty, GoPoller, Leave
  <1>2. /\ poller' \in [pc : PollerPcs, frame : Frames \cup {None}, loaded : 0..Capacity]
        /\ poller'.pc = "idle" /\ Ahead = 0 /\ Ahead' = 0
    BY <1>1 DEF Inv, Shape, PollerPcs, ProdPcs, Ahead
  <1>3. /\ Shape' /\ Locked'
        /\ \A p \in Producers : prod'[p].pc = "idle" /\ ~Stored(p) /\ ~Stored(p)'
    BY <1>1, <1>2, PollerGoes
  <1>4. TypeOK' /\ Indices' /\ Contents'
    BY <1>1, <1>2, <1>3 DEF Inv, TypeOK, Indices, Contents, Cell
  <1>5. Stages'
    BY <1>2, <1>3 DEF Stages
  <1>6. QED
    BY <1>3, <1>4, <1>5 DEF Inv

\* There is a frame.
LEMMA PopCheckKeeps ==
    ASSUME Inv, PopCheck
    PROVE  Inv'
  <1>1. /\ poller.pc = "check" /\ poller' = [poller EXCEPT !.pc = "copy"] /\ count # 0
        /\ UNCHANGED <<data, head, tail, count, holder, prod, accepted>>
    BY DEF PopCheck, GoPoller
  <1>2. /\ poller' \in [pc : PollerPcs, frame : Frames \cup {None}, loaded : 0..Capacity]
        /\ poller'.pc = "copy" /\ Ahead = 0 /\ Ahead' = 0
    BY <1>1 DEF Inv, Shape, PollerPcs, ProdPcs, Ahead
  <1>3. /\ Shape' /\ Locked'
        /\ \A p \in Producers : prod'[p].pc = "idle" /\ ~Stored(p) /\ ~Stored(p)'
    BY <1>1, <1>2, PollerGoes
  <1>4. TypeOK' /\ Indices' /\ Contents'
    BY <1>1, <1>2, <1>3 DEF Inv, TypeOK, Indices, Contents, Cell
  <1>5. count' > 0
    BY <1>1, CapacityAssumption DEF Inv, TypeOK
  <1>6. Stages'
    BY <1>2, <1>3, <1>5 DEF Stages
  <1>7. QED
    BY <1>3, <1>4, <1>6 DEF Inv

\* The first frame in the ring is copied.
LEMMA PopCopyKeeps ==
    ASSUME Inv, PopCopy
    PROVE  Inv'
  <1>1. /\ poller.pc = "copy"
        /\ poller' = [poller EXCEPT !.pc = "advance", !.frame = data[head]]
        /\ UNCHANGED <<data, head, tail, count, holder, prod, accepted>>
    BY DEF PopCopy
  <1>2. data[head] \in Frames \cup {None}
    BY DEF Inv, TypeOK
  <1>3. /\ poller' \in [pc : PollerPcs, frame : Frames \cup {None}, loaded : 0..Capacity]
        /\ poller'.pc = "advance" /\ poller'.frame = data[head] /\ Ahead = 0 /\ Ahead' = 0
    BY <1>1, <1>2 DEF Inv, Shape, PollerPcs, ProdPcs, Ahead
  <1>4. /\ Shape' /\ Locked'
        /\ \A p \in Producers : prod'[p].pc = "idle" /\ ~Stored(p) /\ ~Stored(p)'
    BY <1>1, <1>3, PollerGoes
  <1>5. TypeOK' /\ Indices' /\ Contents'
    BY <1>1, <1>3, <1>4 DEF Inv, TypeOK, Indices, Contents, Cell
  <1>6. count > 0 /\ accepted[1] = data[head]
    <2>1. count > 0 /\ count \in 0..Capacity /\ head \in Cells
      BY <1>1 DEF Inv, Stages, TypeOK
    <2>2. accepted[1 + Ahead] = data[Cell(head, 1 - 1)]
      BY <1>3, <2>1, CapacityAssumption DEF Inv, Contents
    <2>3. QED
      BY <1>3, <2>1, <2>2, CellFacts
  <1>7. Stages'
    BY <1>1, <1>3, <1>4, <1>6 DEF Stages
  <1>8. QED
    BY <1>4, <1>5, <1>7 DEF Inv

\* The first frame leaves the ring, but is still counted.
LEMMA PopAdvanceKeeps ==
    ASSUME Inv, PopAdvance
    PROVE  /\ Inv' /\ Ahead = 0 /\ Ahead' = 1
           /\ count > 0 /\ poller.frame = accepted[1]
  <1>1. /\ poller.pc = "advance" /\ poller' = [poller EXCEPT !.pc = "load"]
        /\ head' = NextCell(head)
        /\ UNCHANGED <<data, tail, count, holder, prod, accepted>>
    BY DEF PopAdvance, GoPoller
  <1>2. /\ poller' \in [pc : PollerPcs, frame : Frames \cup {None}, loaded : 0..Capacity]
        /\ poller'.pc = "load" /\ poller'.frame = poller.frame /\ Ahead = 0 /\ Ahead' = 1
    BY <1>1 DEF Inv, Shape, PollerPcs, ProdPcs, Ahead
  <1>3. /\ Shape' /\ Locked'
        /\ \A p \in Producers : prod'[p].pc = "idle" /\ ~Stored(p) /\ ~Stored(p)'
    BY <1>1, <1>2, PollerGoes
  <1>4. /\ count \in 1..Capacity /\ head \in Cells /\ poller.frame = accepted[1]
    BY <1>1, CapacityAssumption DEF Inv, TypeOK, Stages
  <1>5. TypeOK'
    BY <1>1, <1>4, CellFacts DEF Inv, TypeOK
  <1>6. Indices'
    <2>1. tail = Cell(head, count)
      BY <1>2, <1>3, <1>4, CapacityAssumption DEF Inv, Indices
    <2>2. Cell(head', count - 1) = Cell(head, count)
      BY <1>1, <1>4, CellFacts
    <2>3. Cell(head', count - 1) = Cell(head, count - Ahead)'
      BY <1>1, <1>2 DEF Cell
    <2>4. QED
      BY <1>1, <1>3, <2>1, <2>2, <2>3 DEF Indices
  <1>7. Contents'
    <2>1. \A k \in 1..(count - 1) : accepted[k + 1] = data[Cell(head', k - 1)]
      <3> TAKE k \in 1..(count - 1)
      <3>1. k \in 1..Capacity /\ k + 1 \in 1..count /\ (k + 1) - 1 = k
        BY <1>4, CapacityAssumption
      <3>2. accepted[k + 1] = data[Cell(head, k)]
        BY <1>2, <1>4, <3>1, CapacityAssumption DEF Inv, Contents
      <3>3. QED
        BY <1>1, <1>4, <3>1, <3>2, CellFacts
    <2>2. \A k \in 1..(count - 1) : accepted'[k + 1] = data'[Cell(head, k - 1)']
      BY <1>1, <2>1 DEF Cell
    <2>3. QED
      BY <1>1, <1>2, <1>4, <2>2, CapacityAssumption DEF Inv, Contents, Cell
  <1>8. Stages'
    BY <1>1, <1>2, <1>3, <1>4, CapacityAssumption DEF Stages
  <1>9. QED
    BY <1>2, <1>3, <1>4, <1>5, <1>6, <1>7, <1>8, CapacityAssumption DEF Inv

\* count is read.
LEMMA PopLoadKeeps ==
    ASSUME Inv, PopLoad
    PROVE  Inv'
  <1>1. /\ poller.pc = "load" /\ poller' = [poller EXCEPT !.pc = "store", !.loaded = count]
        /\ UNCHANGED <<data, head, tail, count, holder, prod, accepted>>
    BY DEF PopLoad
  <1>2. count \in 0..Capacity /\ count > 0 /\ poller.frame = accepted[1]
    BY <1>1 DEF Inv, TypeOK, Stages
  <1>3. /\ poller' \in [pc : PollerPcs, frame : Frames \cup {None}, loaded : 0..Capacity]
        /\ poller'.pc = "store" /\ poller'.frame = poller.frame /\ poller'.loaded = count
        /\ Ahead = 1 /\ Ahead' = 1
    BY <1>1, <1>2 DEF Inv, Shape, PollerPcs, ProdPcs, Ahead
  <1>4. /\ Shape' /\ Locked'
        /\ \A p \in Producers : prod'[p].pc = "idle" /\ ~Stored(p) /\ ~Stored(p)'
    BY <1>1, <1>3, PollerGoes
  <1>5. TypeOK' /\ Indices' /\ Contents'
    BY <1>1, <1>3, <1>4 DEF Inv, TypeOK, Indices, Contents, Cell
  <1>6. Stages'
    BY <1>1, <1>2, <1>3, <1>4 DEF Stages
  <1>7. QED
    BY <1>4, <1>5, <1>6 DEF Inv

\* The frame is no longer counted.
LEMMA PopStoreKeeps ==
    ASSUME Inv, PopStore
    PROVE  Inv' /\ Ahead = 1 /\ Ahead' = 0
  <1>1. /\ poller.pc = "store" /\ poller' = [poller EXCEPT !.pc = "handle"] /\ holder' = None
        /\ count' = poller.loaded - 1 /\ accepted' = Tail(accepted)
        /\ UNCHANGED <<data, head, tail, prod>>
    BY DEF PopStore, GoPoller, Leave
  <1>2. /\ count \in 1..Capacity /\ count' = count - 1 /\ poller.frame = accepted[1]
        /\ accepted \in Seq(Frames) /\ Len(accepted) = count
    BY <1>1, CapacityAssumption DEF Inv, TypeOK, Stages, Contents
  <1>3. /\ poller' \in [pc : PollerPcs, frame : Frames \cup {None}, loaded : 0..Capacity]
        /\ poller'.pc = "handle" /\ poller'.frame = poller.frame /\ Ahead = 1 /\ Ahead' = 0
    BY <1>1 DEF Inv, Shape, PollerPcs, ProdPcs, Ahead
  <1>4. /\ Shape' /\ Locked'
        /\ \A p \in Producers : prod'[p].pc = "idle" /\ ~Stored(p) /\ ~Stored(p)'
    BY <1>1, <1>3, PollerGoes
  <1>5. /\ accepted' \in Seq(Frames) /\ Len(accepted') = count - 1 /\ accepted[1] \in Frames
        /\ \A k \in 1..(count - 1) : accepted'[k] = accepted[k + 1]
    <2>1. accepted # <<>>
      BY <1>2
    <2>2. Tail(accepted) \in Seq(Frames) /\ Len(Tail(accepted)) = count - 1
      BY <1>2, <2>1
    <2>3. \A k \in 1..(count - 1) : Tail(accepted)[k] = accepted[k + 1]
      BY <1>2, <2>1, <2>2
    <2>4. QED
      BY <1>1, <1>2, <2>2, <2>3
  <1>6. TypeOK'
    BY <1>1, <1>2, <1>5, CapacityAssumption DEF Inv, TypeOK
  <1>7. Indices'
    BY <1>1, <1>2, <1>3, <1>4 DEF Inv, Indices, Cell
  <1>8. \A k \in 1..(count - 1) : accepted'[k] = data'[Cell(head, k - 1)']
    BY <1>1, <1>2, <1>3, <1>5 DEF Inv, Contents, Cell
  <1>9. Contents'
    <2>1. count' - Ahead' = count - 1 /\ \A k \in 1..(count - 1) : k + Ahead' = k
      BY <1>2, <1>3
    <2>2. Ahead' <= count' /\ Len(accepted') = count'
      BY <1>2, <1>3, <1>5
    <2>3. QED
      BY <1>8, <2>1, <2>2 DEF Contents
  <1>10. Stages'
    BY <1>2, <1>3, <1>4, <1>5 DEF Stages
  <1>11. QED
    BY <1>3, <1>4, <1>6, <1>7, <1>9, <1>10 DEF Inv

\* The frame is handled while producers may be inside.
LEMMA HandleKeeps ==
    ASSUME Inv, Handle
    PROVE  Inv' /\ Ahead = 0 /\ Ahead' = 0 /\ poller.frame \in Frames
  <1>1. /\ poller.pc = "handle" /\ poller' = Idle
        /\ UNCHANGED <<data, head, tail, count, holder, prod, accepted>>
    BY DEF Handle
  <1>2. /\ poller' \in [pc : PollerPcs, frame : Frames \cup {None}, loaded : 0..Capacity]
        /\ poller'.pc = "idle" /\ Ahead = 0 /\ Ahead' = 0 /\ poller.frame \in Frames
    BY <1>1, CapacityAssumption DEF Idle, PollerPcs, ProdPcs, Ahead, Inv, Stages
  <1>3. \A p \in Producers : Stored(p)' <=> Stored(p)
    BY <1>1 DEF Stored
  <1>4. TypeOK' /\ Shape' /\ Locked' /\ Indices' /\ Contents'
    BY <1>1, <1>2, <1>3 DEF Inv, TypeOK, Shape, Locked, Indices, Contents, Cell
  <1>5. Stages'
    BY <1>1, <1>2, <1>3 DEF Inv, Stages, Cell
  <1>6. QED
    BY <1>2, <1>4, <1>5 DEF Inv

-----------------------------------------------------------------------------
(* The theorems.                                                           *)

\* One step.
LEMMA NextInv ==
    ASSUME Inv, Exclusion = "lock", [Next]_vars
    PROVE  Inv'
  <1>1. CASE UNCHANGED vars
    BY <1>1 DEF vars, Inv, TypeOK, Shape, Locked, Indices, Contents, Stages, Stored, Ahead, Cell
  <1>2. ASSUME NEW p \in Producers, ProducerStep(p) PROVE Inv'
    BY <1>2, InputKeeps, PushRefuseKeeps, PushCheckKeeps, PushCopyKeeps, PushAdvanceKeeps,
       PushLoadKeeps, PushStoreKeeps DEF ProducerStep
  <1>3. CASE PollerStep
    BY <1>3, PollKeeps, PopEmptyKeeps, PopCheckKeeps, PopCopyKeeps, PopAdvanceKeeps,
       PopLoadKeeps, PopStoreKeeps, HandleKeeps DEF PollerStep
  <1>4. QED
    BY <1>1, <1>2, <1>3 DEF Next

\* Under queue_lock the invariant always holds.
THEOREM Invariant == ASSUME Exclusion = "lock" PROVE Spec => []Inv
  <1>1. Inv /\ [Next]_vars => Inv'
    BY NextInv
  <1>2. QED
    BY <1>1, InitInv, PTL DEF Spec

\* route_queue_push and route_queue_pop never index beyond the ring nor count
\* beyond its capacity.
THEOREM TypeCorrect == ASSUME Exclusion = "lock" PROVE Spec => []TypeOK
  <1>1. Inv => TypeOK
    BY DEF Inv
  <1>2. QED
    BY <1>1, Invariant, PTL

\* Under queue_lock the ring holds, between calls, what was accepted and not popped.
THEOREM QueueSafe == ASSUME Exclusion = "lock" PROVE Spec => []QueueHoldsAccepted
  <1>1. Inv => QueueHoldsAccepted
    <2> SUFFICES ASSUME Inv, NoneInside, poller.pc \in {"idle", "handle"}
                 PROVE  Ring(head, count) = accepted
      BY DEF QueueHoldsAccepted
    <2>1. Ahead = 0 /\ count - Ahead = count
      BY CapacityAssumption DEF Ahead, Inv, TypeOK
    <2>2. QED
      BY <2>1, RingIsAccepted DEF Waiting, Mapped
  <1>2. QED
    BY <1>1, Invariant, PTL

-----------------------------------------------------------------------------
(* The refinement.                                                         *)

\* A push takes effect when it stores count.
LEMMA PushStorePuts ==
    ASSUME Inv, NEW p \in Producers, PushStore(p)
    PROVE  Fifo!Next
  <1>1. /\ Inv' /\ Ahead = 0 /\ Ahead' = 0 /\ count < Capacity /\ prod[p].frame \in Frames
        /\ accepted' = Append(accepted, prod[p].frame) /\ UNCHANGED Taken
    BY PushStoreKeeps DEF PushStore, Taken
  <1>2. Waiting = accepted /\ Waiting' = accepted' /\ Len(accepted) = count
    BY <1>1, RingIsAccepted, RingIsAcceptedNext DEF Mapped, Inv, Contents
  <1>3. Len(Waiting) < Capacity /\ Waiting' = Append(Waiting, prod[p].frame)
    BY <1>1, <1>2
  <1>4. Fifo!Put(prod[p].frame)
    BY <1>1, <1>3 DEF Fifo!Put, Waiting, Taken
  <1>5. QED
    BY <1>1, <1>4 DEF Fifo!Next

\* A pop takes effect when it advances head.
LEMMA PopAdvanceTakes ==
    ASSUME Inv, PopAdvance
    PROVE  Fifo!Next
  <1>1. /\ Inv' /\ Ahead = 0 /\ Ahead' = 1 /\ count > 0 /\ poller.frame = accepted[1]
        /\ poller.pc = "advance" /\ poller'.pc = "load" /\ poller'.frame = poller.frame
        /\ accepted' = accepted /\ Len(accepted) = count /\ accepted \in Seq(Frames)
        /\ count \in Nat
    BY PopAdvanceKeeps, CapacityAssumption
       DEF PopAdvance, GoPoller, Inv, Shape, Contents, TypeOK
  <1>2. Waiting = accepted /\ Waiting' = Tail(accepted)
    BY <1>1, RingIsAccepted, RingIsAcceptedNext DEF Mapped
  <1>3. Taken = None /\ Taken' = Head(accepted) /\ accepted # <<>>
    BY <1>1 DEF Taken
  <1>4. Fifo!Take
    BY <1>2, <1>3 DEF Fifo!Take, Waiting, Taken
  <1>5. QED
    BY <1>4 DEF Fifo!Next

\* The store of count is not seen.
LEMMA PopStoreStutters ==
    ASSUME Inv, PopStore
    PROVE  UNCHANGED <<Waiting, Taken>>
  <1>1. /\ Inv' /\ Ahead = 1 /\ Ahead' = 0 /\ poller.pc = "store" /\ poller'.pc = "handle"
        /\ poller'.frame = poller.frame /\ accepted' = Tail(accepted)
    BY PopStoreKeeps DEF PopStore, GoPoller, Inv, Shape
  <1>2. Waiting = Tail(accepted) /\ Waiting' = accepted'
    BY <1>1, RingIsAccepted, RingIsAcceptedNext DEF Mapped
  <1>3. QED
    BY <1>1, <1>2 DEF Taken

\* The frame is handled.
LEMMA HandleHandles ==
    ASSUME Inv, Handle
    PROVE  Fifo!Next
  <1>1. /\ Inv' /\ Ahead = 0 /\ Ahead' = 0 /\ poller.frame \in Frames
        /\ poller.pc = "handle" /\ poller'.pc = "idle" /\ accepted' = accepted
    BY HandleKeeps DEF Handle, Idle
  <1>2. Waiting' = Waiting
    BY <1>1, RingIsAccepted, RingIsAcceptedNext DEF Mapped
  <1>3. Taken # None /\ Taken' = None
    BY <1>1, FramesAssumption DEF Taken
  <1>4. Fifo!Handled
    BY <1>2, <1>3 DEF Fifo!Handled, Waiting, Taken
  <1>5. QED
    BY <1>4 DEF Fifo!Next

\* The other steps are not seen.
LEMMA OthersStutter ==
    ASSUME Inv, Inv', UNCHANGED <<accepted, Ahead, Taken>>
    PROVE  UNCHANGED <<Waiting, Taken>>
  BY RingIsAccepted, RingIsAcceptedNext DEF Mapped

\* Under queue_lock the ring, its indices and its count are a bounded FIFO: a
\* refinement of BoundedFifo (the mapping of RecvQueue!Fifo).
THEOREM FifoImplemented == ASSUME Exclusion = "lock" PROVE Spec => ImplementsFifo
  <1>1. Init => Fifo!Init
    <2> SUFFICES ASSUME Init PROVE Waiting = <<>> /\ Taken = None
      BY DEF Fifo!Init, Waiting, Taken
    <2>1. Inv /\ Ahead = 0 /\ poller.pc = "idle" /\ accepted = <<>>
      BY InitInv DEF Init, Idle, Ahead
    <2>2. QED
      BY <2>1, RingIsAccepted DEF Mapped, Taken
  <1>2. Inv /\ Inv' /\ [Next]_vars => [Fifo!Next]_<<Waiting, Taken>>
    <2> SUFFICES ASSUME Inv, Inv', [Next]_vars
                 PROVE  Fifo!Next \/ UNCHANGED <<Waiting, Taken>>
      OBVIOUS
    <2>1. CASE UNCHANGED vars
      BY <2>1, OthersStutter DEF vars, Ahead, Taken
    <2>2. ASSUME NEW p \in Producers, ProducerStep(p)
          PROVE  Fifo!Next \/ UNCHANGED <<Waiting, Taken>>
      <3>1. CASE PushStore(p)
        BY <3>1, PushStorePuts
      <3>2. CASE ~PushStore(p)
        <4>1. UNCHANGED <<accepted, poller>>
          BY <2>2, <3>2 DEF ProducerStep, Input, PushRefuse, PushCheck, PushCopy,
             PushAdvance, PushLoad
        <4>2. QED
          BY <4>1, OthersStutter DEF Ahead, Taken
      <3>3. QED
        BY <3>1, <3>2
    <2>3. CASE PollerStep
      <3>1. CASE PopAdvance
        BY <3>1, PopAdvanceTakes
      <3>2. CASE PopStore
        BY <3>2, PopStoreStutters
      <3>3. CASE Handle
        BY <3>3, HandleHandles
      <3>4. CASE Poll \/ PopEmpty \/ PopCheck \/ PopCopy
        <4>1. /\ UNCHANGED accepted /\ poller.pc \in {"idle", "check", "copy"}
              /\ poller'.pc \in {"idle", "check", "copy", "advance"}
          BY <3>4 DEF Poll, PopEmpty, PopCheck, PopCopy, GoPoller, Inv, Shape
        <4>2. QED
          BY <4>1, OthersStutter DEF Ahead, Taken
      <3>5. CASE PopLoad
        <4>1. /\ UNCHANGED accepted /\ poller.pc = "load" /\ poller'.pc = "store"
              /\ poller'.frame = poller.frame
          BY <3>5 DEF PopLoad, Inv, Shape
        <4>2. QED
          BY <4>1, OthersStutter DEF Ahead, Taken
      <3>6. QED
        BY <2>3, <3>1, <3>2, <3>3, <3>4, <3>5 DEF PollerStep
    <2>4. QED
      BY <2>1, <2>2, <2>3 DEF Next
  <1>3. QED
    BY <1>1, <1>2, Invariant, PTL DEF Spec, ImplementsFifo, Fifo!Spec, Waiting, Taken
=============================================================================
