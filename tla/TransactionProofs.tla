------------------------- MODULE TransactionProofs -------------------------
(***************************************************************************)
(* Theorems about Transaction, for every number of slots, calls, threads,  *)
(* peers, sequence numbers and clock values.                               *)
(***************************************************************************)
EXTENDS Transaction, TLAPS

-----------------------------------------------------------------------------
(* Facts about the helpers.                                                *)

\* The remainder that stands for unsigned wrap-around stays in range.
LEMMA ModInRange ==
    ASSUME NEW m \in Nat \ {0}, NEW a \in Int
    PROVE  a % m \in 0..(m - 1)
  OBVIOUS

\* seq_counter++ yields a uint8_t.
LEMMA NextSeqType == TypeOK => NextSeq \in Seqs
  BY SizeAssumption DEF TypeOK, NextSeq, Seqs

\* The deadline the tick stores is a uint32_t, and never the value 0 that stands
\* for "not armed".
LEMMA DeadlineType ==
    ASSUME NEW t \in Times, NEW duration \in Nat
    PROVE  Deadline(t, duration) \in Times \ {0}
  <1>1. (t + duration) % TimeMod \in 0..(TimeMod - 1)
    BY SizeAssumption, ModInRange DEF Times
  <1>2. QED
    BY <1>1, SizeAssumption DEF Deadline, Times

\* What a pass of the tick or of deinit leaves in a slot is a slot.
LEMMA ScannedType ==
    ASSUME TypeOK, NEW i \in Slots
    PROVE  Scanned(i) \in Slot
  <1> DEFINE t == trans_table[i]
  <1>1. t \in Slot
    BY DEF TypeOK
  <1>2. Deadline(now, t.timeout_duration) \in Times
    BY <1>1, DeadlineType DEF TypeOK, Slot
  <1>3. [t EXCEPT !.timeout_ms = Deadline(now, t.timeout_duration)] \in Slot
    BY <1>1, <1>2 DEF Slot
  <1>4. /\ [t EXCEPT !.state = "IDLE"] \in Slot
        /\ [t EXCEPT !.result = "TIMEOUT", !.state = "IDLE"] \in Slot
    BY <1>1 DEF Slot
  <1>5. QED
    BY <1>1, <1>3, <1>4 DEF Scanned, TimedOut, Arming

\* Writing one slot, one program counter or one frame keeps the array's type.
LEMMA SetSlotType ==
    ASSUME TypeOK, NEW i \in Slots, NEW t \in Slot, SetSlot(i, t)
    PROVE  trans_table' \in [Slots -> Slot]
  BY DEF TypeOK, SetSlot

\* A label the call knows keeps the program counters typed.
LEMMA GotoType ==
    ASSUME TypeOK, NEW c \in Calls, NEW label \in AsyncPcs \cup SyncPcs, Goto(c, label)
    PROVE  pc' \in [Calls -> AsyncPcs \cup SyncPcs]
  BY DEF TypeOK, Goto

\* The locals a call sets as it takes a slot are typed.
LEMMA FrameType ==
    ASSUME TypeOK, NEW c \in Calls, NEW i \in Slots, NEW dest \in Nodes
    PROVE  [frame EXCEPT ![c] = [idx |-> i, dest |-> dest, seq |-> seq_counter]]
              \in [Calls -> Frame]
  BY DEF TypeOK, Frame

\* A call's own slot, and what becomes of it when only its state changes or when
\* the call leaves it behind.
LEMMA OwnSlotType ==
    ASSUME TypeOK, NEW c \in Calls
    PROVE  /\ frame[c].idx \in Slots
           /\ trans_table[frame[c].idx] \in Slot
           /\ \A s \in {"IDLE", "SENDING", "WAITING"} :
                 [trans_table[frame[c].idx] EXCEPT !.state = s] \in Slot
           /\ Reaped(trans_table[frame[c].idx]) \in Slot
  <1>1. frame[c].idx \in Slots
    BY DEF TypeOK, Frame
  <1>2. trans_table[frame[c].idx] \in Slot
    BY <1>1 DEF TypeOK
  <1>3. QED
    BY <1>1, <1>2 DEF Slot, Reaped

-----------------------------------------------------------------------------
(* Type correctness.                                                       *)

\* Counting a callback keeps the counters typed.
LEMMA FiredType ==
    ASSUME TypeOK, NEW c
    PROVE  [fired EXCEPT ![c] = @ + 1] \in [AsyncCalls -> Nat]
  <1>1. fired \in [AsyncCalls -> Nat]
    BY DEF TypeOK
  <1>2. ASSUME NEW d \in AsyncCalls
        PROVE  [fired EXCEPT ![c] = @ + 1][d] \in Nat
    BY <1>1
  <1>3. QED
    BY <1>1, <1>2

\* The receive thread at rest is typed.
LEMMA RxIdleType ==
    RxIdle \in [pc : {"idle", "arrived", "call"}, src : Nodes \cup {None},
                tid : Slots, seq : Seqs, cb : AsyncCalls \cup {None}]
  BY SizeAssumption DEF RxIdle, Slots, Seqs

\* The state route_transaction_init leaves is typed.
LEMMA InitTypeOK == Init => TypeOK
  <1> SUFFICES ASSUME Init PROVE TypeOK
    OBVIOUS
  <1>1. ZeroSlot \in Slot
    BY SizeAssumption DEF ZeroSlot, Slot, Seqs, Times
  <1>2. [idx |-> 0, dest |-> None, seq |-> 0] \in Frame
    BY SizeAssumption DEF Frame, Slots, Seqs
  <1>3. 0 \in Seqs /\ 0 \in Times /\ 0 \in 0..MaxTrans
    BY SizeAssumption DEF Seqs, Times
  <1>4. QED
    BY <1>1, <1>2, <1>3, RxIdleType DEF Init, TypeOK, AsyncPcs, SyncPcs

\* Every step of every thread keeps the types.
LEMMA NextTypeOK == TypeOK /\ [Next]_vars => TypeOK'
  <1> SUFFICES ASSUME TypeOK, [Next]_vars PROVE TypeOK'
    OBVIOUS
  <1> USE DEF callVars, threadVars, history
  <1>1. ASSUME NEW c \in AsyncCalls, AsyncAlloc(c) PROVE TypeOK'
    <2> c \in Calls
      BY DEF Calls
    <2>1. PICK i \in Slots, dest \in Nodes :
             /\ SetSlot(i, AsyncSlot(trans_table[i], c, dest))
             /\ frame' = [frame EXCEPT ![c] =
                             [idx |-> i, dest |-> dest, seq |-> seq_counter]]
      BY <1>1 DEF AsyncAlloc
    <2>2. AsyncSlot(trans_table[i], c, dest) \in Slot
      <3>1. trans_table[i] \in Slot /\ seq_counter \in Seqs /\ 0 \in Times
        BY SizeAssumption DEF TypeOK, Times
      <3>2. QED
        BY <3>1, TimeoutAssumption DEF Slot, AsyncSlot
    <2>3. trans_table' \in [Slots -> Slot]
      BY <2>1, <2>2, SetSlotType
    <2>4. pc' \in [Calls -> AsyncPcs \cup SyncPcs]
      BY <1>1, GotoType DEF AsyncAlloc, AsyncPcs
    <2>5. QED
      BY <1>1, <2>1, <2>3, <2>4, FrameType, NextSeqType DEF AsyncAlloc, TypeOK
  <1>2. ASSUME NEW c \in AsyncCalls, AsyncFull(c) PROVE TypeOK'
    <2>1. pc' \in [Calls -> AsyncPcs \cup SyncPcs]
      BY <1>2, GotoType DEF AsyncFull, AsyncPcs, Calls
    <2>2. QED
      BY <1>2, <2>1 DEF AsyncFull, TypeOK
  <1>3. ASSUME NEW c \in AsyncCalls, AsyncSent(c) PROVE TypeOK'
    <2>1. pc' \in [Calls -> AsyncPcs \cup SyncPcs]
      BY <1>3, GotoType DEF AsyncSent, AsyncPcs, Calls
    <2>2. trans_table' \in [Slots -> Slot]
      BY <1>3, OwnSlotType, SetSlotType DEF AsyncSent, Calls
    <2>3. QED
      BY <1>3, <2>1, <2>2 DEF AsyncSent, TypeOK
  <1>4. ASSUME NEW c \in AsyncCalls, AsyncSendFail(c) PROVE TypeOK'
    <2>1. pc' \in [Calls -> AsyncPcs \cup SyncPcs]
      BY <1>4, GotoType DEF AsyncSendFail, AsyncPcs, Calls
    <2>2. trans_table' \in [Slots -> Slot]
      BY <1>4, OwnSlotType, SetSlotType DEF AsyncSendFail, Calls
    <2>3. QED
      BY <1>4, <2>1, <2>2 DEF AsyncSendFail, TypeOK
  <1>5. ASSUME NEW c \in SyncCalls, SyncAlloc(c) PROVE TypeOK'
    <2> c \in Calls
      BY DEF Calls
    <2>1. PICK i \in Slots, dest \in Nodes, timeout \in SyncTimeouts :
             /\ SetSlot(i, SyncSlot(trans_table[i], c, dest, timeout))
             /\ frame' = [frame EXCEPT ![c] =
                             [idx |-> i, dest |-> dest, seq |-> seq_counter]]
      BY <1>5 DEF SyncAlloc
    <2>2. SyncSlot(trans_table[i], c, dest, timeout) \in Slot
      <3>1. trans_table[i] \in Slot /\ seq_counter \in Seqs /\ 0 \in Times
        BY SizeAssumption DEF TypeOK, Times
      <3>2. QED
        BY <3>1, TimeoutAssumption DEF Slot, SyncSlot
    <2>3. trans_table' \in [Slots -> Slot]
      BY <2>1, <2>2, SetSlotType
    <2>4. pc' \in [Calls -> AsyncPcs \cup SyncPcs]
      BY <1>5, GotoType DEF SyncAlloc, SyncPcs
    <2>5. QED
      BY <1>5, <2>1, <2>3, <2>4, FrameType, NextSeqType DEF SyncAlloc, TypeOK
  <1>6. ASSUME NEW c \in SyncCalls, SyncNoSem(c) PROVE TypeOK'
    <2>1. PICK i \in Slots, dest \in Nodes, timeout \in SyncTimeouts :
             SetSlot(i, NoSemSlot(trans_table[i], c, dest, timeout))
      BY <1>6 DEF SyncNoSem
    <2>2. NoSemSlot(trans_table[i], c, dest, timeout) \in Slot
      <3>1. trans_table[i] \in Slot /\ seq_counter \in Seqs /\ 0 \in Times
        BY SizeAssumption DEF TypeOK, Times
      <3>2. QED
        BY <3>1, TimeoutAssumption DEF Slot, SyncSlot, NoSemSlot
    <2>3. trans_table' \in [Slots -> Slot]
      BY <2>1, <2>2, SetSlotType
    <2>4. pc' \in [Calls -> AsyncPcs \cup SyncPcs]
      BY <1>6, GotoType DEF SyncNoSem, SyncPcs, Calls
    <2>5. QED
      BY <1>6, <2>3, <2>4 DEF SyncNoSem, TypeOK
  <1>7. ASSUME NEW c \in SyncCalls, SyncFull(c) PROVE TypeOK'
    <2>1. pc' \in [Calls -> AsyncPcs \cup SyncPcs]
      BY <1>7, GotoType DEF SyncFull, SyncPcs, Calls
    <2>2. QED
      BY <1>7, <2>1 DEF SyncFull, TypeOK
  <1>8. ASSUME NEW c \in SyncCalls, SyncSendFail(c) PROVE TypeOK'
    <2>1. pc' \in [Calls -> AsyncPcs \cup SyncPcs]
      BY <1>8, GotoType DEF SyncSendFail, SyncPcs, Calls
    <2>2. QED
      BY <1>8, <2>1 DEF SyncSendFail, TypeOK
  <1>9. ASSUME NEW c \in SyncCalls, SyncFailFree(c) PROVE TypeOK'
    <2>1. pc' \in [Calls -> AsyncPcs \cup SyncPcs]
      BY <1>9, GotoType DEF SyncFailFree, SyncPcs, Calls
    <2>2. trans_table' \in [Slots -> Slot]
      BY <1>9, OwnSlotType, SetSlotType DEF SyncFailFree, Calls
    <2>3. QED
      BY <1>9, <2>1, <2>2 DEF SyncFailFree, TypeOK
  <1>10. ASSUME NEW c \in SyncCalls, SyncSent(c) PROVE TypeOK'
    <2>1. pc' \in [Calls -> AsyncPcs \cup SyncPcs]
      BY <1>10, GotoType DEF SyncSent, SyncPcs, Calls
    <2>2. trans_table' \in [Slots -> Slot]
      BY <1>10, OwnSlotType, SetSlotType DEF SyncSent, Calls
    <2>3. QED
      BY <1>10, <2>1, <2>2 DEF SyncSent, TypeOK
  <1>11. ASSUME NEW c \in SyncCalls, SyncWait(c) PROVE TypeOK'
    <2>1. pc' \in [Calls -> AsyncPcs \cup SyncPcs]
      BY <1>11, GotoType DEF SyncWait, SyncPcs, Calls
    <2>2. trans_table[frame[c].idx].sync_sem \in SyncCalls \cup {None}
      BY OwnSlotType DEF Slot, Calls
    <2>3. QED
      BY <1>11, <2>1, <2>2 DEF SyncWait, TypeOK
  <1>12. ASSUME NEW c \in SyncCalls, SyncWake(c) PROVE TypeOK'
    <2>1. pc' \in [Calls -> AsyncPcs \cup SyncPcs]
      BY <1>12, GotoType DEF SyncWake, SyncPcs, Calls
    <2>2. QED
      BY <1>12, <2>1 DEF SyncWake, TypeOK
  <1>13. ASSUME NEW c \in SyncCalls, SyncReap(c) PROVE TypeOK'
    <2>1. pc' \in [Calls -> AsyncPcs \cup SyncPcs]
      BY <1>13, GotoType DEF SyncReap, SyncPcs, Calls
    <2>2. trans_table' \in [Slots -> Slot]
      BY <1>13, OwnSlotType, SetSlotType DEF SyncReap, Calls
    <2>3. trans_table[frame[c].idx].result \in {"OK", "TIMEOUT"}
      BY OwnSlotType DEF Slot, Calls
    <2>4. QED
      BY <1>13, <2>1, <2>2, <2>3 DEF SyncReap, TypeOK
  <1>14. ASSUME Reply PROVE TypeOK'
    BY <1>14, NextSeqType DEF Reply, TypeOK
  <1>15. ASSUME RxArrive PROVE TypeOK'
    BY <1>15 DEF RxArrive, TypeOK
  <1>16. ASSUME RxDrop PROVE TypeOK'
    BY <1>16, RxIdleType DEF RxDrop, TypeOK
  <1> DEFINE t == trans_table[rx.tid]
  <1>a. rx.tid \in Slots /\ t \in Slot
    BY DEF TypeOK
  <1>b. /\ [t EXCEPT !.state = "IDLE"] \in Slot
        /\ [t EXCEPT !.result = "OK"] \in Slot
        /\ [RxIdle EXCEPT !.pc = "call", !.cb = t.callback]
              \in [pc : {"idle", "arrived", "call"}, src : Nodes \cup {None},
                   tid : Slots, seq : Seqs, cb : AsyncCalls \cup {None}]
    BY <1>a, RxIdleType DEF Slot
  <1>c. ASSUME NEW c, Accept(c)
        PROVE  answers' \in [Calls -> SUBSET ((Nodes \cup {None}) \X Slots \X Seqs)]
    <2>1. <<rx.src, rx.tid, rx.seq>> \in (Nodes \cup {None}) \X Slots \X Seqs
      BY DEF TypeOK
    <2>2. QED
      BY <1>c, <2>1 DEF Accept, TypeOK
  <1>17. ASSUME RxAsync PROVE TypeOK'
    <2>1. trans_table' \in [Slots -> Slot]
      BY <1>17, <1>a, <1>b, SetSlotType DEF RxAsync
    <2>2. answers' \in [Calls -> SUBSET ((Nodes \cup {None}) \X Slots \X Seqs)]
      BY <1>17, <1>c DEF RxAsync
    <2>3. QED
      BY <1>17, <1>b, <2>1, <2>2 DEF RxAsync, TypeOK
  <1>18. ASSUME RxSync PROVE TypeOK'
    <2>1. trans_table' \in [Slots -> Slot]
      BY <1>18, <1>a, <1>b, SetSlotType DEF RxSync
    <2>2. answers' \in [Calls -> SUBSET ((Nodes \cup {None}) \X Slots \X Seqs)]
      BY <1>18, <1>c DEF RxSync
    <2>3. QED
      BY <1>18, RxIdleType, <2>1, <2>2 DEF RxSync, TypeOK
  <1>19. ASSUME RxSilent PROVE TypeOK'
    <2>1. trans_table' \in [Slots -> Slot]
      BY <1>19, <1>a, <1>b, SetSlotType DEF RxSilent
    <2>2. QED
      BY <1>19, RxIdleType, <2>1 DEF RxSilent, TypeOK
  <1>20. ASSUME RxCall PROVE TypeOK'
    BY <1>20, RxIdleType, FiredType DEF RxCall, TypeOK
  <1>21. ASSUME TickStart PROVE TypeOK'
    <2>1. now' \in Times
      BY <1>21, SizeAssumption, ModInRange DEF TickStart, TypeOK, Times
    <2>2. QED
      BY <1>21, <2>1 DEF TickStart, TypeOK
  <1>22. ASSUME TickScan PROVE TypeOK'
    <2>1. \A i \in Slots : Scanned(i) \in Slot
      BY ScannedType
    <2>2. \A i \in Batch : trans_table[i].callback \in AsyncCalls
      BY DEF Batch, DueCallbacks, TypeOK, Slot
    <2>3. QED
      BY <1>22, <2>1, <2>2 DEF TickScan, TypeOK
  <1>23. ASSUME TickCall PROVE TypeOK'
    BY <1>23, FiredType DEF TickCall, TypeOK
  <1>24. ASSUME DeinitStart PROVE TypeOK'
    BY <1>24 DEF DeinitStart, TypeOK
  <1>25. ASSUME DeinitSlot PROVE TypeOK'
    <2> DEFINE d == trans_table[deinit.i]
    <2>1. d \in Slot /\ deinit.i \in 0..(MaxTrans - 1)
      BY <1>25 DEF DeinitSlot, TypeOK, Slots
    <2>2. Cancelled(d) \in Slot
      BY <2>1 DEF Cancelled, Slot
    <2>3. trans_table' \in [Slots -> Slot]
      BY <1>25, <2>2, SetSlotType DEF DeinitSlot
    <2>4. deinit' \in [pc : {"off", "scan", "done"}, i : 0..MaxTrans,
                        cb : AsyncCalls \cup {None}]
      <3>1. deinit.i + 1 \in 0..MaxTrans
        BY <2>1, SizeAssumption
      <3>2. (IF d.state = "IDLE" THEN None ELSE d.callback) \in AsyncCalls \cup {None}
        BY <2>1 DEF Slot
      <3>3. QED
        BY <1>25, <3>1, <3>2 DEF DeinitSlot, TypeOK
    <2>5. QED
      BY <1>25, <2>3, <2>4 DEF DeinitSlot, TypeOK
  <1>26. ASSUME DeinitCall PROVE TypeOK'
    BY <1>26, FiredType DEF DeinitCall, TypeOK
  <1>27. ASSUME DeinitDone PROVE TypeOK'
    BY <1>27 DEF DeinitDone, TypeOK
  <1>28. CASE UNCHANGED vars
    BY <1>28 DEF vars, TypeOK
  <1>29. QED
    BY <1>1, <1>2, <1>3, <1>4, <1>5, <1>6, <1>7, <1>8, <1>9, <1>10, <1>11, <1>12,
       <1>13, <1>14, <1>15, <1>16, <1>17, <1>18, <1>19, <1>20, <1>21, <1>22, <1>23,
       <1>24, <1>25, <1>26, <1>27, <1>28
    DEF Next, AsyncStep, SyncStep, RxStep, TickStep, DeinitStep

\* Every variable keeps a value its C type allows, whatever the interleaving.
THEOREM TypeCorrect == Spec => []TypeOK
  <1>1. QED
    BY InitTypeOK, NextTypeOK, PTL DEF Spec

-----------------------------------------------------------------------------
(* Who owns a slot.                                                        *)

\* A step that gives a slot to nobody new: it may change the slot's state, timer
\* and result, and clear its semaphore.
SameOwner(old, new) ==
    /\ new.dest_id = old.dest_id
    /\ new.expected_seq = old.expected_seq
    /\ new.resp_buf = old.resp_buf
    /\ new.callback = old.callback
    /\ new.sync_sem \in {old.sync_sem, None}

Owners == SemaphoreOwner /\ CallbackOwner

\* A step keeps the owners of the slots when every slot keeps its fields and no
\* synchronous call leaves while a slot still has its semaphore.
LEMMA OwnersKept ==
    ASSUME TypeOK, Owners,
           frame' = frame,
           \A i \in Slots : SameOwner(trans_table[i], trans_table'[i]),
           \A c \in Calls : pc[c] # "new" => pc'[c] # "new",
           \A c \in SyncCalls :
              pc[c] \in InSendSync =>
                 \/ pc'[c] \in InSendSync
                 \/ \A i \in Slots : trans_table'[i].sync_sem # c
    PROVE  Owners'
  <1>1. \A i \in Slots : trans_table[i] \in Slot
    BY DEF TypeOK
  <1>2. SemaphoreOwner'
    BY <1>1 DEF Owners, SemaphoreOwner, SameOwner, Slot, Calls
  <1>3. CallbackOwner'
    BY <1>1 DEF Owners, CallbackOwner, SameOwner, Slot, Calls
  <1>4. QED
    BY <1>2, <1>3 DEF Owners

\* The case of a step of a call that only moves its program counter and rewrites
\* its own slot.
LEMMA OwnSlotStep ==
    ASSUME TypeOK, Owners, frame' = frame,
           NEW c \in Calls, NEW label, Goto(c, label), label # "new",
           NEW t, SetSlot(frame[c].idx, t), SameOwner(trans_table[frame[c].idx], t),
           c \in SyncCalls => label \in InSendSync \/ t.sync_sem = None
    PROVE  Owners'
  <1>1. frame[c].idx \in Slots
    BY OwnSlotType
  <1>2. \A i \in Slots : SameOwner(trans_table[i], trans_table'[i])
    BY <1>1 DEF SetSlot, SameOwner, TypeOK
  <1>3. \A d \in Calls : pc[d] # "new" => pc'[d] # "new"
    BY DEF Goto, TypeOK
  <1>4. ASSUME NEW d \in SyncCalls, pc[d] \in InSendSync
        PROVE  \/ pc'[d] \in InSendSync
               \/ \A i \in Slots : trans_table'[i].sync_sem # d
    <2>1. CASE d # c
      BY <1>4, <2>1 DEF Goto, TypeOK, Calls
    <2>2. CASE d = c /\ label \in InSendSync
      BY <2>2 DEF Goto, TypeOK
    <2>3. CASE d = c /\ t.sync_sem = None
      <3>1. ASSUME NEW i \in Slots, i # frame[c].idx
            PROVE  trans_table'[i].sync_sem # d
        <4>1. trans_table'[i] = trans_table[i]
          BY <3>1 DEF SetSlot, TypeOK
        <4>2. ASSUME trans_table[i].sync_sem = d PROVE frame[d].idx = i
          <5>1. d # None
            BY CallsAssumption DEF Calls
          <5>2. frame[d] = [idx |-> i, dest |-> trans_table[i].dest_id,
                            seq |-> trans_table[i].expected_seq]
            BY <4>2, <5>1 DEF Owners, SemaphoreOwner
          <5>3. QED
            BY <5>2
        <4>3. QED
          BY <2>3, <3>1, <4>1, <4>2
      <3>2. trans_table'[frame[c].idx].sync_sem # d
        BY <1>1, <2>3, CallsAssumption DEF SetSlot, TypeOK, Calls
      <3>3. QED
        BY <3>1, <3>2
    <2>4. QED
      BY <2>1, <2>2, <2>3
  <1>5. QED
    BY <1>2, <1>3, <1>4, OwnersKept

\* A call takes a slot: the other slots keep their owners, and this one gets a
\* new owner or none.
LEMMA NewOwner ==
    ASSUME TypeOK, Owners,
           NEW c \in Calls, pc[c] = "new",
           NEW label \in {"sending", "done"}, Goto(c, label),
           NEW i \in Slots, NEW t \in Slot, SetSlot(i, t),
           NEW f, frame' = [frame EXCEPT ![c] = f],
           t.sync_sem # None =>
               /\ t.sync_sem = c /\ t.resp_buf = c /\ label = "sending"
               /\ f = [idx |-> i, dest |-> t.dest_id, seq |-> t.expected_seq],
           t.callback # None =>
               /\ t.callback = c
               /\ f = [idx |-> i, dest |-> t.dest_id, seq |-> t.expected_seq]
    PROVE  Owners'
  <1>1. trans_table'[i] = t /\ pc'[c] = label /\ frame'[c] = f
    BY DEF SetSlot, Goto, TypeOK
  <1>2. ASSUME NEW j \in Slots, j # i PROVE trans_table'[j] = trans_table[j]
    BY <1>2 DEF SetSlot, TypeOK
  <1>3. ASSUME NEW d \in Calls, d # c PROVE pc'[d] = pc[d] /\ frame'[d] = frame[d]
    BY <1>3 DEF Goto, TypeOK
  <1>4. \A j \in Slots : trans_table[j] \in Slot
    BY DEF TypeOK
  <1>5. SemaphoreOwner'
    <2> SUFFICES ASSUME NEW j \in Slots, trans_table'[j].sync_sem # None
                 PROVE  LET u == trans_table'[j] IN
                        /\ pc'[u.sync_sem] \in InSendSync
                        /\ u.resp_buf = u.sync_sem
                        /\ frame'[u.sync_sem] =
                              [idx |-> j, dest |-> u.dest_id, seq |-> u.expected_seq]
      BY DEF SemaphoreOwner
    <2>1. CASE j = i
      BY <1>1, <2>1 DEF InSendSync
    <2>2. CASE j # i
      <3>1. trans_table[j].sync_sem \in Calls /\ pc[trans_table[j].sync_sem] \in InSendSync
        BY <1>2, <1>4, <2>2 DEF Owners, SemaphoreOwner, Slot, Calls
      <3>2. trans_table[j].sync_sem # c
        BY <3>1 DEF InSendSync
      <3>3. QED
        BY <1>2, <1>3, <2>2, <3>1, <3>2 DEF Owners, SemaphoreOwner
    <2>3. QED
      BY <2>1, <2>2
  <1>6. CallbackOwner'
    <2> SUFFICES ASSUME NEW j \in Slots, trans_table'[j].callback # None
                 PROVE  LET u == trans_table'[j] IN
                        /\ pc'[u.callback] # "new"
                        /\ frame'[u.callback] =
                              [idx |-> j, dest |-> u.dest_id, seq |-> u.expected_seq]
      BY DEF CallbackOwner
    <2>1. CASE j = i
      BY <1>1, <2>1
    <2>2. CASE j # i
      <3>1. trans_table[j].callback \in Calls /\ pc[trans_table[j].callback] # "new"
        BY <1>2, <1>4, <2>2 DEF Owners, CallbackOwner, Slot, Calls
      <3>2. QED
        BY <1>2, <1>3, <2>2, <3>1 DEF Owners, CallbackOwner
    <2>3. QED
      BY <2>1, <2>2
  <1>7. QED
    BY <1>5, <1>6 DEF Owners

-----------------------------------------------------------------------------
(* The inductive invariant and its steps.                                  *)

IInv == TypeOK /\ Ownership

\* No slot has an owner at the start.
LEMMA InitOwnership == Init => Ownership
  BY DEF Init, Ownership, SemaphoreOwner, CallbackOwner, Fresh, RightAnswer, ZeroSlot

\* A step that starts no call and accepts no answer keeps the two facts about
\* answers.
LEMMA AnswersKept ==
    ASSUME Fresh, RightAnswer, answers' = answers, frame' = frame,
           \A c \in Calls : pc[c] # "new" => pc'[c] # "new"
    PROVE  Fresh' /\ RightAnswer'
  BY DEF Fresh, RightAnswer

\* A call that starts may write its own frame: it has no answer yet.
LEMMA AnswersAtStart ==
    ASSUME TypeOK, Fresh, RightAnswer, answers' = answers,
           NEW c \in Calls, pc[c] = "new", NEW label, label # "new", Goto(c, label),
           NEW f, frame' = [frame EXCEPT ![c] = f]
    PROVE  Fresh' /\ RightAnswer'
  BY DEF Fresh, RightAnswer, TypeOK, Goto

\* A response that matches slot i belongs to the call c the slot names.
LEMMA AnswersAccepted ==
    ASSUME TypeOK, Fresh, RightAnswer, frame' = frame, pc' = pc,
           NEW c \in Calls, Accept(c), pc[c] # "new",
           frame[c] = [idx |-> rx.tid, dest |-> rx.src, seq |-> rx.seq]
    PROVE  Fresh' /\ RightAnswer'
  <1>1. \A d \in Calls : answers'[d] = IF d = c THEN answers[d] \cup {<<rx.src, rx.tid, rx.seq>>}
                                               ELSE answers[d]
    BY DEF Accept, TypeOK
  <1>2. <<rx.src, rx.tid, rx.seq>> = <<frame[c].dest, frame[c].idx, frame[c].seq>>
    OBVIOUS
  <1>3. Fresh'
    BY <1>1 DEF Fresh
  <1>4. RightAnswer'
    BY <1>1, <1>2 DEF RightAnswer
  <1>5. QED
    BY <1>3, <1>4

\* Every step of every thread keeps the owners and the answers right.
LEMMA NextOwnership == IInv /\ [Next]_vars => Ownership'
  <1> SUFFICES ASSUME TypeOK, Owners, Fresh, RightAnswer, [Next]_vars
               PROVE  Owners' /\ Fresh' /\ RightAnswer'
    BY DEF IInv, Ownership, Owners
  <1> USE DEF callVars, threadVars, history
  <1> DEFINE Goal == Owners' /\ Fresh' /\ RightAnswer'
  <1>1. ASSUME NEW c \in AsyncCalls, AsyncAlloc(c) PROVE Goal
    <2>1. PICK i \in Slots, dest \in Nodes :
             /\ SetSlot(i, AsyncSlot(trans_table[i], c, dest))
             /\ frame' = [frame EXCEPT ![c] =
                             [idx |-> i, dest |-> dest, seq |-> seq_counter]]
      BY <1>1 DEF AsyncAlloc
    <2> DEFINE t == AsyncSlot(trans_table[i], c, dest)
    <2>2. /\ trans_table[i] \in Slot
          /\ c \in Calls /\ pc[c] = "new" /\ Goto(c, "sending") /\ answers' = answers
      BY <1>1 DEF AsyncAlloc, CanStart, TypeOK, Calls
    <2>3. t \in Slot
      <3>1. seq_counter \in Seqs /\ 0 \in Times
        BY SizeAssumption DEF TypeOK, Times
      <3>2. QED
        BY <2>2, <3>1, TimeoutAssumption DEF AsyncSlot, Slot
    <2>4. /\ t.sync_sem = None /\ t.callback \in {None, c}
          /\ t.dest_id = dest /\ t.expected_seq = seq_counter
      BY <2>2 DEF AsyncSlot, Slot
    <2>5. Owners'
      BY <2>1, <2>2, <2>3, <2>4, NewOwner
    <2>6. QED
      BY <2>1, <2>2, <2>5, AnswersAtStart
  <1>2. ASSUME NEW c \in SyncCalls, SyncAlloc(c) PROVE Goal
    <2>1. PICK i \in Slots, dest \in Nodes, timeout \in SyncTimeouts :
             /\ SetSlot(i, SyncSlot(trans_table[i], c, dest, timeout))
             /\ frame' = [frame EXCEPT ![c] =
                             [idx |-> i, dest |-> dest, seq |-> seq_counter]]
      BY <1>2 DEF SyncAlloc
    <2> DEFINE t == SyncSlot(trans_table[i], c, dest, timeout)
    <2>2. /\ trans_table[i] \in Slot
          /\ c \in Calls /\ pc[c] = "new" /\ Goto(c, "sending") /\ answers' = answers
      BY <1>2 DEF SyncAlloc, CanStart, TypeOK, Calls
    <2>3. t \in Slot
      <3>1. seq_counter \in Seqs /\ 0 \in Times
        BY SizeAssumption DEF TypeOK, Times
      <3>2. QED
        BY <2>2, <3>1, TimeoutAssumption DEF SyncSlot, Slot
    <2>4. /\ t.sync_sem = c /\ t.resp_buf = c /\ t.callback = None
          /\ t.dest_id = dest /\ t.expected_seq = seq_counter
      BY <2>2 DEF SyncSlot, Slot
    <2>5. Owners'
      BY <2>1, <2>2, <2>3, <2>4, NewOwner
    <2>6. QED
      BY <2>1, <2>2, <2>5, AnswersAtStart
  <1>3. ASSUME NEW c \in SyncCalls, SyncNoSem(c) PROVE Goal
    <2>1. PICK i \in Slots, dest \in Nodes, timeout \in SyncTimeouts :
             SetSlot(i, NoSemSlot(trans_table[i], c, dest, timeout))
      BY <1>3 DEF SyncNoSem
    <2> DEFINE t == NoSemSlot(trans_table[i], c, dest, timeout)
    <2>2. /\ trans_table[i] \in Slot
          /\ c \in Calls /\ pc[c] = "new" /\ Goto(c, "done")
          /\ answers' = answers /\ frame' = [frame EXCEPT ![c] = frame[c]]
      BY <1>3 DEF SyncNoSem, CanStart, TypeOK, Calls
    <2>3. t \in Slot
      <3>1. seq_counter \in Seqs /\ 0 \in Times
        BY SizeAssumption DEF TypeOK, Times
      <3>2. QED
        BY <2>2, <3>1, TimeoutAssumption DEF NoSemSlot, SyncSlot, Slot
    <2>4. t.sync_sem = None /\ t.callback = None
      BY <2>2 DEF NoSemSlot, SyncSlot, Slot
    <2>5. Owners'
      BY <2>1, <2>2, <2>3, <2>4, NewOwner
    <2>6. QED
      BY <2>2, <2>5, AnswersAtStart
  <1>4. ASSUME NEW c \in AsyncCalls, AsyncFull(c) PROVE Goal
    <2>1. \A d \in Calls : pc[d] # "new" => pc'[d] # "new"
      BY <1>4 DEF AsyncFull, Goto, TypeOK
    <2>2. \A d \in SyncCalls : pc'[d] = pc[d]
      BY <1>4, CallsAssumption DEF AsyncFull, Goto, TypeOK, Calls
    <2>3. QED
      BY <1>4, <2>1, <2>2, OwnersKept, AnswersKept DEF AsyncFull, SameOwner
  <1>5. ASSUME NEW c \in AsyncCalls, AsyncSent(c) \/ AsyncSendFail(c) PROVE Goal
    <2>1. c \in Calls /\ c \notin SyncCalls
      BY CallsAssumption DEF Calls
    <2>2. PICK label \in {"accepted", "failed"}, s \in {"IDLE", "WAITING"} :
             /\ SetSlot(frame[c].idx, [trans_table[frame[c].idx] EXCEPT !.state = s])
             /\ Goto(c, label)
      BY <1>5 DEF AsyncSent, AsyncSendFail
    <2>3. frame' = frame /\ answers' = answers /\ pc[c] # "new"
      BY <1>5 DEF AsyncSent, AsyncSendFail
    <2>4. SameOwner(trans_table[frame[c].idx], [trans_table[frame[c].idx] EXCEPT !.state = s])
      BY <2>1, OwnSlotType DEF SameOwner, Slot
    <2>5. Owners'
      BY <2>1, <2>2, <2>3, <2>4, OwnSlotStep
    <2>6. \A d \in Calls : pc[d] # "new" => pc'[d] # "new"
      BY <2>2 DEF Goto, TypeOK
    <2>7. QED
      BY <2>3, <2>5, <2>6, AnswersKept
  <1>6. ASSUME NEW c \in SyncCalls, SyncSent(c) PROVE Goal
    <2>1. c \in Calls
      BY DEF Calls
    <2> DEFINE t == [trans_table[frame[c].idx] EXCEPT !.state = "WAITING"]
    <2>2. /\ SetSlot(frame[c].idx, t) /\ Goto(c, "sent")
          /\ frame' = frame /\ answers' = answers
      BY <1>6 DEF SyncSent
    <2>3. SameOwner(trans_table[frame[c].idx], t)
      BY <2>1, OwnSlotType DEF SameOwner, Slot
    <2>4. Owners'
      BY <2>1, <2>2, <2>3, OwnSlotStep DEF InSendSync
    <2>5. \A d \in Calls : pc[d] # "new" => pc'[d] # "new"
      BY <2>2 DEF Goto, TypeOK
    <2>6. QED
      BY <2>2, <2>4, <2>5, AnswersKept
  <1>7. ASSUME NEW c \in SyncCalls, SyncFailFree(c) \/ SyncReap(c) PROVE Goal
    <2>1. c \in Calls
      BY DEF Calls
    <2> DEFINE t == Reaped(trans_table[frame[c].idx])
    <2>2. /\ SetSlot(frame[c].idx, t) /\ Goto(c, "done")
          /\ frame' = frame /\ answers' = answers
      BY <1>7 DEF SyncFailFree, SyncReap
    <2>3. SameOwner(trans_table[frame[c].idx], t) /\ t.sync_sem = None
      BY <2>1, OwnSlotType DEF SameOwner, Slot, Reaped
    <2>4. Owners'
      BY <2>1, <2>2, <2>3, OwnSlotStep
    <2>5. \A d \in Calls : pc[d] # "new" => pc'[d] # "new"
      BY <2>2 DEF Goto, TypeOK
    <2>6. QED
      BY <2>2, <2>4, <2>5, AnswersKept
  <1>8. ASSUME NEW c \in SyncCalls,
               SyncFull(c) \/ SyncSendFail(c) \/ SyncWait(c) \/ SyncWake(c)
        PROVE  Goal
    <2>1. \A d \in Calls : pc[d] # "new" => pc'[d] # "new"
      BY <1>8 DEF SyncFull, SyncSendFail, SyncWait, SyncWake, Goto, TypeOK
    <2>2. \A d \in SyncCalls : pc[d] \in InSendSync => pc'[d] \in InSendSync
      BY <1>8 DEF SyncFull, SyncSendFail, SyncWait, SyncWake, CanStart, Goto, TypeOK,
                  InSendSync, Calls
    <2>3. trans_table' = trans_table /\ frame' = frame /\ answers' = answers
      BY <1>8 DEF SyncFull, SyncSendFail, SyncWait, SyncWake
    <2>4. QED
      BY <2>1, <2>2, <2>3, OwnersKept, AnswersKept DEF SameOwner
  <1>9. ASSUME \/ Reply \/ RxArrive \/ RxDrop \/ RxCall \/ TickStart \/ TickCall
               \/ DeinitStart \/ DeinitCall \/ DeinitDone \/ UNCHANGED vars
        PROVE  Goal
    <2>1. trans_table' = trans_table /\ frame' = frame /\ pc' = pc /\ answers' = answers
      BY <1>9 DEF Reply, RxArrive, RxDrop, RxCall, TickStart, TickCall, DeinitStart,
                  DeinitCall, DeinitDone, vars
    <2>2. QED
      BY <2>1, OwnersKept, AnswersKept DEF SameOwner
  <1> DEFINE r == trans_table[rx.tid]
  <1>a. rx.tid \in Slots /\ r \in Slot
    BY DEF TypeOK
  <1>10. ASSUME RxAsync PROVE Goal
    <2>1. /\ SetSlot(rx.tid, [r EXCEPT !.state = "IDLE"]) /\ Accept(r.callback)
          /\ r.callback # None /\ Matches(r, rx.src, rx.seq)
          /\ frame' = frame /\ pc' = pc
      BY <1>10 DEF RxAsync
    <2>2. \A i \in Slots : SameOwner(trans_table[i], trans_table'[i])
      BY <1>a, <2>1 DEF SetSlot, SameOwner, TypeOK, Slot
    <2>3. Owners'
      BY <2>1, <2>2, OwnersKept
    <2>4. /\ r.callback \in Calls /\ pc[r.callback] # "new"
          /\ frame[r.callback] = [idx |-> rx.tid, dest |-> rx.src, seq |-> rx.seq]
      BY <1>a, <2>1 DEF Owners, CallbackOwner, Matches, Slot, Calls
    <2>5. QED
      BY <2>1, <2>3, <2>4, AnswersAccepted
  <1>11. ASSUME RxSync PROVE Goal
    <2>1. /\ SetSlot(rx.tid, [r EXCEPT !.result = "OK"]) /\ Accept(r.resp_buf)
          /\ r.sync_sem # None /\ Matches(r, rx.src, rx.seq)
          /\ frame' = frame /\ pc' = pc
      BY <1>11 DEF RxSync
    <2>2. \A i \in Slots : SameOwner(trans_table[i], trans_table'[i])
      BY <1>a, <2>1 DEF SetSlot, SameOwner, TypeOK, Slot
    <2>3. Owners'
      BY <2>1, <2>2, OwnersKept
    <2>4. /\ r.resp_buf \in Calls /\ pc[r.resp_buf] # "new"
          /\ frame[r.resp_buf] = [idx |-> rx.tid, dest |-> rx.src, seq |-> rx.seq]
      BY <1>a, <2>1 DEF Owners, SemaphoreOwner, InSendSync, Matches, Slot, Calls
    <2>5. QED
      BY <2>1, <2>3, <2>4, AnswersAccepted
  <1>12. ASSUME RxSilent PROVE Goal
    <2>1. /\ SetSlot(rx.tid, [r EXCEPT !.state = "IDLE"])
          /\ frame' = frame /\ pc' = pc /\ answers' = answers
      BY <1>12 DEF RxSilent
    <2>2. \A i \in Slots : SameOwner(trans_table[i], trans_table'[i])
      BY <1>a, <2>1 DEF SetSlot, SameOwner, TypeOK, Slot
    <2>3. QED
      BY <2>1, <2>2, OwnersKept, AnswersKept
  <1>13. ASSUME TickScan PROVE Goal
    <2>1. \A i \in Slots : SameOwner(trans_table[i], Scanned(i))
      BY DEF SameOwner, Scanned, TimedOut, TypeOK, Slot
    <2>2. QED
      BY <1>13, <2>1, OwnersKept, AnswersKept DEF TickScan
  <1>14. ASSUME DeinitSlot PROVE Goal
    <2>1. /\ SetSlot(deinit.i, Cancelled(trans_table[deinit.i])) /\ deinit.i \in Slots
          /\ frame' = frame /\ pc' = pc /\ answers' = answers
      BY <1>14 DEF DeinitSlot
    <2>2. SameOwner(trans_table[deinit.i], Cancelled(trans_table[deinit.i]))
      BY <2>1 DEF SameOwner, Cancelled, TypeOK, Slot
    <2>3. \A i \in Slots : SameOwner(trans_table[i], trans_table'[i])
      BY <2>1, <2>2 DEF SetSlot, SameOwner, TypeOK
    <2>4. QED
      BY <2>1, <2>3, OwnersKept, AnswersKept
  <1>15. QED
    BY <1>1, <1>2, <1>3, <1>4, <1>5, <1>6, <1>7, <1>8, <1>9, <1>10, <1>11, <1>12,
       <1>13, <1>14
    DEF Next, AsyncStep, SyncStep, RxStep, TickStep, DeinitStep

\* The invariant holds in every reachable state.
LEMMA InductiveInvariant == Spec => []IInv
  <1>1. Init => IInv
    BY InitTypeOK, InitOwnership DEF IInv
  <1>2. IInv /\ [Next]_vars => IInv'
    BY NextTypeOK, NextOwnership DEF IInv
  <1>3. QED
    BY <1>1, <1>2, PTL DEF Spec

\* The response buffer that on_response would write belongs to a call that has
\* not returned, although tick and deinit release the slot before the call does.
THEOREM BufferSafe == Spec => []BufferLifetime
  <1>1. IInv => BufferLifetime
    <2> SUFFICES ASSUME IInv, NEW i \in Slots, trans_table[i].sync_sem # None
                 PROVE  /\ trans_table[i].resp_buf \in SyncCalls
                        /\ pc[trans_table[i].resp_buf] \in InSendSync
      BY DEF BufferLifetime
    <2>1. trans_table[i].sync_sem \in SyncCalls
      BY DEF IInv, TypeOK, Slot
    <2>2. QED
      BY <2>1 DEF IInv, Ownership, SemaphoreOwner
  <1>2. QED
    BY <1>1, InductiveInvariant, PTL

\* A call is given only responses from the node it addressed, for its slot and
\* with its sequence number.
THEOREM AnswerSafe == Spec => []RightAnswer
  <1>1. IInv => RightAnswer
    BY DEF IInv, Ownership
  <1>2. QED
    BY <1>1, InductiveInvariant, PTL

-----------------------------------------------------------------------------
(* Shutting down.                                                          *)

\* Once shutdown is set no call is being sent and none starts, and the slots that
\* deinit has passed stay released.
Drained ==
    /\ deinit.pc = "off" <=> ~shutdown
    /\ deinit.pc = "off" => deinit.i = 0
    /\ deinit.pc = "done" => deinit.i = MaxTrans
    /\ shutdown => \A c \in Calls : pc[c] \notin {"sending", "destroyed"}
    /\ \A i \in Slots : i < deinit.i => trans_table[i].state = "IDLE"

\* A step before shutdown leaves nothing to keep.
LEMMA DrainedBefore ==
    ASSUME TypeOK, Drained, ~shutdown, UNCHANGED <<shutdown, deinit>>
    PROVE  Drained'
  BY DEF Drained, Slots, TypeOK

\* A step that releases slots, takes none and sends nothing.
LEMMA DrainedKept ==
    ASSUME TypeOK, Drained, UNCHANGED <<shutdown, deinit>>,
           \A i \in Slots : trans_table[i].state = "IDLE" => trans_table'[i].state = "IDLE",
           \A c \in Calls : pc'[c] \in {"sending", "destroyed"} => pc'[c] = pc[c]
    PROVE  Drained'
  BY DEF Drained

\* Every step keeps the passed slots released, when deinit waits for the calls that
\* are being sent.
LEMMA NextDrained ==
    ASSUME QuiescentDeinit, TypeOK, Drained, [Next]_vars
    PROVE  Drained'
  <1> USE DEF callVars, threadVars, history
  <1>1. ASSUME NEW c \in AsyncCalls, AsyncStep(c) PROVE Drained'
    <2>1. ~shutdown
      BY <1>1 DEF AsyncStep, AsyncAlloc, AsyncFull, AsyncSent, AsyncSendFail, CanStart,
                  Drained, Calls
    <2>2. UNCHANGED <<shutdown, deinit>>
      BY <1>1 DEF AsyncStep, AsyncAlloc, AsyncFull, AsyncSent, AsyncSendFail
    <2>3. QED
      BY <2>1, <2>2, DrainedBefore
  <1>2. ASSUME NEW c \in SyncCalls, SyncStep(c) PROVE Drained'
    <2>1. UNCHANGED <<shutdown, deinit>>
      BY <1>2 DEF SyncStep, SyncAlloc, SyncNoSem, SyncFull, SyncSendFail, SyncFailFree,
                  SyncSent, SyncWait, SyncWake, SyncReap
    <2>2. CASE ~shutdown
      BY <2>1, <2>2, DrainedBefore
    <2>3. CASE shutdown
      <3>1. SyncWait(c) \/ SyncWake(c) \/ SyncReap(c)
        BY <1>2, <2>3 DEF SyncStep, SyncAlloc, SyncNoSem, SyncFull, SyncSendFail,
                          SyncFailFree, SyncSent, CanStart, Drained, Calls
      <3>2. PICK label \in {"waiting", "woken", "done"} : Goto(c, label)
        BY <3>1 DEF SyncWait, SyncWake, SyncReap
      <3>3. \A d \in Calls : pc'[d] \in {"sending", "destroyed"} => pc'[d] = pc[d]
        BY <3>2 DEF Goto, TypeOK
      <3>4. \A i \in Slots : trans_table[i].state = "IDLE" => trans_table'[i].state = "IDLE"
        <4>1. Reaped(trans_table[frame[c].idx]).state = "IDLE"
          BY OwnSlotType DEF Reaped, Slot, Calls
        <4>2. QED
          BY <3>1, <4>1 DEF SyncWait, SyncWake, SyncReap, SetSlot, TypeOK
      <3>5. QED
        BY <2>1, <3>3, <3>4, DrainedKept
    <2>4. QED
      BY <2>2, <2>3
  <1>3. ASSUME RxStep \/ TickStep \/ Reply \/ UNCHANGED vars PROVE Drained'
    <2>1. UNCHANGED <<shutdown, deinit, pc>>
      BY <1>3 DEF RxStep, RxArrive, RxDrop, RxAsync, RxSync, RxSilent, RxCall, TickStep,
                  TickStart, TickScan, TickCall, Reply, vars
    <2>2. \A i \in Slots : trans_table[i].state = "IDLE" => trans_table'[i].state = "IDLE"
      <3>1. CASE TickScan
        BY <3>1 DEF TickScan, Scanned, Arming, Due
      <3>2. CASE RxAsync \/ RxSync \/ RxSilent
        BY <3>2 DEF RxAsync, RxSync, RxSilent, SetSlot, TypeOK, Slot
      <3>3. CASE UNCHANGED trans_table
        BY <3>3
      <3>4. QED
        BY <1>3, <3>1, <3>2, <3>3 DEF RxStep, RxArrive, RxDrop, RxCall, TickStep, TickStart,
                                      TickCall, Reply, vars
    <2>3. QED
      BY <2>1, <2>2, DrainedKept
  <1>4. ASSUME DeinitStart PROVE Drained'
    <2>1. /\ \A c \in Calls : pc[c] \notin {"sending", "destroyed"}
          /\ shutdown' = TRUE /\ deinit'.pc = "scan" /\ deinit'.i = 0 /\ pc' = pc
      BY <1>4 DEF DeinitStart, Drained, TypeOK
    <2>2. QED
      BY <2>1 DEF Drained, Slots
  <1>5. ASSUME DeinitSlot PROVE Drained'
    <2>1. /\ deinit.i \in Slots /\ deinit'.i = deinit.i + 1
          /\ deinit.pc = "scan" /\ deinit'.pc = "scan" /\ UNCHANGED <<shutdown, pc>>
          /\ SetSlot(deinit.i, Cancelled(trans_table[deinit.i]))
      BY <1>5 DEF DeinitSlot, TypeOK
    <2>2. Cancelled(trans_table[deinit.i]).state = "IDLE"
      BY <2>1 DEF Cancelled, TypeOK, Slot
    <2>3. \A i \in Slots : trans_table'[i] = IF i = deinit.i
                                                THEN Cancelled(trans_table[deinit.i])
                                                ELSE trans_table[i]
      BY <2>1 DEF SetSlot, TypeOK
    <2>4. \A i \in Slots : i < deinit.i + 1 => i < deinit.i \/ i = deinit.i
      BY <2>1 DEF Slots
    <2>5. QED
      BY <2>1, <2>2, <2>3, <2>4 DEF Drained
  <1>6. ASSUME DeinitCall \/ DeinitDone PROVE Drained'
    <2>1. UNCHANGED <<shutdown, pc, trans_table>> /\ deinit'.i = deinit.i
      BY <1>6 DEF DeinitCall, DeinitDone, TypeOK
    <2>2. \/ deinit'.pc = deinit.pc
          \/ deinit.pc = "scan" /\ deinit'.pc = "done" /\ deinit.i = MaxTrans
      BY <1>6 DEF DeinitCall, DeinitDone, TypeOK
    <2>3. QED
      BY <2>1, <2>2 DEF Drained
  <1>7. QED
    BY <1>1, <1>2, <1>3, <1>4, <1>5, <1>6 DEF Next, DeinitStep

\* From the first step on, if deinit waits for the calls that are being sent.
LEMMA DrainedInvariant ==
    ASSUME QuiescentDeinit
    PROVE  Spec => []Drained
  <1>1. Init => Drained
    BY DEF Init, Drained, Slots
  <1>2. TypeOK /\ Drained /\ [Next]_vars => Drained'
    BY NextDrained
  <1>3. QED
    BY <1>1, <1>2, TypeCorrect, PTL DEF Spec

\* When deinit, called while no request is being sent, returns, every slot has been
\* released, whatever responses, timeouts and waking callers it raced with.
THEOREM DeinitSafe ==
    ASSUME QuiescentDeinit
    PROVE  Spec => []DeinitDrains
  <1>1. Drained => DeinitDrains
    BY SizeAssumption DEF Drained, DeinitDrains, Slots
  <1>2. QED
    BY <1>1, DrainedInvariant, PTL

-----------------------------------------------------------------------------
(* Synchronous calls of an application with one thread.                    *)

\* Synchronous calls share their thread with every other call.
OneCaller == \A c \in SyncCalls, d \in Calls : Thread[d] = Thread[c]

\* While a synchronous call is inside the layer no other call is.
Alone ==
    \A c \in SyncCalls, d \in Calls : pc[c] \in InSendSync /\ pc[d] \in InSendSync => c = d

\* The slot of a call in send_sync is still that call's: its semaphore and its buffer
\* are the call's, and its result is ROUTE_OK only if the call was answered.
OwnSlot(c) ==
    LET t == trans_table[frame[c].idx] IN
    /\ t.sync_sem = c /\ t.resp_buf = c /\ t.callback = None
    /\ c \in live <=> pc[c] # "destroyed"
    /\ pc[c] \in {"sending", "destroyed"} => t.state # "WAITING"
    /\ t.result = "OK" => answers[c] # {}
    /\ pc[c] = "waiting" => waitOn[c] = c

SInv ==
    /\ Alone
    /\ \A c \in SyncCalls : pc[c] \in InSendSync => OwnSlot(c)
    /\ NoSemaphoreLeak
    /\ SyncOkMeansAnswered

\* A call that starts on the one thread finds no synchronous call in the layer, and
\* a synchronous call that starts finds no call at all.
LEMMA StartsAlone ==
    ASSUME OneCaller, NEW c \in Calls, CanStart(c)
    PROVE  \A d \in Calls : c \in SyncCalls \/ d \in SyncCalls => pc[d] \notin InSendSync
  BY DEF OneCaller, CanStart, InSendSync

\* A step of an asynchronous call: no synchronous call is in the layer.
LEMMA AsyncStepKeeps ==
    ASSUME OneCaller, IInv, SInv, NEW c \in AsyncCalls, AsyncStep(c)
    PROVE  SInv'
  <1>1. c \in Calls /\ \A d \in SyncCalls : d \in Calls /\ d # c
    BY CallsAssumption DEF Calls
  <1>2. CanStart(c) \/ pc[c] = "sending"
    BY DEF AsyncStep, AsyncAlloc, AsyncFull, AsyncSent, AsyncSendFail
  <1>3. \A d \in SyncCalls : pc[d] \notin InSendSync
    BY <1>1, <1>2, StartsAlone DEF SInv, Alone, InSendSync
  <1>4. UNCHANGED <<live, outcome, answers>> /\ \E label : Goto(c, label)
    BY DEF AsyncStep, AsyncAlloc, AsyncFull, AsyncSent, AsyncSendFail, history
  <1>5. \A d \in SyncCalls : pc'[d] = pc[d]
    BY <1>1, <1>4 DEF IInv, TypeOK, Goto
  <1>6. live \subseteq SyncCalls
    BY DEF IInv, TypeOK
  <1>7. QED
    BY <1>3, <1>4, <1>5, <1>6 DEF SInv, Alone, NoSemaphoreLeak, SyncOkMeansAnswered

\* A step of a synchronous call, the only call in the layer.
LEMMA OnlyCallKeeps ==
    ASSUME IInv, SInv, NEW c \in SyncCalls, NEW label, Goto(c, label), answers' = answers,
           \A d \in Calls : d # c => pc[d] \notin InSendSync,
           label \in InSendSync => OwnSlot(c)',
           live' \subseteq live \cup {c}, c \in live' => label \in InSendSync,
           \A d \in SyncCalls : d # c => outcome'[d] = outcome[d],
           label = "done" /\ outcome'[c] = "OK" => answers[c] # {}
    PROVE  SInv'
  <1>1. c \in Calls /\ pc'[c] = label /\ \A d \in Calls : d # c => pc'[d] = pc[d]
    BY DEF IInv, TypeOK, Goto, Calls
  <1>2. \A d \in SyncCalls : d \in Calls
    BY DEF Calls
  <1>3. Alone' /\ \A d \in SyncCalls : pc'[d] \in InSendSync => OwnSlot(d)'
    BY <1>1, <1>2 DEF Alone
  <1>4. NoSemaphoreLeak'
    <2> SUFFICES ASSUME NEW d \in live' PROVE pc'[d] \in InSendSync
      BY DEF NoSemaphoreLeak
    <2>1. CASE d = c
      BY <1>1, <2>1
    <2>2. CASE d # c
      BY <1>1, <2>2 DEF SInv, NoSemaphoreLeak, IInv, TypeOK, Calls
    <2>3. QED
      BY <2>1, <2>2
  <1>5. SyncOkMeansAnswered'
    BY <1>1, <1>2 DEF SInv, SyncOkMeansAnswered
  <1>6. QED
    BY <1>3, <1>4, <1>5 DEF SInv

\* A synchronous call starts.
LEMMA SyncStartKeeps ==
    ASSUME OneCaller, IInv, SInv, NEW c \in SyncCalls,
           SyncAlloc(c) \/ SyncNoSem(c) \/ SyncFull(c)
    PROVE  SInv'
  <1>1. CanStart(c) /\ c \in Calls /\ answers' = answers
    BY DEF SyncAlloc, SyncNoSem, SyncFull, history, Calls
  <1>2. pc[c] = "new" /\ \A d \in Calls : pc[d] \notin InSendSync
    BY <1>1, StartsAlone DEF CanStart
  <1>3. c \notin live
    BY <1>1, <1>2 DEF SInv, NoSemaphoreLeak
  <1>4. CASE SyncAlloc(c)
    <2>1. PICK i \in Slots, dest \in Nodes, timeout \in SyncTimeouts :
             /\ SetSlot(i, SyncSlot(trans_table[i], c, dest, timeout))
             /\ frame' = [frame EXCEPT ![c] =
                             [idx |-> i, dest |-> dest, seq |-> seq_counter]]
      BY <1>4 DEF SyncAlloc
    <2> DEFINE t == SyncSlot(trans_table[i], c, dest, timeout)
    <2>2. frame'[c].idx = i /\ trans_table'[i] = t
      BY <1>1, <2>1 DEF SetSlot, IInv, TypeOK
    <2>3. /\ t.sync_sem = c /\ t.resp_buf = c /\ t.callback = None
          /\ t.state = "SENDING" /\ t.result = "TIMEOUT"
      BY DEF SyncSlot, IInv, TypeOK, Slot
    <2>4. live' = live \cup {c} /\ outcome' = outcome /\ Goto(c, "sending") /\ pc'[c] = "sending"
      BY <1>1, <1>4 DEF SyncAlloc, Goto, IInv, TypeOK
    <2> HIDE DEF t
    <2>5. OwnSlot(c)'
      BY <2>2, <2>3, <2>4 DEF OwnSlot
    <2>6. QED
      BY <1>1, <1>2, <2>4, <2>5, OnlyCallKeeps DEF InSendSync
  <1>5. CASE SyncNoSem(c) \/ SyncFull(c)
    <2>1. /\ Goto(c, "done") /\ live' = live
          /\ outcome'[c] # "OK" /\ \A d \in SyncCalls : d # c => outcome'[d] = outcome[d]
      BY <1>5 DEF SyncNoSem, SyncFull, IInv, TypeOK
    <2>2. QED
      BY <1>1, <1>2, <1>3, <2>1, OnlyCallKeeps DEF InSendSync
  <1>6. QED
    BY <1>4, <1>5

\* A synchronous call goes on with the slot it has.
LEMMA SyncInsideKeeps ==
    ASSUME IInv, SInv, NEW c \in SyncCalls,
           \/ SyncSendFail(c) \/ SyncFailFree(c) \/ SyncSent(c)
           \/ SyncWait(c) \/ SyncWake(c) \/ SyncReap(c)
    PROVE  SInv'
  <1> DEFINE i == frame[c].idx
             t == trans_table[i]
  <1>1. /\ c \in Calls /\ pc[c] \in InSendSync
        /\ answers' = answers /\ frame' = frame
    BY DEF SyncSendFail, SyncFailFree, SyncSent, SyncWait, SyncWake, SyncReap, InSendSync,
           Calls, history
  <1>2. \A d \in Calls : d # c => pc[d] \notin InSendSync
    BY <1>1 DEF SInv, Alone
  <1>3. i \in Slots /\ t \in Slot
    BY <1>1, OwnSlotType DEF IInv
  <1>4. /\ t.sync_sem = c /\ t.resp_buf = c /\ t.callback = None
        /\ c \in live <=> pc[c] # "destroyed"
        /\ pc[c] \in {"sending", "destroyed"} => t.state # "WAITING"
        /\ t.result = "OK" => answers[c] # {}
        /\ pc[c] = "waiting" => waitOn[c] = c
    BY <1>1 DEF SInv, OwnSlot
  <1>5. c \in live => pc[c] \in InSendSync
    BY <1>1
  <1>6. \A label : Goto(c, label) => pc'[c] = label
    BY <1>1 DEF Goto, IInv, TypeOK
  <1> HIDE DEF i, t
  <1>7. CASE SyncSendFail(c)
    <2>1. /\ live' = live \ {c} /\ Goto(c, "destroyed") /\ UNCHANGED <<trans_table, outcome>>
          /\ pc[c] = "sending"
      BY <1>4, <1>7 DEF SyncSendFail, t, i
    <2>2. OwnSlot(c)'
      BY <1>1, <1>4, <1>6, <2>1 DEF OwnSlot, t, i
    <2>3. QED
      BY <1>1, <1>2, <2>1, <2>2, OnlyCallKeeps DEF InSendSync
  <1>8. CASE SyncFailFree(c)
    <2>1. /\ pc[c] = "destroyed" /\ Goto(c, "done") /\ live' = live
          /\ outcome'[c] # "OK" /\ \A d \in SyncCalls : d # c => outcome'[d] = outcome[d]
      BY <1>8 DEF SyncFailFree, IInv, TypeOK
    <2>2. c \notin live
      BY <2>1 DEF SInv, OwnSlot, InSendSync
    <2>3. QED
      BY <1>1, <1>2, <2>1, <2>2, OnlyCallKeeps DEF InSendSync
  <1>9. CASE SyncSent(c)
    <2>1. /\ SetSlot(i, [t EXCEPT !.state = "WAITING"]) /\ Goto(c, "sent") /\ pc[c] = "sending"
          /\ UNCHANGED <<live, outcome>>
      BY <1>9 DEF SyncSent, t, i
    <2>2. trans_table'[i] = [t EXCEPT !.state = "WAITING"]
      BY <1>3, <2>1 DEF SetSlot, IInv, TypeOK
    <2>3. LET u == [t EXCEPT !.state = "WAITING"] IN
          u.sync_sem = c /\ u.resp_buf = c /\ u.callback = None /\ u.result = t.result
      BY <1>3, <1>4 DEF Slot
    <2>4. OwnSlot(c)'
      BY <1>1, <1>4, <1>6, <2>1, <2>2, <2>3 DEF OwnSlot, i
    <2>5. QED
      BY <1>1, <1>2, <2>1, <2>4, OnlyCallKeeps DEF InSendSync
  <1>10. CASE SyncWait(c) \/ SyncWake(c)
    <2>1. PICK label \in {"waiting", "woken"} :
             Goto(c, label) /\ (label = "waiting" => waitOn'[c] = t.sync_sem)
      BY <1>10 DEF SyncWait, SyncWake, t, i, IInv, TypeOK
    <2>2. UNCHANGED <<trans_table, live, outcome>> /\ pc[c] # "destroyed"
      BY <1>10 DEF SyncWait, SyncWake
    <2>3. OwnSlot(c)'
      BY <1>1, <1>4, <1>6, <2>1, <2>2 DEF OwnSlot, t, i
    <2>4. QED
      BY <1>1, <1>2, <2>1, <2>2, <2>3, OnlyCallKeeps DEF InSendSync
  <1>11. CASE SyncReap(c)
    <2>1. /\ outcome'[c] = t.result /\ \A d \in SyncCalls : d # c => outcome'[d] = outcome[d]
          /\ live' = live \ {c} /\ Goto(c, "done")
      BY <1>4, <1>11 DEF SyncReap, t, i, IInv, TypeOK
    <2>2. QED
      BY <1>1, <1>2, <1>4, <2>1, OnlyCallKeeps DEF InSendSync
  <1>12. QED
    BY <1>7, <1>8, <1>9, <1>10, <1>11

\* A step of another thread may release a slot, and answers the call whose result it
\* sets to ROUTE_OK.
LEMMA OtherThreadKeeps ==
    ASSUME IInv, SInv, UNCHANGED <<pc, frame, live, waitOn, outcome>>,
           \A c \in Calls : answers[c] \subseteq answers'[c],
           \A i \in Slots : LET t == trans_table[i]
                                u == trans_table'[i] IN
              /\ u.sync_sem = t.sync_sem /\ u.resp_buf = t.resp_buf /\ u.callback = t.callback
              /\ u.state = "WAITING" => t.state = "WAITING"
              /\ u.result = "OK" => t.result = "OK" \/ answers'[t.resp_buf] # {}
    PROVE  SInv'
  <1>1. ASSUME NEW c \in SyncCalls, pc[c] \in InSendSync PROVE OwnSlot(c)'
    <2>1. OwnSlot(c) /\ frame[c].idx \in Slots /\ c \in Calls
      BY <1>1, OwnSlotType DEF SInv, IInv, Calls
    <2>2. QED
      BY <2>1 DEF OwnSlot
  <1>2. SyncOkMeansAnswered'
    <2>1. \A c \in SyncCalls : answers[c] # {} => answers'[c] # {}
      BY DEF Calls
    <2>2. QED
      BY <2>1 DEF SInv, SyncOkMeansAnswered
  <1>3. QED
    BY <1>1, <1>2 DEF SInv, Alone, NoSemaphoreLeak

\* The steps of the receive thread, the tick and deinit.
LEMMA ThreadsKeep ==
    ASSUME IInv, SInv, RxStep \/ TickStep \/ DeinitStep \/ Reply \/ UNCHANGED vars
    PROVE  SInv'
  <1> USE DEF callVars, threadVars, history
  <1> DEFINE r == trans_table[rx.tid]
  <1>1. UNCHANGED <<pc, frame, live, waitOn, outcome>>
    BY DEF RxStep, RxArrive, RxDrop, RxAsync, RxSync, RxSilent, RxCall, TickStep,
           TickStart, TickScan, TickCall, DeinitStep, DeinitStart, DeinitSlot, DeinitCall,
           DeinitDone, Reply, vars
  <1>2. rx.tid \in Slots /\ r \in Slot
    BY DEF IInv, TypeOK
  <1>3. ASSUME NEW c, Accept(c)
        PROVE  \A d \in Calls : answers[d] \subseteq answers'[d] /\ (d = c => answers'[d] # {})
    BY <1>3 DEF Accept, IInv, TypeOK
  <1>4. CASE RxSync
    <2>1. /\ SetSlot(rx.tid, [r EXCEPT !.result = "OK"]) /\ Accept(r.resp_buf)
          /\ r.sync_sem # None
      BY <1>4 DEF RxSync
    <2>2. r.resp_buf \in Calls
      BY <1>2, <2>1 DEF IInv, Ownership, SemaphoreOwner, Slot, Calls
    <2>3. \A i \in Slots : trans_table'[i] = IF i = rx.tid THEN [r EXCEPT !.result = "OK"]
                                                           ELSE trans_table[i]
      BY <1>2, <2>1 DEF SetSlot, IInv, TypeOK
    <2>4. LET u == [r EXCEPT !.result = "OK"] IN
          /\ u.sync_sem = r.sync_sem /\ u.resp_buf = r.resp_buf /\ u.callback = r.callback
          /\ u.state = r.state
      BY <1>2 DEF Slot
    <2>5. answers'[r.resp_buf] # {}
      BY <1>3, <2>1, <2>2
    <2>6. \A d \in Calls : answers[d] \subseteq answers'[d]
      BY <1>3, <2>1
    <2> HIDE DEF r
    <2>7. \A i \in Slots : LET t == trans_table[i]
                               u == trans_table'[i] IN
             /\ u.sync_sem = t.sync_sem /\ u.resp_buf = t.resp_buf /\ u.callback = t.callback
             /\ u.state = "WAITING" => t.state = "WAITING"
             /\ u.result = "OK" => t.result = "OK" \/ answers'[t.resp_buf] # {}
      BY <2>3, <2>4, <2>5 DEF r
    <2>8. QED
      BY <1>1, <2>6, <2>7, OtherThreadKeeps
  <1>5. CASE ~RxSync
    <2>1. \A d \in Calls : answers[d] \subseteq answers'[d]
      BY <1>3, <1>5 DEF RxStep, RxArrive, RxDrop, RxAsync, RxSilent, RxCall, TickStep,
            TickStart, TickScan, TickCall, DeinitStep, DeinitStart, DeinitSlot, DeinitCall,
            DeinitDone, Reply, vars
    <2>2. \A i \in Slots : LET t == trans_table[i]
                               u == trans_table'[i] IN
             /\ u.sync_sem = t.sync_sem /\ u.resp_buf = t.resp_buf /\ u.callback = t.callback
             /\ u.state = "WAITING" => t.state = "WAITING"
             /\ u.result = "OK" => t.result = "OK"
      <3>1. CASE RxAsync \/ RxSilent
        BY <1>2, <3>1 DEF RxAsync, RxSilent, SetSlot, IInv, TypeOK, Slot
      <3>2. CASE TickScan
        <4> SUFFICES ASSUME NEW i \in Slots
                     PROVE  LET t == trans_table[i]
                                u == Scanned(i) IN
             /\ u.sync_sem = t.sync_sem /\ u.resp_buf = t.resp_buf /\ u.callback = t.callback
             /\ u.state = "WAITING" => t.state = "WAITING"
             /\ u.result = "OK" => t.result = "OK"
          BY <3>2 DEF TickScan
        <4> DEFINE t == trans_table[i]
        <4>1. t \in Slot
          BY DEF IInv, TypeOK
        <4>2. CASE Scanned(i) = [t EXCEPT !.timeout_ms = Deadline(now, t.timeout_duration)]
          BY <4>1, <4>2 DEF Slot
        <4>3. CASE Scanned(i) \in {t, [t EXCEPT !.state = "IDLE"], TimedOut(t)}
          BY <4>1, <4>3 DEF TimedOut, Slot
        <4>4. QED
          BY <4>2, <4>3 DEF Scanned
      <3>3. CASE DeinitSlot
        <4>1. \A t \in Slot :
                 /\ Cancelled(t).sync_sem = t.sync_sem /\ Cancelled(t).resp_buf = t.resp_buf
                 /\ Cancelled(t).callback = t.callback
                 /\ Cancelled(t).state = "IDLE"
                 /\ Cancelled(t).result = "OK" => t.result = "OK"
          BY DEF Cancelled, Slot
        <4>2. QED
          BY <3>3, <4>1 DEF DeinitSlot, SetSlot, IInv, TypeOK
      <3>4. CASE UNCHANGED trans_table
        BY <3>4
      <3>5. QED
        BY <1>5, <3>1, <3>2, <3>3, <3>4
        DEF RxStep, RxArrive, RxDrop, RxCall, TickStep, TickStart, TickCall, DeinitStep,
            DeinitStart, DeinitCall, DeinitDone, Reply, vars
    <2>3. QED
      BY <1>1, <2>1, <2>2, OtherThreadKeeps
  <1>6. QED
    BY <1>4, <1>5

\* One thread: each synchronous call keeps its slot to itself.
LEMMA OneCallerInvariant ==
    ASSUME OneCaller
    PROVE  Spec => [](IInv /\ SInv)
  <1>1. Init => SInv
    BY DEF Init, SInv, Alone, NoSemaphoreLeak, SyncOkMeansAnswered, InSendSync, Calls
  <1>2. IInv /\ SInv /\ [Next]_vars => SInv'
    <2> SUFFICES ASSUME IInv, SInv, [Next]_vars PROVE SInv'
      OBVIOUS
    <2>1. ASSUME NEW c \in SyncCalls, SyncStep(c) PROVE SInv'
      BY <2>1, SyncStartKeeps, SyncInsideKeeps DEF SyncStep
    <2>2. QED
      BY <2>1, AsyncStepKeeps, ThreadsKeep DEF Next
  <1>3. QED
    BY <1>1, <1>2, InductiveInvariant, PTL DEF Spec

\* With one application thread a synchronous call that returns ROUTE_OK has its answer.
THEOREM SyncOkSafe ==
    ASSUME OneCaller
    PROVE  Spec => []SyncOkMeansAnswered
  <1>1. SInv => SyncOkMeansAnswered
    BY DEF SInv
  <1>2. QED
    BY <1>1, OneCallerInvariant, PTL

\* With one application thread, and a deinit that waits until no call is being sent,
\* nobody posts to, waits on or destroys a semaphore that is destroyed already, not even
\* tick, deinit and a response that race for the slot.
THEOREM SemaphoreSafe ==
    ASSUME OneCaller, QuiescentDeinit
    PROVE  Spec => []SemaphoreAlive
  <1>1. ASSUME IInv, SInv, Drained PROVE SemaphoreAlive
    <2>1. ASSUME NEW i \in Slots,
                 trans_table[i].state = "WAITING" \/ deinit.pc = "scan",
                 trans_table[i].sync_sem # None
          PROVE  trans_table[i].sync_sem \in live
      <3> DEFINE s == trans_table[i].sync_sem
      <3>1. /\ s \in SyncCalls /\ pc[s] \in InSendSync
            /\ frame[s] = [idx |-> i, dest |-> trans_table[i].dest_id,
                           seq |-> trans_table[i].expected_seq]
        BY <1>1, <2>1 DEF IInv, TypeOK, Slot, Ownership, SemaphoreOwner
      <3> HIDE DEF s
      <3>2. frame[s].idx = i
        BY <3>1
      <3>3. CASE trans_table[i].state = "WAITING"
        BY <1>1, <2>1, <3>1, <3>2, <3>3 DEF SInv, OwnSlot
      <3>4. CASE deinit.pc = "scan"
        <4>1. pc[s] # "destroyed"
          BY <1>1, <3>1, <3>4 DEF Drained, Calls
        <4>2. QED
          BY <1>1, <3>1, <4>1 DEF SInv, OwnSlot
      <3>5. QED
        BY <2>1, <3>3, <3>4 DEF s
    <2>2. \A c \in SyncCalls :
             /\ pc[c] = "waiting" => waitOn[c] \in live
             /\ pc[c] \in {"sending", "sent", "woken"}
                   => trans_table[frame[c].idx].sync_sem \in live
      BY <1>1 DEF SInv, OwnSlot, InSendSync
    <2>3. QED
      BY <2>1, <2>2 DEF SemaphoreAlive
  <1>2. QED
    BY <1>1, OneCallerInvariant, DrainedInvariant, PTL

\* With one application thread every semaphore is destroyed when its call has returned.
THEOREM SemaphoresFreed ==
    ASSUME OneCaller
    PROVE  Spec => []NoSemaphoreLeak
  <1>1. SInv => NoSemaphoreLeak
    BY DEF SInv
  <1>2. QED
    BY <1>1, OneCallerInvariant, PTL
=============================================================================
