---------------------------- MODULE Reassembly -----------------------------
(***************************************************************************)
(* Fragment reassembly, sources/frag/route_frag.c, over the block pool of  *)
(* sources/common/route_pool.c, without acknowledgements.                  *)
(*                                                                         *)
(* The receive thread runs route_frag_input, a second thread               *)
(* route_frag_tick.  A frame may arrive any number of times, in any order, *)
(* or never.  A payload is the frame that carried it.  What happens under  *)
(* frag_lock is one action; current_ms is written, and the completion      *)
(* callback runs, without it.                                              *)
(***************************************************************************)
EXTENDS Integers, FiniteSets

CONSTANTS
    Frames,         \* what may arrive: records [msg, src, seq, total, idx, len]
    None,           \* NULL
    MaxSlots,       \* cfg_max_reasm_slots
    MaxFrags,       \* cfg_max_frags_per_msg
    BlockCount,     \* pool.block_count
    FragSize,       \* cfg_frag_size
    MaxPayload,     \* cfg_max_payload
    ReasmTimeout,   \* cfg_reasm_timeout_ms
    TimeMod,        \* values of the uint32_t clock
    MaxStep         \* the longest time between two ticks

Slots   == 0..(MaxSlots - 1)
FragIdx == 0..(MaxFrags - 1)
Blocks  == 0..(BlockCount - 1)

ASSUME SizeAssumption ==
    /\ MaxSlots \in Nat \ {0} /\ MaxFrags \in Nat \ {0} /\ BlockCount \in Nat
    /\ FragSize \in Nat \ {0} /\ MaxPayload \in Nat \ {0}
    /\ TimeMod \in Nat \ {0} /\ ReasmTimeout \in Nat /\ MaxStep \in Nat \ {0}
ASSUME NoneAssumption == None \notin Blocks
ASSUME FrameAssumption ==
    \A f \in Frames : f.total \in Nat /\ f.idx \in Nat /\ f.len \in Nat

VARIABLES
    reasm_slots,    \* the reassembly slots
    bitmap,         \* the free blocks of the pool
    storage,        \* the payload last copied into each block
    current_ms,     \* written by the tick
    tick,           \* "idle", or "expire" between that write and the lock
    rx              \* the message, if any, on its way to complete_cb

vars == <<reasm_slots, bitmap, storage, current_ms, tick, rx>>

NoFragments == [k \in FragIdx |-> None]
NoMessage   == [hdr |-> None, buf |-> <<>>]

Init ==
    /\ reasm_slots = [i \in Slots |->
          [active |-> FALSE, src |-> None, seq |-> None, total |-> 0, received |-> 0,
           start_ms |-> 0, fragments |-> NoFragments]]
    /\ bitmap = Blocks
    /\ storage = [b \in Blocks |-> None]
    /\ current_ms = 0
    /\ tick = "idle"
    /\ rx = NoMessage

-----------------------------------------------------------------------------
(* Slots and blocks.                                                       *)

\* Mutant: messages of two nodes are told apart by their sequence number only.
MatchesSeq(s, f) == s.active /\ s.seq = f.seq

Matches(s, f) == s.active /\ s.src = f.src /\ s.seq = f.seq

\* find_reasm_slot, and alloc_reasm_slot when it finds none.
Finds(i, f) ==
    /\ Matches(reasm_slots[i], f)
    /\ \A j \in Slots : j < i => ~Matches(reasm_slots[j], f)

\* Mutant: a slot is opened without looking for the message's own.
OpensAnyway(i, f) ==
    /\ ~reasm_slots[i].active
    /\ \A j \in Slots : j < i => reasm_slots[j].active

Opens(i, f) ==
    /\ \A j \in Slots : ~Matches(reasm_slots[j], f)
    /\ ~reasm_slots[i].active
    /\ \A j \in Slots : j < i => reasm_slots[j].active

NewSlot(f) ==
    [active |-> TRUE, src |-> f.src, seq |-> f.seq, total |-> f.total, received |-> 0,
     start_ms |-> current_ms, fragments |-> NoFragments]

\* The slot a frame is put in.
SlotFor(i, f) == IF Finds(i, f) THEN reasm_slots[i] ELSE NewSlot(f)

\* route_pool_alloc takes the lowest block.
Lowest(b) == b \in bitmap /\ \A c \in bitmap : b <= c

\* Mutant: as many blocks are given back as were received, from the first on.
HeldReceived(s) == {s.fragments[k] : k \in {l \in FragIdx : l < s.received}} \ {None}

\* free_reasm_slot: the blocks it gives back and the slot it leaves.
Held(s)  == {s.fragments[k] : k \in {l \in FragIdx : l < s.total}} \ {None}
Freed(s) == [s EXCEPT !.active = FALSE,
                      !.fragments = [k \in FragIdx |-> IF k < s.total THEN None ELSE @[k]]]

Stored(s, k, b) == [s EXCEPT !.fragments[k] = b, !.received = @ + 1]

\* A block is written when it is taken and read only while it is held: what a
\* free block still says is forgotten.
Alive(store, free) == [b \in Blocks |-> IF b \in free THEN None ELSE store[b]]

\* The bytes in the first n pieces of a message.
Bytes(buf, n) ==
    LET sum[k \in 0..n] == IF k = 0 THEN 0 ELSE sum[k - 1] + buf[k].len
    IN  sum[n]

Payload(s, store) == [k \in 1..s.total |-> store[s.fragments[k - 1]]]

-----------------------------------------------------------------------------
(* frag_reassemble.  The cases that only count a drop and return leave the *)
(* state as it is and have no action: a total of 0 or beyond MaxFrags, no  *)
(* free slot, and a fragment already held by its slot.                     *)

\* A message of one fragment bypasses the slots.
InputSingle(f) ==
    /\ rx = NoMessage
    /\ f.total = 1
    /\ f.len <= MaxPayload
    /\ rx' = [hdr |-> f, buf |-> <<f>>]
    /\ UNCHANGED <<reasm_slots, bitmap, storage, current_ms, tick>>

\* Mutant: the number of fragments is not checked.
ReachesAnyTotal(i, f) ==
    /\ rx = NoMessage
    /\ f.total >= 2
    /\ Finds(i, f) \/ Opens(i, f)

\* A fragment of a longer message that reaches slot i.
Reaches(i, f) ==
    /\ rx = NoMessage
    /\ f.total \in 2..MaxFrags
    /\ Finds(i, f) \/ Opens(i, f)

Fits(i, f) == f.idx < SlotFor(i, f).total /\ f.len <= FragSize

\* A malformed fragment is refused, but the slot opened for it stays.
InputRefused(i, f) ==
    /\ Reaches(i, f)
    /\ ~Fits(i, f)
    /\ reasm_slots' = [reasm_slots EXCEPT ![i] = SlotFor(i, f)]
    /\ UNCHANGED <<bitmap, storage, current_ms, tick, rx>>

\* The pool is empty: the slot and all it holds are given up.
InputNoBlock(i, f) ==
    /\ Reaches(i, f)
    /\ Fits(i, f)
    /\ SlotFor(i, f).fragments[f.idx] = None
    /\ bitmap = {}
    /\ reasm_slots' = [reasm_slots EXCEPT ![i] = Freed(SlotFor(i, f))]
    /\ bitmap' = Held(SlotFor(i, f))
    /\ storage' = Alive(storage, bitmap')
    /\ UNCHANGED <<current_ms, tick, rx>>

\* The fragment is copied to block b of the pool.
Copies(i, f, b) ==
    /\ Reaches(i, f)
    /\ Fits(i, f)
    /\ SlotFor(i, f).fragments[f.idx] = None
    /\ Lowest(b)
    /\ UNCHANGED <<current_ms, tick>>

InputStored(i, f) ==
    \E b \in bitmap : LET s == Stored(SlotFor(i, f), f.idx, b) IN
        /\ Copies(i, f, b)
        /\ s.received # s.total
        /\ reasm_slots' = [reasm_slots EXCEPT ![i] = s]
        /\ bitmap' = bitmap \ {b}
        /\ storage' = [storage EXCEPT ![b] = f]
        /\ UNCHANGED rx

\* Mutant: the length of the message is not checked.
AssembledAnyLength(f, s, store) == [hdr |-> f, buf |-> Payload(s, store)]

\* What the last fragment brings about: the message, unless it is too long.
Assembled(f, s, store) ==
    IF Bytes(Payload(s, store), s.total) <= MaxPayload
      THEN [hdr |-> f, buf |-> Payload(s, store)]
      ELSE NoMessage

\* The last fragment: the slot is released, whether or not a message comes of it.
InputComplete(i, f) ==
    \E b \in bitmap :
        LET s     == Stored(SlotFor(i, f), f.idx, b)
            store == [storage EXCEPT ![b] = f]
        IN  /\ Copies(i, f, b)
            /\ s.received = s.total
            /\ rx' = Assembled(f, s, store)
            /\ reasm_slots' = [reasm_slots EXCEPT ![i] = Freed(s)]
            /\ bitmap' = (bitmap \ {b}) \cup Held(s)
            /\ storage' = Alive(store, bitmap')

\* complete_cb, after the unlock; reasm_buf is the receive thread's until it returns.
Complete ==
    /\ rx # NoMessage
    /\ rx' = NoMessage
    /\ UNCHANGED <<reasm_slots, bitmap, storage, current_ms, tick>>

-----------------------------------------------------------------------------
(* route_frag_tick and route_frag_deinit.                                  *)

TickStart ==
    /\ tick = "idle"
    /\ \E d \in 1..MaxStep : current_ms' = (current_ms + d) % TimeMod
    /\ tick' = "expire"
    /\ UNCHANGED <<reasm_slots, bitmap, storage, rx>>

\* (int32_t)(now - start) >= (int32_t)timeout
Age(s) == LET d == (current_ms - s.start_ms) % TimeMod
          IN  IF d < TimeMod \div 2 THEN d ELSE d - TimeMod

\* Mutant: the slot is kept one tick longer.
ExpiredLate(s) == s.active /\ Age(s) > ReasmTimeout

Expired(s) == s.active /\ Age(s) >= ReasmTimeout

\* The slots in which p holds are freed, one after the other.
Release(p) ==
    /\ reasm_slots' = [i \in Slots |-> IF p[i] THEN Freed(reasm_slots[i]) ELSE reasm_slots[i]]
    /\ bitmap' = bitmap \cup UNION {Held(reasm_slots[i]) : i \in {j \in Slots : p[j]}}
    /\ storage' = Alive(storage, bitmap')

TickExpire ==
    /\ tick = "expire"
    /\ Release([i \in Slots |-> Expired(reasm_slots[i])])
    /\ tick' = "idle"
    /\ UNCHANGED <<current_ms, rx>>

\* Takes no lock: called when the other threads are outside the layer.
Deinit ==
    /\ tick = "idle" /\ rx = NoMessage
    /\ Release([i \in Slots |-> reasm_slots[i].active])
    /\ UNCHANGED <<current_ms, tick, rx>>

Input(f) ==
    \/ InputSingle(f)
    \/ \E i \in Slots : \/ InputRefused(i, f) \/ InputNoBlock(i, f)
                        \/ InputStored(i, f) \/ InputComplete(i, f)

Next ==
    \/ \E f \in Frames : Input(f)
    \/ Complete
    \/ TickStart
    \/ TickExpire
    \/ Deinit

Spec == Init /\ [][Next]_vars

-----------------------------------------------------------------------------
(* Properties.                                                             *)

SlotType == [active : BOOLEAN, src : {f.src : f \in Frames} \cup {None},
             seq : {f.seq : f \in Frames} \cup {None}, total : 0..MaxFrags,
             received : Nat, start_ms : 0..(TimeMod - 1),
             fragments : [FragIdx -> Blocks \cup {None}]]

\* The state of the slots, the pool and the two threads.
TypeOK ==
    /\ reasm_slots \in [Slots -> SlotType]
    /\ bitmap \subseteq Blocks
    /\ storage \in [Blocks -> Frames \cup {None}]
    /\ current_ms \in 0..(TimeMod - 1)
    /\ tick \in {"idle", "expire"}

\* Every block of the pool is either free or held by exactly one fragment of one
\* slot, and released slots hold none.
Conserved(slots, free) ==
    /\ \A b \in Blocks :
          b \in free <=> \A i \in Slots, k \in FragIdx : slots[i].fragments[k] # b
    /\ \A i, j \in Slots, k, l \in FragIdx :
          slots[i].fragments[k] = slots[j].fragments[l]
             => slots[i].fragments[k] = None \/ (i = j /\ k = l)
    /\ \A i \in Slots, k \in FragIdx :
          slots[i].fragments[k] # None => slots[i].active /\ k < slots[i].total

\* No block leaks when a slot is completed, given up, refused, expired or
\* reopened, and none is handed out twice.
PoolConservation == Conserved(reasm_slots, bitmap)

\* A message handed up is all the fragments of one message, each at its place,
\* and no longer than the receive buffer it was copied into.
Integrity ==
    rx # NoMessage =>
        /\ \A k \in DOMAIN rx.buf : rx.buf[k].msg = rx.hdr.msg /\ rx.buf[k].idx = k - 1
        /\ Cardinality(DOMAIN rx.buf) = rx.hdr.total
        /\ Bytes(rx.buf, rx.hdr.total) <= MaxPayload

\* A source and sequence number are being reassembled in one slot only, and the
\* slot's count is the number of fragments it holds, short of its total.
SlotsConsistent ==
    /\ \A i, j \in Slots :
          reasm_slots[i].active /\ Matches(reasm_slots[j], reasm_slots[i]) => i = j
    /\ \A i \in Slots : LET s == reasm_slots[i] IN
          s.active => /\ s.received = Cardinality(Held(s))
                      /\ s.received < s.total

\* An incomplete message keeps its slot and blocks no longer than the timeout:
\* between two ticks no slot is that old, also when the clock has wrapped.
SlotAge ==
    tick = "idle" =>
        \A i \in Slots : reasm_slots[i].active => Age(reasm_slots[i]) \in 0..(ReasmTimeout - 1)
=============================================================================
