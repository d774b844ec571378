----------------------------- MODULE SlotProofs -----------------------------
(***************************************************************************)
(* The slots of Reassembly: one for each message, each with a true count   *)
(* of what it holds, none older than the timeout, and whole messages only  *)
(* handed up.  For any frames, slots and blocks; where the clock matters,  *)
(* any timeout below half of it.                                           *)
(***************************************************************************)
EXTENDS ReassemblyProofs, FiniteSetTheorems, FunctionTheorems

-----------------------------------------------------------------------------
(* Consistency, stated for any table.                                      *)

\* The count of a slot in use is what it holds.
Counts(s) == s.active => s.received = Cardinality(Held(s)) /\ s.received < s.total

Consistent(S) ==
    /\ \A i, j \in Slots : S[i].active /\ Matches(S[j], S[i]) => i = j
    /\ \A i \in Slots : Counts(S[i])

\* It is what SlotsConsistent says of the table.
LEMMA ConsistentTable == SlotsConsistent <=> Consistent(reasm_slots)
  BY DEF SlotsConsistent, Consistent, Counts

\* Releasing slots, whichever, keeps the others consistent.
LEMMA ConsistentRelease ==
    ASSUME NEW S, NEW T, Consistent(S),
           \A i \in Slots : T[i] = S[i] \/ T[i].active = FALSE
    PROVE  Consistent(T)
  <1>1. \A i \in Slots : T[i].active => T[i] = S[i]
    OBVIOUS
  <1>2. \A i, j \in Slots : T[i].active /\ Matches(T[j], T[i]) => i = j
    BY <1>1 DEF Consistent, Matches
  <1>3. \A i \in Slots : Counts(T[i])
    BY <1>1 DEF Consistent, Counts
  <1>4. QED
    BY <1>2, <1>3 DEF Consistent

\* So does putting a slot for the same message in the place of a slot in use.
LEMMA ConsistentReplace ==
    ASSUME NEW S \in [Slots -> SlotType], Consistent(S), NEW i \in Slots, NEW s,
           S[i].active, s.src = S[i].src, s.seq = S[i].seq, Counts(s)
    PROVE  Consistent([S EXCEPT ![i] = s])
  <1> DEFINE T == [S EXCEPT ![i] = s]
  <1>1. \A j \in Slots : T[j].src = S[j].src /\ T[j].seq = S[j].seq /\ (T[j].active => S[j].active)
    OBVIOUS
  <1>2. \A j, k \in Slots : T[j].active /\ Matches(T[k], T[j]) => j = k
    BY <1>1 DEF Consistent, Matches
  <1>3. \A j \in Slots : Counts(T[j])
    BY DEF Consistent
  <1>4. QED
    BY <1>2, <1>3 DEF Consistent

-----------------------------------------------------------------------------
(* The steps of one fragment.                                              *)

\* A slot just opened holds nothing, and the fragment that opens it has no other.
LEMMA ConsistentReached ==
    ASSUME Inv, SlotsConsistent, NEW f \in Frames, NEW i \in Slots, Reaches(i, f)
    PROVE  Consistent([reasm_slots EXCEPT ![i] = SlotFor(i, f)])
  <1> DEFINE S == [reasm_slots EXCEPT ![i] = SlotFor(i, f)]
  <1>1. reasm_slots \in [Slots -> SlotType] /\ Consistent(reasm_slots)
    BY ConsistentTable DEF Inv, PoolType
  <1>2. CASE Finds(i, f)
    <2>1. S = reasm_slots
      BY <1>1, <1>2 DEF SlotFor
    <2>2. QED
      BY <1>1, <2>1
  <1>3. CASE ~Finds(i, f)
    <2>1. /\ SlotFor(i, f) = NewSlot(f) /\ f.total \in 2..MaxFrags
          /\ \A j \in Slots : ~Matches(reasm_slots[j], f)
      BY <1>3 DEF SlotFor, Reaches, Opens
    <2>2. Counts(NewSlot(f))
      <3>1. NewSlot(f).total = f.total /\ NewSlot(f).received = 0
        BY DEF NewSlot
      <3>2. Held(NewSlot(f)) = {}
        BY DEF NewSlot, Held, NoFragments, FragIdx
      <3>3. QED
        BY <2>1, <3>1, <3>2, FS_EmptySet DEF Counts
    <2>3. \A j \in Slots : S[j] = IF j = i THEN NewSlot(f) ELSE reasm_slots[j]
      BY <1>1, <2>1
    <2>4. NewSlot(f).src = f.src /\ NewSlot(f).seq = f.seq
      BY DEF NewSlot
    <2>5. \A j, k \in Slots : S[j].active /\ Matches(S[k], S[j]) => j = k
      BY <1>1, <2>1, <2>3, <2>4 DEF Consistent, Matches
    <2>6. \A j \in Slots : Counts(S[j])
      BY <1>1, <2>2, <2>3 DEF Consistent
    <2>7. QED
      BY <2>5, <2>6 DEF Consistent
  <1>4. QED
    BY <1>2, <1>3

\* A block of the pool stored in an empty place is one more block held.
LEMMA HeldStored ==
    ASSUME NEW s \in SlotType, NEW k \in FragIdx, k < s.total, s.fragments[k] = None,
           NEW b \in Blocks
    PROVE  Held(Stored(s, k, b)) = Held(s) \cup {b}
  <1> DEFINE t == Stored(s, k, b)
  <1>1. /\ t.total = s.total
        /\ \A l \in FragIdx : t.fragments[l] = IF l = k THEN b ELSE s.fragments[l]
    BY StoredSlot
  <1> HIDE DEF t
  <1>2. b # None
    BY NoneAssumption
  <1>3. QED
    BY <1>1, <1>2 DEF Held, t

\* The fragments of a slot hold finitely many blocks.
LEMMA HeldFinite ==
    ASSUME NEW s \in SlotType
    PROVE  IsFiniteSet(Held(s)) /\ Cardinality(Held(s)) \in Nat
  <1>1. IsFiniteSet(Blocks)
    BY FS_Interval, SizeAssumption DEF Blocks
  <1>2. Held(s) \subseteq Blocks
    BY FreedSlot
  <1>3. IsFiniteSet(Held(s))
    BY <1>1, <1>2, FS_Subset
  <1>4. QED
    BY <1>3, FS_CardinalityType

\* A fragment stored, not the last of its message, is counted.
LEMMA ConsistentStored ==
    ASSUME Inv, SlotsConsistent, NEW f \in Frames, NEW i \in Slots, NEW b \in bitmap,
           Copies(i, f, b),
           Stored(SlotFor(i, f), f.idx, b).received # Stored(SlotFor(i, f), f.idx, b).total
    PROVE  Consistent([reasm_slots EXCEPT ![i] = Stored(SlotFor(i, f), f.idx, b)])
  <1> DEFINE t == SlotFor(i, f)
             s == Stored(t, f.idx, b)
             S == [reasm_slots EXCEPT ![i] = t]
  <1>1. /\ t \in SlotType /\ t.active /\ S \in [Slots -> SlotType]
        /\ Conserved(S, bitmap) /\ Consistent(S)
    BY SlotReached, ConsistentReached DEF Copies
  <1>2. reasm_slots \in [Slots -> SlotType] /\ bitmap \in SUBSET Blocks /\ b \in Blocks
    BY DEF Inv, PoolType
  <1>3. S[i] = t
    BY <1>2
  <1>4. f.idx \in FragIdx /\ f.idx < t.total /\ t.fragments[f.idx] = None
    BY <1>1, FrameAssumption, SizeAssumption DEF Copies, Fits, FragIdx, SlotType
  <1>5. b \notin Held(t)
    BY <1>1, <1>2, <1>3 DEF Conserved, Held
  <1>6. s.src = t.src /\ s.seq = t.seq /\ s.total = t.total /\ s.received = t.received + 1
    BY <1>1 DEF Stored, SlotType
  <1>7. t.received = Cardinality(Held(t)) /\ t.received < t.total
    BY <1>1, <1>3 DEF Consistent, Counts
  <1>8. Cardinality(Held(s)) = Cardinality(Held(t)) + 1
    <2>1. Held(s) = Held(t) \cup {b}
      BY <1>1, <1>2, <1>4, HeldStored
    <2>2. QED
      BY <1>1, <1>5, <2>1, HeldFinite, FS_AddElement
  <1>9. Counts(s)
    <2>1. s.received < s.total
      <3>1. s.received # s.total /\ t.received \in Nat /\ t.total \in Nat
        BY <1>1, SizeAssumption DEF SlotType
      <3>2. QED
        BY <1>6, <1>7, <3>1
    <2>2. QED
      BY <1>6, <1>7, <1>8, <2>1 DEF Counts
  <1>10. Consistent([S EXCEPT ![i] = s])
    BY <1>1, <1>3, <1>6, <1>9, ConsistentReplace
  <1>11. [S EXCEPT ![i] = s] = [reasm_slots EXCEPT ![i] = s]
    BY <1>2
  <1>12. QED
    BY <1>10, <1>11

\* A slot given back is not in use.
LEMMA ConsistentFreed ==
    ASSUME Inv, SlotsConsistent, NEW i \in Slots, NEW s \in SlotType
    PROVE  Consistent([reasm_slots EXCEPT ![i] = Freed(s)])
  <1>1. Consistent(reasm_slots) /\ Freed(s).active = FALSE
    BY ConsistentTable, FreedSlot
  <1>2. reasm_slots \in [Slots -> SlotType]
    BY DEF Inv, PoolType
  <1>3. QED
    BY <1>1, <1>2, ConsistentRelease

\* The tick and deinit give back all slots in which p holds.
LEMMA ConsistentReleased ==
    ASSUME Inv, SlotsConsistent, NEW p, Release(p)
    PROVE  SlotsConsistent'
  <1>1. \A i \in Slots : reasm_slots[i] \in SlotType
    BY DEF Inv, PoolType
  <1>2. \A i \in Slots : reasm_slots'[i] = reasm_slots[i] \/ reasm_slots'[i].active = FALSE
    BY <1>1, FreedSlot DEF Release
  <1>3. Consistent(reasm_slots')
    BY <1>2, ConsistentTable, ConsistentRelease
  <1>4. QED
    BY <1>3 DEF SlotsConsistent, Consistent, Counts

-----------------------------------------------------------------------------
(* The steps of the specification.                                         *)

\* At first no slot is in use.
LEMMA InitConsistent == Init => SlotsConsistent
  BY DEF Init, SlotsConsistent, Matches

\* Every step keeps one slot for each message and a true count in each.
LEMMA NextConsistent == Inv /\ SlotsConsistent /\ [Next]_vars => SlotsConsistent'
  <1> SUFFICES ASSUME Inv, SlotsConsistent, [Next]_vars PROVE SlotsConsistent'
    OBVIOUS
  <1>0. Consistent(reasm_slots') => SlotsConsistent'
    BY DEF SlotsConsistent, Consistent, Counts
  <1>a. UNCHANGED reasm_slots => SlotsConsistent'
    BY ConsistentTable, <1>0
  <1>1. ASSUME NEW f \in Frames, InputSingle(f) PROVE SlotsConsistent'
    BY <1>1, <1>a DEF InputSingle
  <1>2. ASSUME NEW f \in Frames, NEW i \in Slots, InputRefused(i, f) PROVE SlotsConsistent'
    BY <1>2, <1>0, ConsistentReached DEF InputRefused
  <1>3. ASSUME NEW f \in Frames, NEW i \in Slots, InputNoBlock(i, f) PROVE SlotsConsistent'
    <2>1. SlotFor(i, f) \in SlotType
      BY <1>3, SlotReached DEF InputNoBlock
    <2>2. QED
      BY <1>3, <1>0, <2>1, ConsistentFreed DEF InputNoBlock
  <1>4. ASSUME NEW f \in Frames, NEW i \in Slots, InputStored(i, f) PROVE SlotsConsistent'
    <2>1. PICK b \in bitmap :
             /\ Copies(i, f, b)
             /\ Stored(SlotFor(i, f), f.idx, b).received # Stored(SlotFor(i, f), f.idx, b).total
             /\ reasm_slots' = [reasm_slots EXCEPT ![i] = Stored(SlotFor(i, f), f.idx, b)]
      BY <1>4 DEF InputStored
    <2>2. QED
      BY <1>0, <2>1, ConsistentStored
  <1>5. ASSUME NEW f \in Frames, NEW i \in Slots, InputComplete(i, f) PROVE SlotsConsistent'
    <2>1. PICK b \in bitmap :
             /\ Copies(i, f, b)
             /\ reasm_slots' = [reasm_slots EXCEPT ![i] = Freed(Stored(SlotFor(i, f), f.idx, b))]
      BY <1>5 DEF InputComplete
    <2>2. Stored(SlotFor(i, f), f.idx, b) \in SlotType
      BY <2>1, CopiedInv
    <2>3. QED
      BY <1>0, <2>1, <2>2, ConsistentFreed
  <1>6. CASE Complete
    BY <1>6, <1>a DEF Complete
  <1>7. CASE TickStart
    BY <1>7, <1>a DEF TickStart
  <1>8. CASE TickExpire
    BY <1>8, ConsistentReleased DEF TickExpire
  <1>9. CASE Deinit
    BY <1>9, ConsistentReleased DEF Deinit
  <1>10. CASE UNCHANGED vars
    BY <1>10, <1>a DEF vars
  <1>11. QED
    BY <1>1, <1>2, <1>3, <1>4, <1>5, <1>6, <1>7, <1>8, <1>9, <1>10 DEF Next, Input

\* A message is reassembled in one slot only, and a slot that is complete is never
\* left in the table: whatever fragments arrive, are refused, find no block or expire.
THEOREM SlotsSafe == Spec => []SlotsConsistent
  <1>1. Inv /\ SlotsConsistent /\ [Next]_vars => Inv' /\ SlotsConsistent'
    BY NextInv, NextConsistent
  <1>2. QED
    BY <1>1, InitInv, InitConsistent, PTL DEF Spec

-----------------------------------------------------------------------------
(* The age of a slot.                                                      *)

\* A remainder found by at most one turn of the clock.
LEMMA OneTurn ==
    ASSUME NEW m \in Nat \ {0}, NEW a \in Int
    PROVE  /\ 0 <= a /\ a < m => a % m = a
           /\ 0 <= a + m /\ a < 0 => a % m = a + m
           /\ m <= a /\ a - m < m => a % m = a - m
  OBVIOUS

\* The time since a slot was opened, whether or not the clock has wrapped.
Since(start, now) == IF now >= start THEN now - start ELSE now - start + TimeMod

\* Below half the clock this is its age.
LEMMA AgeSince ==
    ASSUME NEW s, s.start_ms \in 0..(TimeMod - 1), current_ms \in 0..(TimeMod - 1),
           Since(s.start_ms, current_ms) < TimeMod \div 2
    PROVE  Age(s) = Since(s.start_ms, current_ms)
  <1> DEFINE d == current_ms - s.start_ms
  <1>1. TimeMod \in Nat \ {0} /\ d \in Int /\ d \in (-TimeMod)..(TimeMod - 1)
    BY SizeAssumption
  <1>2. d % TimeMod = Since(s.start_ms, current_ms)
    BY <1>1, OneTurn DEF Since
  <1>3. QED
    BY <1>2 DEF Age

\* Half of the clock.
LEMMA Half == (TimeMod \div 2) \in Nat /\ 2 * (TimeMod \div 2) <= TimeMod
  BY SizeAssumption

\* What a clock must be for the timeout: with the longest pause between two ticks, at
\* most half of it.
Wide == ReasmTimeout > 0 /\ ReasmTimeout + MaxStep <= TimeMod \div 2

\* Between the new time and the lock a slot may be older, by as much as time has passed.
Limit(t) == IF t = "expire" THEN ReasmTimeout + MaxStep ELSE ReasmTimeout

Young ==
    \A i \in Slots : reasm_slots[i].active =>
        Since(reasm_slots[i].start_ms, current_ms) < Limit(tick)

\* A slot within the limit shows its age.
LEMMA YoungAge ==
    ASSUME Inv, Wide, Young, NEW i \in Slots, reasm_slots[i].active
    PROVE  /\ Age(reasm_slots[i]) = Since(reasm_slots[i].start_ms, current_ms)
           /\ Age(reasm_slots[i]) \in Nat
  <1> DEFINE s == reasm_slots[i]
  <1>1. s.start_ms \in 0..(TimeMod - 1) /\ current_ms \in 0..(TimeMod - 1)
    BY DEF Inv, PoolType, SlotType
  <1>2. Since(s.start_ms, current_ms) < Limit(tick)
    BY DEF Young
  <1>3. Since(s.start_ms, current_ms) \in Nat
    BY <1>1, SizeAssumption DEF Since
  <1>4. Limit(tick) \in Nat /\ Limit(tick) <= TimeMod \div 2
    BY SizeAssumption, Half DEF Limit, Wide
  <1>5. Since(s.start_ms, current_ms) < TimeMod \div 2
    <2>1. (TimeMod \div 2) \in Nat
      BY Half
    <2> HIDE DEF s
    <2>2. QED
      BY <1>2, <1>3, <1>4, <2>1
  <1>6. Age(s) = Since(s.start_ms, current_ms)
    BY <1>1, <1>5, AgeSince
  <1>7. QED
    BY <1>3, <1>6

\* While time stands still, slots keep the time at which they were opened, or are
\* opened now.
LEMMA YoungKept ==
    ASSUME Inv, Wide, Young, UNCHANGED <<current_ms, tick>>,
           \A i \in Slots : reasm_slots'[i].active =>
              \/ reasm_slots[i].active /\ reasm_slots'[i].start_ms = reasm_slots[i].start_ms
              \/ reasm_slots'[i].start_ms = current_ms
    PROVE  Young'
  <1> SUFFICES ASSUME NEW i \in Slots, reasm_slots'[i].active
               PROVE  Since(reasm_slots'[i].start_ms, current_ms) < Limit(tick)
    BY DEF Young
  <1>1. CASE reasm_slots[i].active /\ reasm_slots'[i].start_ms = reasm_slots[i].start_ms
    BY <1>1 DEF Young
  <1>2. CASE reasm_slots'[i].start_ms = current_ms
    <2>1. current_ms \in Int
      BY DEF Inv, PoolType
    <2>2. Since(current_ms, current_ms) = 0
      BY <2>1 DEF Since
    <2>3. 0 < Limit(tick)
      BY SizeAssumption DEF Limit, Wide
    <2>4. QED
      BY <1>2, <2>2, <2>3
  <1>3. QED
    BY <1>1, <1>2

\* The slot a fragment is put in keeps its time, or is opened now.
LEMMA SlotTime ==
    ASSUME NEW f, NEW i \in Slots, Reaches(i, f)
    PROVE  LET s == SlotFor(i, f) IN
           \/ reasm_slots[i].active /\ s.start_ms = reasm_slots[i].start_ms
           \/ s.start_ms = current_ms
  BY DEF Reaches, Finds, Matches, SlotFor, NewSlot

\* The tick moves the time, and every slot grows older by as much.
LEMMA YoungTickStart ==
    ASSUME Inv, Wide, Young, TickStart
    PROVE  Young'
  <1>1. PICK d \in 1..MaxStep : current_ms' = (current_ms + d) % TimeMod
    BY DEF TickStart
  <1>2. /\ tick = "idle" /\ tick' = "expire" /\ reasm_slots' = reasm_slots
    BY DEF TickStart
  <1> SUFFICES ASSUME NEW i \in Slots, reasm_slots[i].active
               PROVE  Since(reasm_slots[i].start_ms, current_ms') < ReasmTimeout + MaxStep
    BY <1>2 DEF Young, Limit
  <1> DEFINE start == reasm_slots[i].start_ms
  <1>3. start \in 0..(TimeMod - 1) /\ current_ms \in 0..(TimeMod - 1)
    BY DEF Inv, PoolType, SlotType
  <1>4. Since(start, current_ms) < ReasmTimeout
    BY <1>2 DEF Young, Limit
  <1> HIDE DEF start
  <1>5. /\ TimeMod \in Nat \ {0} /\ ReasmTimeout \in Nat /\ MaxStep \in Nat
        /\ ReasmTimeout + MaxStep <= TimeMod
    <2>1. (TimeMod \div 2) \in Nat /\ (TimeMod \div 2) <= TimeMod
      BY Half, SizeAssumption
    <2>2. QED
      BY <2>1, SizeAssumption DEF Wide
  <1>6. PICK a \in Int : a = current_ms + d
    BY <1>3, <1>5
  <1>7. current_ms' = IF a < TimeMod THEN a ELSE a - TimeMod
    <2>1. current_ms' = a % TimeMod
      BY <1>1, <1>6, Zenon
    <2>2. 0 <= a /\ a - TimeMod < TimeMod
      BY <1>3, <1>5, <1>6
    <2>3. a % TimeMod = IF a < TimeMod THEN a ELSE a - TimeMod
      BY <1>5, <2>2, OneTurn
    <2>4. QED
      BY <2>1, <2>3, Zenon
  <1>8. Since(start, current_ms') = Since(start, current_ms) + d
    BY <1>3, <1>4, <1>5, <1>6, <1>7 DEF Since
  <1>9. QED
    BY <1>3, <1>4, <1>5, <1>8 DEF start, Since

\* What the tick leaves in the table has not expired.
LEMMA YoungTickExpire ==
    ASSUME Inv, Wide, Young, TickExpire
    PROVE  Young'
  <1>1. tick' = "idle" /\ current_ms' = current_ms
    BY DEF TickExpire
  <1>2. \A i \in Slots : reasm_slots[i] \in SlotType
    BY DEF Inv, PoolType
  <1>3. \A i \in Slots : reasm_slots'[i].active =>
           reasm_slots'[i] = reasm_slots[i] /\ ~Expired(reasm_slots[i])
    BY <1>2, FreedSlot DEF TickExpire, Release
  <1> SUFFICES ASSUME NEW i \in Slots, reasm_slots'[i].active
               PROVE  Since(reasm_slots[i].start_ms, current_ms) < ReasmTimeout
    BY <1>1, <1>3 DEF Young, Limit
  <1>4. reasm_slots[i].active /\ ~(Age(reasm_slots[i]) >= ReasmTimeout)
    BY <1>3 DEF Expired
  <1>5. /\ Age(reasm_slots[i]) = Since(reasm_slots[i].start_ms, current_ms)
        /\ Age(reasm_slots[i]) \in Nat
    BY <1>4, YoungAge
  <1>6. QED
    BY <1>4, <1>5, SizeAssumption

\* Every step leaves the slots young.
LEMMA NextYoung == ASSUME Wide PROVE Inv /\ Young /\ [Next]_vars => Young'
  <1> SUFFICES ASSUME Inv, Young, [Next]_vars PROVE Young'
    OBVIOUS
  <1> DEFINE Kept(S) == \A j \in Slots : S[j].active =>
                \/ reasm_slots[j].active /\ S[j].start_ms = reasm_slots[j].start_ms
                \/ S[j].start_ms = current_ms
  <1>0. reasm_slots \in [Slots -> SlotType]
    BY DEF Inv, PoolType
  <1>a. ASSUME NEW i \in Slots, NEW s,
               \/ s.active = FALSE
               \/ reasm_slots[i].active /\ s.start_ms = reasm_slots[i].start_ms
               \/ s.start_ms = current_ms
        PROVE  Kept([reasm_slots EXCEPT ![i] = s])
    BY <1>0, <1>a
  <1>b. UNCHANGED <<current_ms, tick>> /\ Kept(reasm_slots') => Young'
    BY YoungKept
  <1>c. Kept(reasm_slots)
    OBVIOUS
  <1>d. ASSUME NEW i \in Slots, NEW s \in SlotType,
               UNCHANGED <<current_ms, tick>>, reasm_slots' = [reasm_slots EXCEPT ![i] = Freed(s)]
        PROVE  Young'
    <2>1. Freed(s).active = FALSE
      BY FreedSlot
    <2>2. Kept([reasm_slots EXCEPT ![i] = Freed(s)])
      BY <1>a, <2>1
    <2> HIDE DEF Kept
    <2>3. QED
      BY <1>b, <1>d, <2>2
  <1> HIDE DEF Kept
  <1>1. ASSUME NEW f \in Frames, InputSingle(f) PROVE Young'
    BY <1>1, <1>b, <1>c DEF InputSingle
  <1>2. ASSUME NEW f \in Frames, NEW i \in Slots, InputRefused(i, f) PROVE Young'
    BY <1>2, <1>a, <1>b, SlotTime DEF InputRefused
  <1>3. ASSUME NEW f \in Frames, NEW i \in Slots, InputNoBlock(i, f) PROVE Young'
    <2>1. SlotFor(i, f) \in SlotType
      BY <1>3, SlotReached DEF InputNoBlock
    <2>2. QED
      BY <1>3, <1>d, <2>1 DEF InputNoBlock
  <1>4. ASSUME NEW f \in Frames, NEW i \in Slots, InputStored(i, f) PROVE Young'
    <2>1. PICK b \in bitmap :
             /\ Copies(i, f, b)
             /\ reasm_slots' = [reasm_slots EXCEPT ![i] = Stored(SlotFor(i, f), f.idx, b)]
      BY <1>4 DEF InputStored
    <2>2. SlotFor(i, f) \in SlotType /\ Reaches(i, f) /\ UNCHANGED <<current_ms, tick>>
      BY <2>1, SlotReached DEF Copies
    <2>3. Stored(SlotFor(i, f), f.idx, b).start_ms = SlotFor(i, f).start_ms
      <3> DEFINE s == SlotFor(i, f)
      <3>1. s \in SlotType
        BY <2>2
      <3> HIDE DEF s
      <3>2. Stored(s, f.idx, b).start_ms = s.start_ms
        BY <3>1 DEF Stored, SlotType
      <3>3. QED
        BY <3>2 DEF s
    <2>4. QED
      BY <1>a, <1>b, <2>1, <2>2, <2>3, SlotTime
  <1>5. ASSUME NEW f \in Frames, NEW i \in Slots, InputComplete(i, f) PROVE Young'
    <2>1. PICK b \in bitmap :
             /\ Copies(i, f, b)
             /\ reasm_slots' = [reasm_slots EXCEPT ![i] = Freed(Stored(SlotFor(i, f), f.idx, b))]
      BY <1>5 DEF InputComplete
    <2>2. Stored(SlotFor(i, f), f.idx, b) \in SlotType /\ UNCHANGED <<current_ms, tick>>
      BY <2>1, CopiedInv DEF Copies
    <2>3. QED
      BY <1>d, <2>1, <2>2
  <1>6. CASE Complete
    BY <1>6, <1>b, <1>c DEF Complete
  <1>7. CASE TickStart
    BY <1>7, YoungTickStart
  <1>8. CASE TickExpire
    BY <1>8, YoungTickExpire
  <1>9. CASE Deinit
    <2>1. \A i \in Slots : reasm_slots'[i].active = FALSE
      BY <1>0, <1>9, FreedSlot DEF Deinit, Release, SlotType
    <2>2. Kept(reasm_slots')
      BY <2>1 DEF Kept
    <2>3. QED
      BY <1>9, <1>b, <2>2 DEF Deinit
  <1>10. CASE UNCHANGED vars
    BY <1>10, <1>b, <1>c DEF vars
  <1>11. QED
    BY <1>1, <1>2, <1>3, <1>4, <1>5, <1>6, <1>7, <1>8, <1>9, <1>10 DEF Next, Input

\* With a timeout and a tick below half the clock, no slot outlives the timeout, also
\* when the clock wraps and when fragments arrive between the new time and the lock.
THEOREM AgeSafe == ASSUME Wide PROVE Spec => []SlotAge
  <1>1. Init => Young
    BY DEF Init, Young
  <1>2. Inv /\ Young /\ [Next]_vars => Inv' /\ Young'
    BY NextInv, NextYoung
  <1>3. Inv /\ Young => SlotAge
    <2> SUFFICES ASSUME Inv, Young, tick = "idle", NEW i \in Slots, reasm_slots[i].active
                 PROVE  Age(reasm_slots[i]) \in 0..(ReasmTimeout - 1)
      BY DEF SlotAge
    <2>1. Since(reasm_slots[i].start_ms, current_ms) < ReasmTimeout
      BY DEF Young, Limit
    <2>2. QED
      BY <2>1, YoungAge, SizeAssumption
  <1>4. QED
    BY <1>1, <1>2, <1>3, InitInv, PTL DEF Spec

-----------------------------------------------------------------------------
(* Types.                                                                  *)

StorageType == storage \in [Blocks -> Frames \cup {None}] /\ tick \in {"idle", "expire"}

\* A block holds a frame that arrived, or nothing.
LEMMA AliveType ==
    ASSUME NEW store \in [Blocks -> Frames \cup {None}], NEW free
    PROVE  Alive(store, free) \in [Blocks -> Frames \cup {None}]
  BY DEF Alive

\* Every step copies frames only.
LEMMA NextStorage == StorageType /\ Inv /\ [Next]_vars => StorageType'
  <1> SUFFICES ASSUME StorageType, Inv, [Next]_vars PROVE StorageType'
    OBVIOUS
  <1>a. storage \in [Blocks -> Frames \cup {None}] /\ tick \in {"idle", "expire"}
    BY DEF StorageType
  <1>1. ASSUME NEW f \in Frames, InputSingle(f) PROVE StorageType'
    BY <1>1 DEF InputSingle, StorageType
  <1>2. ASSUME NEW f \in Frames, NEW i \in Slots, InputRefused(i, f) PROVE StorageType'
    BY <1>2 DEF InputRefused, StorageType
  <1>3. ASSUME NEW f \in Frames, NEW i \in Slots, InputNoBlock(i, f) PROVE StorageType'
    BY <1>3, <1>a, AliveType DEF InputNoBlock, StorageType
  <1>4. ASSUME NEW f \in Frames, NEW i \in Slots, InputStored(i, f) PROVE StorageType'
    <2>1. PICK b \in bitmap : storage' = [storage EXCEPT ![b] = f] /\ UNCHANGED tick
      BY <1>4 DEF InputStored, Copies
    <2>2. QED
      BY <1>a, <2>1 DEF StorageType
  <1>5. ASSUME NEW f \in Frames, NEW i \in Slots, InputComplete(i, f) PROVE StorageType'
    <2>1. PICK b \in bitmap : storage' = Alive([storage EXCEPT ![b] = f], bitmap') /\ UNCHANGED tick
      BY <1>5 DEF InputComplete, Copies
    <2>2. [storage EXCEPT ![b] = f] \in [Blocks -> Frames \cup {None}]
      BY <1>a
    <2>3. QED
      BY <1>a, <2>1, <2>2, AliveType DEF StorageType
  <1>6. CASE Complete
    BY <1>6 DEF Complete, StorageType
  <1>7. CASE TickStart
    BY <1>7 DEF TickStart, StorageType
  <1>8. CASE TickExpire
    BY <1>8, <1>a, AliveType DEF TickExpire, Release, StorageType
  <1>9. CASE Deinit
    BY <1>9, <1>a, AliveType DEF Deinit, Release, StorageType
  <1>10. CASE UNCHANGED vars
    BY <1>10 DEF vars, StorageType
  <1>11. QED
    BY <1>1, <1>2, <1>3, <1>4, <1>5, <1>6, <1>7, <1>8, <1>9, <1>10 DEF Next, Input

\* Every reachable state of the slots, the pool and the clock has its type.
THEOREM TypeCorrect == Spec => []TypeOK
  <1>1. Init => StorageType
    BY DEF Init, StorageType
  <1>2. Inv /\ StorageType => TypeOK
    BY DEF Inv, PoolType, StorageType, TypeOK
  <1>3. QED
    BY <1>1, <1>2, NextStorage, NextInv, InitInv, PTL DEF Spec
-----------------------------------------------------------------------------
(* What is handed up.                                                      *)

\* What a sender must do for its messages to be told apart: while fragments of a
\* message may arrive, its source and number are those of no other message.
Numbered ==
    /\ \A f, g \in Frames : f.src = g.src /\ f.seq = g.seq
                                => f.msg = g.msg /\ f.total = g.total
    /\ \A f \in Frames : f.total = 1 => f.idx = 0

\* A slot holds fragments of its message, each at its place, and knows their number.
Own(s, store) ==
    /\ \A k \in FragIdx : s.fragments[k] # None =>
          LET g == store[s.fragments[k]] IN
          g \in Frames /\ g.src = s.src /\ g.seq = s.seq /\ g.idx = k
    /\ s.active => \A g \in Frames : g.src = s.src /\ g.seq = s.seq => g.total = s.total

AllOwn(S, store) == \A i \in Slots : Own(S[i], store)

\* Forgetting what free blocks hold takes nothing from a slot.
LEMMA OwnAlive ==
    ASSUME NEW S \in [Slots -> SlotType], NEW free, NEW store, Conserved(S, free), AllOwn(S, store)
    PROVE  AllOwn(S, Alive(store, free))
  <1> SUFFICES ASSUME NEW i \in Slots PROVE Own(S[i], Alive(store, free))
    BY DEF AllOwn
  <1>1. Own(S[i], store)
    BY DEF AllOwn
  <1>2. ASSUME NEW k \in FragIdx, S[i].fragments[k] # None
        PROVE  Alive(store, free)[S[i].fragments[k]] = store[S[i].fragments[k]]
    <2>1. S[i].fragments[k] \in Blocks
      BY <1>2 DEF SlotType
    <2>2. S[i].fragments[k] \notin free
      BY <2>1 DEF Conserved
    <2>3. QED
      BY <2>1, <2>2 DEF Alive
  <1>3. QED
    BY <1>1, <1>2 DEF Own

\* A slot given back holds nothing.
LEMMA OwnFreed ==
    ASSUME NEW s \in SlotType, NEW store, \A k \in FragIdx : s.fragments[k] # None => k < s.total
    PROVE  Own(Freed(s), store)
  BY FreedSlot DEF Own

\* The slot a fragment is put in, found or opened, is its message's.
LEMMA OwnReached ==
    ASSUME Numbered, Inv, AllOwn(reasm_slots, storage),
           NEW f \in Frames, NEW i \in Slots, Reaches(i, f)
    PROVE  LET s == SlotFor(i, f) IN
           Own(s, storage) /\ s.src = f.src /\ s.seq = f.seq /\ s.total = f.total
  <1>1. CASE Finds(i, f)
    <2>1. SlotFor(i, f) = reasm_slots[i] /\ Matches(reasm_slots[i], f)
      BY <1>1 DEF SlotFor, Finds
    <2>2. Own(reasm_slots[i], storage)
      BY DEF AllOwn
    <2>3. QED
      BY <2>1, <2>2 DEF Matches, Own
  <1>2. CASE ~Finds(i, f)
    <2>1. SlotFor(i, f) = NewSlot(f)
      BY <1>2 DEF SlotFor
    <2>2. /\ NewSlot(f).src = f.src /\ NewSlot(f).seq = f.seq /\ NewSlot(f).total = f.total
          /\ \A k \in FragIdx : NewSlot(f).fragments[k] = None
      BY DEF NewSlot, NoFragments
    <2>3. Own(NewSlot(f), storage)
      BY <2>2 DEF Own, Numbered
    <2>4. QED
      BY <2>1, <2>2, <2>3
  <1>3. QED
    BY <1>1, <1>2

\* With the fragment stored it still is, and the fragment is at its place.
LEMMA OwnStored ==
    ASSUME Numbered, Inv, AllOwn(reasm_slots, storage), storage \in [Blocks -> Frames \cup {None}],
           NEW f \in Frames, NEW i \in Slots, NEW b \in bitmap, Copies(i, f, b)
    PROVE  LET s == Stored(SlotFor(i, f), f.idx, b)
               store == [storage EXCEPT ![b] = f]
           IN  /\ AllOwn([reasm_slots EXCEPT ![i] = s], store)
               /\ Own(s, store)
               /\ s.src = f.src /\ s.seq = f.seq /\ s.total = f.total
  <1> DEFINE t == SlotFor(i, f)
             s == Stored(t, f.idx, b)
             store == [storage EXCEPT ![b] = f]
             S == [reasm_slots EXCEPT ![i] = t]
  <1>1. /\ t \in SlotType /\ S \in [Slots -> SlotType] /\ Conserved(S, bitmap)
        /\ Own(t, storage) /\ t.src = f.src /\ t.seq = f.seq /\ t.total = f.total
    BY SlotReached, OwnReached DEF Copies
  <1>2. reasm_slots \in [Slots -> SlotType] /\ bitmap \in SUBSET Blocks /\ b \in Blocks
    BY DEF Inv, PoolType
  <1>3. f.idx \in FragIdx
    BY <1>1, FrameAssumption, SizeAssumption DEF Copies, Fits, FragIdx, SlotType
  <1>4. \A j \in Slots, k \in FragIdx : S[j].fragments[k] # b
    BY <1>1, <1>2 DEF Conserved
  <1>5. \A c : c # b /\ c \in Blocks => store[c] = storage[c]
    OBVIOUS
  <1>6. store[b] = f
    BY <1>2
  <1>7. S[i] = t /\ \A j \in Slots : j # i => S[j] = reasm_slots[j]
    BY <1>2
  <1> HIDE DEF store
  <1>8. s.src = t.src /\ s.seq = t.seq /\ s.total = t.total /\ s.active = t.active
    BY <1>1 DEF Stored, SlotType
  <1>9. \A k \in FragIdx : s.fragments[k] = IF k = f.idx THEN b ELSE t.fragments[k]
    BY <1>1, <1>2, <1>3, StoredSlot
  <1>10. \A k \in FragIdx : t.fragments[k] # None => t.fragments[k] \in Blocks /\ t.fragments[k] # b
    BY <1>1, <1>4, <1>7 DEF SlotType
  <1> HIDE DEF s, t
  <1>11. Own(s, store)
    BY <1>1, <1>5, <1>6, <1>8, <1>9, <1>10 DEF Own
  <1>12. ASSUME NEW j \in Slots, j # i PROVE Own(reasm_slots[j], store)
    <2>1. Own(reasm_slots[j], storage)
      BY DEF AllOwn
    <2>2. \A k \in FragIdx : reasm_slots[j].fragments[k] # None =>
             reasm_slots[j].fragments[k] \in Blocks /\ reasm_slots[j].fragments[k] # b
      BY <1>2, <1>4, <1>7, <1>12 DEF SlotType
    <2>3. QED
      BY <1>5, <2>1, <2>2 DEF Own
  <1>13. AllOwn([reasm_slots EXCEPT ![i] = s], store)
    BY <1>2, <1>11, <1>12 DEF AllOwn
  <1>14. QED
    BY <1>1, <1>8, <1>11, <1>13 DEF s, t, store

\* A slot that counts as many fragments as its message has lacks none.
LEMMA Full ==
    ASSUME NEW s \in SlotType, Cardinality(Held(s)) = s.total, NEW k \in 0..(s.total - 1)
    PROVE  k \in FragIdx /\ s.fragments[k] # None
  <1>1. s.total \in Nat /\ s.total <= MaxFrags /\ MaxFrags \in Nat
    BY SizeAssumption DEF SlotType
  <1>2. k \in FragIdx
    BY <1>1 DEF FragIdx
  <1> SUFFICES ASSUME s.fragments[k] = None PROVE FALSE
    BY <1>2
  <1> DEFINE K == (0..(s.total - 1)) \ {k}
             place == [l \in K |-> s.fragments[l]]
             H == {place[l] : l \in K}
  <1>3. IsFiniteSet(0..(s.total - 1)) /\ Cardinality(0..(s.total - 1)) = s.total
    <2>1. 0 \in Int /\ s.total - 1 \in Int
      BY <1>1
    <2>2. Cardinality(0..(s.total - 1)) = IF 0 > s.total - 1 THEN 0 ELSE (s.total - 1) - 0 + 1
      BY <2>1, FS_Interval
    <2>3. QED
      BY <1>1, <2>1, <2>2, FS_Interval
  <1>4. IsFiniteSet(K) /\ Cardinality(K) = s.total - 1
    BY <1>1, <1>3, FS_RemoveElement
  <1>5. IsFiniteSet(H) /\ Cardinality(H) <= Cardinality(K)
    <2>1. place \in Surjection(K, H)
      BY Fun_IsSurj
    <2> HIDE DEF K, H, place
    <2>2. QED
      BY <1>4, <2>1, FS_Surjection
  <1>6. Held(s) \subseteq H
    <2> SUFFICES ASSUME NEW l \in FragIdx, l < s.total, s.fragments[l] # None
                 PROVE  s.fragments[l] \in H
      BY DEF Held
    <2>1. l \in K
      BY <1>1 DEF FragIdx
    <2>2. QED
      BY <2>1
  <1>7. Cardinality(Held(s)) <= Cardinality(H)
    BY <1>5, <1>6, FS_Subset
  <1>8. Cardinality(H) \in Nat
    BY <1>5, FS_CardinalityType
  <1> HIDE DEF H, K
  <1>9. QED
    BY <1>1, <1>4, <1>5, <1>7, <1>8

\* A message in one piece has the bytes of that piece.
LEMMA BytesOfOne ==
    ASSUME NEW f \in Frames
    PROVE  Bytes(<<f>>, 1) = f.len
  <1> DEFINE P(g) == g = [k \in 0..1 |-> IF k = 0 THEN 0 ELSE g[k - 1] + <<f>>[k].len]
             h    == [k \in 0..1 |-> IF k = 0 THEN 0 ELSE f.len]
             sum  == CHOOSE g : P(g)
  <1>1. f.len \in Nat
    BY FrameAssumption
  <1>2. P(h)
    <2>1. \A k \in 0..1 : k = 0 \/ k = 1
      OBVIOUS
    <2>2. h[0] = 0 /\ <<f>>[1] = f
      OBVIOUS
    <2>3. \A k \in 0..1 : h[k] = IF k = 0 THEN 0 ELSE h[k - 1] + <<f>>[k].len
      BY <1>1, <2>1, <2>2
    <2>4. QED
      BY <2>3
  <1>3. P(sum)
    BY <1>2, Zenon
  <1>4. ASSUME NEW g, P(g) PROVE g[1] = f.len
    BY <1>1, <1>4
  <1>5. sum[1] = f.len
    BY <1>3, <1>4, Zenon
  <1>6. QED
    BY <1>5, Zenon DEF Bytes

\* So what the last fragment makes of it is the whole message.
LEMMA AssembledWhole ==
    ASSUME Numbered, NEW f \in Frames, NEW s \in SlotType, NEW store, Own(s, store),
           s.src = f.src, s.seq = f.seq, s.total = f.total, Cardinality(Held(s)) = s.total,
           Assembled(f, s, store) # NoMessage
    PROVE  LET r == Assembled(f, s, store) IN
           /\ \A k \in DOMAIN r.buf : r.buf[k].msg = r.hdr.msg /\ r.buf[k].idx = k - 1
           /\ Cardinality(DOMAIN r.buf) = r.hdr.total
           /\ Bytes(r.buf, r.hdr.total) <= MaxPayload
  <1> DEFINE r == Assembled(f, s, store)
  <1>1. r.hdr = f /\ r.buf = Payload(s, store)
    BY DEF Assembled
  <1>2. s.total \in Nat
    BY SizeAssumption DEF SlotType
  <1>3. /\ DOMAIN r.buf = 1..s.total
        /\ \A k \in 1..s.total : r.buf[k] = store[s.fragments[k - 1]]
    BY <1>1 DEF Payload
  <1> HIDE DEF r
  <1>4. ASSUME NEW k \in 1..s.total PROVE r.buf[k].msg = f.msg /\ r.buf[k].idx = k - 1
    <2>1. k - 1 \in 0..(s.total - 1)
      BY <1>2
    <2>2. PICK l \in 0..(s.total - 1) : l = k - 1
      BY <2>1
    <2>3. l \in FragIdx /\ s.fragments[l] # None
      BY <2>2, Full
    <2>4. LET g == store[s.fragments[l]] IN
          g \in Frames /\ g.src = s.src /\ g.seq = s.seq /\ g.idx = l
      BY <2>3 DEF Own
    <2>5. store[s.fragments[l]].msg = f.msg
      BY <2>4 DEF Numbered
    <2>6. QED
      BY <1>3, <2>2, <2>4, <2>5
  <1>5. Cardinality(1..s.total) = s.total
    BY <1>2, FS_Interval
  <1>6. Bytes(r.buf, r.hdr.total) <= MaxPayload
    <2>1. Bytes(Payload(s, store), s.total) <= MaxPayload
      BY DEF Assembled
    <2>2. QED
      BY <1>1, <2>1
  <1>7. QED
    BY <1>1, <1>3, <1>4, <1>5, <1>6 DEF r

\* The inductive invariant of what is handed up.
Whole == AllOwn(reasm_slots, storage) /\ StorageType /\ Integrity

\* Every step keeps the slots to their messages and hands up whole ones only.
LEMMA NextWhole ==
    ASSUME Numbered PROVE Inv /\ SlotsConsistent /\ Whole /\ [Next]_vars => Whole'
  <1> SUFFICES ASSUME Inv, SlotsConsistent, Whole, [Next]_vars PROVE Whole'
    OBVIOUS
  <1>0. StorageType' /\ Inv'
    BY NextStorage, NextInv DEF Whole
  <1>a. /\ reasm_slots \in [Slots -> SlotType] /\ bitmap \in SUBSET Blocks
        /\ reasm_slots' \in [Slots -> SlotType] /\ Conserved(reasm_slots', bitmap')
        /\ storage \in [Blocks -> Frames \cup {None}] /\ AllOwn(reasm_slots, storage)
    BY <1>0 DEF Inv, PoolType, PoolConservation, StorageType, Whole, Conserved
  <1>b. UNCHANGED <<reasm_slots, storage, rx>> => Whole'
    BY <1>0 DEF Whole, Integrity, AllOwn, Own
  <1>c. UNCHANGED rx /\ AllOwn(reasm_slots', storage') => Whole'
    BY <1>0 DEF Whole, Integrity, AllOwn, Own
  <1>d. ASSUME NEW store, AllOwn(reasm_slots', store), storage' = Alive(store, bitmap')
        PROVE  AllOwn(reasm_slots', storage')
    BY <1>a, <1>d, OwnAlive
  <1>e. \A i \in Slots, k \in FragIdx : reasm_slots[i].fragments[k] # None => k < reasm_slots[i].total
    BY DEF Inv, PoolConservation, Conserved
  <1>1. ASSUME NEW f \in Frames, InputSingle(f) PROVE Whole'
    <2>1. rx' = [hdr |-> f, buf |-> <<f>>] /\ f.total = 1 /\ f.idx = 0
      BY <1>1 DEF InputSingle, Numbered
    <2>2. DOMAIN <<f>> = {1}
      <3>1. DOMAIN <<f>> = 1..1
        OBVIOUS
      <3>2. QED
        BY <3>1
    <2>3. Cardinality({1}) = 1
      BY FS_Singleton
    <2>4. Bytes(<<f>>, f.total) <= MaxPayload
      BY <1>1, <2>1, BytesOfOne DEF InputSingle
    <2>5. Integrity'
      BY <2>1, <2>2, <2>3, <2>4 DEF Integrity
    <2>6. QED
      BY <1>0, <1>1, <2>5 DEF InputSingle, Whole, AllOwn, Own
  <1>2. ASSUME NEW f \in Frames, NEW i \in Slots, InputRefused(i, f) PROVE Whole'
    <2>1. Own(SlotFor(i, f), storage)
      BY <1>2, <1>a, OwnReached DEF InputRefused
    <2>2. AllOwn([reasm_slots EXCEPT ![i] = SlotFor(i, f)], storage)
      BY <1>a, <2>1 DEF AllOwn
    <2>3. QED
      BY <1>2, <1>c, <2>2 DEF InputRefused
  <1>3. ASSUME NEW f \in Frames, NEW i \in Slots, InputNoBlock(i, f) PROVE Whole'
    <2> DEFINE S == [reasm_slots EXCEPT ![i] = SlotFor(i, f)]
    <2>1. SlotFor(i, f) \in SlotType /\ S \in [Slots -> SlotType] /\ Conserved(S, bitmap)
      BY <1>3, SlotReached DEF InputNoBlock
    <2>2. \A k \in FragIdx : SlotFor(i, f).fragments[k] # None => k < SlotFor(i, f).total
      BY <1>a, <2>1 DEF Conserved
    <2>3. Own(Freed(SlotFor(i, f)), storage)
      BY <2>1, <2>2, OwnFreed
    <2>4. AllOwn([reasm_slots EXCEPT ![i] = Freed(SlotFor(i, f))], storage)
      BY <1>a, <2>3 DEF AllOwn
    <2>5. QED
      BY <1>3, <1>c, <1>d, <2>4 DEF InputNoBlock
  <1>4. ASSUME NEW f \in Frames, NEW i \in Slots, InputStored(i, f) PROVE Whole'
    <2>1. PICK b \in bitmap :
             /\ Copies(i, f, b)
             /\ reasm_slots' = [reasm_slots EXCEPT ![i] = Stored(SlotFor(i, f), f.idx, b)]
             /\ storage' = [storage EXCEPT ![b] = f]
             /\ UNCHANGED rx
      BY <1>4 DEF InputStored
    <2>2. QED
      BY <1>a, <1>c, <2>1, OwnStored
  <1>5. ASSUME NEW f \in Frames, NEW i \in Slots, InputComplete(i, f) PROVE Whole'
    <2>1. PICK b \in bitmap :
             LET s     == Stored(SlotFor(i, f), f.idx, b)
                 store == [storage EXCEPT ![b] = f]
             IN  /\ Copies(i, f, b)
                 /\ s.received = s.total
                 /\ rx' = Assembled(f, s, store)
                 /\ reasm_slots' = [reasm_slots EXCEPT ![i] = Freed(s)]
                 /\ storage' = Alive(store, bitmap')
      BY <1>5 DEF InputComplete
    <2> DEFINE t     == SlotFor(i, f)
               s     == Stored(t, f.idx, b)
               store == [storage EXCEPT ![b] = f]
               S     == [reasm_slots EXCEPT ![i] = t]
    <2>2. /\ AllOwn([reasm_slots EXCEPT ![i] = s], store) /\ Own(s, store)
          /\ s.src = f.src /\ s.seq = f.seq /\ s.total = f.total
      BY <1>a, <2>1, OwnStored
    <2>3. /\ t \in SlotType /\ t.active /\ S[i] = t
          /\ S \in [Slots -> SlotType] /\ Conserved(S, bitmap) /\ Consistent(S)
      BY <1>a, <2>1, SlotReached, ConsistentReached DEF Copies
    <2>4. s \in SlotType /\ Conserved([reasm_slots EXCEPT ![i] = s], bitmap \ {b})
      BY <2>1, CopiedInv
    <2>5. \A k \in FragIdx : s.fragments[k] # None => k < s.total
      BY <1>a, <2>4 DEF Conserved
    <2>6. AllOwn(reasm_slots', store)
      <3>1. Own(Freed(s), store)
        BY <2>4, <2>5, OwnFreed
      <3>2. QED
        BY <1>a, <2>1, <2>2, <3>1 DEF AllOwn
    <2>7. Cardinality(Held(s)) = s.total
      <3>1. f.idx < t.total /\ t.fragments[f.idx] = None /\ b \in Blocks
        BY <1>a, <2>1 DEF Copies, Fits
      <3>2. t.total \in 0..MaxFrags
        BY <2>3 DEF SlotType
      <3>3. f.idx \in FragIdx
        BY <3>1, <3>2, FrameAssumption, SizeAssumption DEF FragIdx
      <3>4. Held(s) = Held(t) \cup {b}
        BY <2>3, <3>1, <3>3, HeldStored
      <3>5. b \notin Held(t)
        BY <2>3, <3>1 DEF Conserved, Held
      <3>6. Cardinality(Held(s)) = Cardinality(Held(t)) + 1
        BY <2>3, <3>4, <3>5, HeldFinite, FS_AddElement
      <3>7. t.received = Cardinality(Held(t)) /\ s.received = t.received + 1
        BY <2>3 DEF Consistent, Counts, Stored, SlotType
      <3>8. QED
        BY <2>1, <3>6, <3>7
    <2>8. Integrity'
      <3>1. rx' = Assembled(f, s, store)
        BY <2>1
      <3> HIDE DEF s, store
      <3>2. QED
        BY <2>2, <2>4, <2>7, <3>1, AssembledWhole DEF Integrity
    <2>9. storage' = Alive(store, bitmap')
      BY <2>1
    <2>10. QED
      BY <1>0, <1>d, <2>6, <2>8, <2>9 DEF Whole
  <1>6. CASE Complete
    BY <1>0, <1>6 DEF Complete, Whole, Integrity, AllOwn, Own
  <1>7. CASE TickStart
    BY <1>7, <1>b DEF TickStart
  <1>8. ASSUME NEW p, Release(p), UNCHANGED rx PROVE Whole'
    <2>1. \A i \in Slots : reasm_slots'[i] = IF p[i] THEN Freed(reasm_slots[i]) ELSE reasm_slots[i]
      BY <1>8 DEF Release
    <2>2. \A i \in Slots : Own(Freed(reasm_slots[i]), storage)
      BY <1>a, <1>e, OwnFreed
    <2>3. AllOwn(reasm_slots', storage)
      BY <1>a, <2>1, <2>2 DEF AllOwn
    <2>4. QED
      BY <1>8, <1>c, <1>d, <2>3 DEF Release
  <1>9. CASE TickExpire
    BY <1>8, <1>9 DEF TickExpire
  <1>10. CASE Deinit
    BY <1>8, <1>10 DEF Deinit
  <1>11. CASE UNCHANGED vars
    BY <1>11, <1>b DEF vars
  <1>12. QED
    BY <1>1, <1>2, <1>3, <1>4, <1>5, <1>6, <1>7, <1>9, <1>10, <1>11 DEF Next, Input

\* Every message handed up is all the fragments of one message, each at its place,
\* however they were reordered, repeated, lost or mixed with others, as long as no
\* number is used for two messages at a time.
THEOREM MessagesWhole == ASSUME Numbered PROVE Spec => []Integrity
  <1>1. Init => Whole
    BY DEF Init, Whole, AllOwn, Own, StorageType, Integrity, NoFragments
  <1>2. Inv /\ SlotsConsistent /\ Whole /\ [Next]_vars => Inv' /\ SlotsConsistent' /\ Whole'
    BY NextInv, NextConsistent, NextWhole
  <1>3. Whole => Integrity
    BY DEF Whole
  <1>4. QED
    BY <1>1, <1>2, <1>3, InitInv, InitConsistent, PTL DEF Spec
=============================================================================
