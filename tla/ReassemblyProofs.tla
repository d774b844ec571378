-------------------------- MODULE ReassemblyProofs --------------------------
(***************************************************************************)
(* The pool of Reassembly neither leaks nor double-books a block, for      *)
(* every number of slots, blocks and fragments and every set of frames.    *)
(***************************************************************************)
EXTENDS Reassembly, TLAPS

\* The types the argument needs; storage and rx play no part in it.
PoolType ==
    /\ reasm_slots \in [Slots -> SlotType]
    /\ bitmap \subseteq Blocks
    /\ current_ms \in 0..(TimeMod - 1)

-----------------------------------------------------------------------------
(* What the steps do to one slot.                                          *)

\* free_reasm_slot leaves a typed, inactive slot without its blocks.
LEMMA FreedSlot ==
    ASSUME NEW s \in SlotType
    PROVE  /\ Freed(s) \in SlotType
           /\ Held(s) \subseteq Blocks
           /\ Freed(s).active = FALSE
           /\ \A k \in FragIdx : Freed(s).fragments[k] =
                                    IF k < s.total THEN None ELSE s.fragments[k]
  <1>1. [k \in FragIdx |-> IF k < s.total THEN None ELSE s.fragments[k]]
           \in [FragIdx -> Blocks \cup {None}]
    BY DEF SlotType
  <1>2. QED
    BY <1>1 DEF Freed, Held, SlotType

\* A fragment stored at k changes that fragment and the count only.
LEMMA StoredSlot ==
    ASSUME NEW s \in SlotType, NEW k \in FragIdx, NEW b \in Blocks
    PROVE  /\ Stored(s, k, b) \in SlotType
           /\ Stored(s, k, b).active = s.active
           /\ Stored(s, k, b).total = s.total
           /\ \A l \in FragIdx : Stored(s, k, b).fragments[l] =
                                    IF l = k THEN b ELSE s.fragments[l]
  <1>1. [s.fragments EXCEPT ![k] = b] \in [FragIdx -> Blocks \cup {None}]
    BY DEF SlotType
  <1>2. s.received + 1 \in Nat
    BY DEF SlotType
  <1>3. QED
    BY <1>1, <1>2 DEF Stored, SlotType

\* A slot just opened is active and holds nothing.
LEMMA OpenedSlot ==
    ASSUME PoolType, NEW f \in Frames, f.total \in 2..MaxFrags
    PROVE  /\ NewSlot(f) \in SlotType
           /\ NewSlot(f).active = TRUE
           /\ \A k \in FragIdx : NewSlot(f).fragments[k] = None
  BY SizeAssumption DEF NewSlot, SlotType, NoFragments, PoolType

-----------------------------------------------------------------------------
(* What they do to the accounting, stated for any table and any free list. *)

\* Opening an inactive slot keeps the accounts: it held no block.
LEMMA ConservedOpen ==
    ASSUME PoolType, NEW S \in [Slots -> SlotType], NEW F, Conserved(S, F),
           NEW i \in Slots, ~S[i].active, NEW f \in Frames, f.total \in 2..MaxFrags
    PROVE  Conserved([S EXCEPT ![i] = NewSlot(f)], F)
  <1> DEFINE T == [S EXCEPT ![i] = NewSlot(f)]
  <1>1. \A j \in Slots, k \in FragIdx : T[j].fragments[k] = S[j].fragments[k]
    BY OpenedSlot DEF Conserved
  <1>2. \A j \in Slots : j # i => T[j] = S[j]
    OBVIOUS
  <1>3. \A k \in FragIdx : T[i].fragments[k] = None
    BY OpenedSlot
  <1>4. QED
    BY <1>1, <1>2, <1>3 DEF Conserved

\* Moving a free block into an empty place of an active slot keeps the accounts.
LEMMA ConservedStore ==
    ASSUME NEW S \in [Slots -> SlotType], NEW F \in SUBSET Blocks, Conserved(S, F),
           NEW i \in Slots, S[i].active,
           NEW k \in FragIdx, k < S[i].total, S[i].fragments[k] = None,
           NEW b \in F
    PROVE  Conserved([S EXCEPT ![i] = Stored(S[i], k, b)], F \ {b})
  <1> DEFINE T == [S EXCEPT ![i] = Stored(S[i], k, b)]
  <1>1. b \in Blocks /\ b # None
    BY NoneAssumption
  <1>2. \A j \in Slots, l \in FragIdx :
           T[j].fragments[l] = IF j = i /\ l = k THEN b ELSE S[j].fragments[l]
    BY <1>1, StoredSlot
  <1>3. \A j \in Slots : T[j].active = S[j].active /\ T[j].total = S[j].total
    BY <1>1, StoredSlot
  <1>4. \A j \in Slots, l \in FragIdx : S[j].fragments[l] # b
    BY <1>1 DEF Conserved
  <1>5. \A c \in Blocks :
           c \in F \ {b} <=> \A j \in Slots, l \in FragIdx : T[j].fragments[l] # c
    <2> SUFFICES ASSUME NEW c \in Blocks
                 PROVE  c \in F \ {b} <=> \A j \in Slots, l \in FragIdx : T[j].fragments[l] # c
      OBVIOUS
    <2>1. CASE c = b
      BY <1>2, <2>1
    <2>2. CASE c # b
      <3>1. c \in F <=> \A j \in Slots, l \in FragIdx : S[j].fragments[l] # c
        BY DEF Conserved
      <3>2. c # None
        BY NoneAssumption
      <3>3. \A j \in Slots, l \in FragIdx : T[j].fragments[l] = c <=> S[j].fragments[l] = c
        BY <1>2, <2>2, <3>2
      <3>4. QED
        BY <2>2, <3>1, <3>3
    <2>3. QED
      BY <2>1, <2>2
  <1>6. \A j, m \in Slots, l, n \in FragIdx :
           T[j].fragments[l] = T[m].fragments[n]
              => T[j].fragments[l] = None \/ (j = m /\ l = n)
    BY <1>2, <1>4 DEF Conserved
  <1>7. \A j \in Slots, l \in FragIdx :
           T[j].fragments[l] # None => T[j].active /\ l < T[j].total
    BY <1>2, <1>3 DEF Conserved
  <1>8. QED
    BY <1>5, <1>6, <1>7 DEF Conserved

\* Releasing any set of slots gives back exactly the blocks they held.
LEMMA ConservedRelease ==
    ASSUME NEW S \in [Slots -> SlotType], NEW F \in SUBSET Blocks, Conserved(S, F),
           NEW P \in SUBSET Slots
    PROVE  Conserved([i \in Slots |-> IF i \in P THEN Freed(S[i]) ELSE S[i]],
                     F \cup UNION {Held(S[i]) : i \in P})
  <1> DEFINE T == [i \in Slots |-> IF i \in P THEN Freed(S[i]) ELSE S[i]]
             G == F \cup UNION {Held(S[i]) : i \in P}
  <1>1. \A i \in Slots, k \in FragIdx :
           T[i].fragments[k] = IF i \in P THEN None ELSE S[i].fragments[k]
    <2> SUFFICES ASSUME NEW i \in Slots, NEW k \in FragIdx, i \in P
                 PROVE  Freed(S[i]).fragments[k] = None
      OBVIOUS
    <2>1. ~(k < S[i].total) => S[i].fragments[k] = None
      BY DEF Conserved
    <2>2. QED
      BY <2>1, FreedSlot
  <1>2. \A i \in Slots : i \notin P => T[i] = S[i]
    OBVIOUS
  <1>3. ASSUME NEW b \in Blocks, NEW i \in Slots
        PROVE  b \in Held(S[i]) <=> \E k \in FragIdx : S[i].fragments[k] = b
    <2>1. b # None
      BY NoneAssumption
    <2>2. \A k \in FragIdx : S[i].fragments[k] = b => k < S[i].total
      BY <2>1 DEF Conserved
    <2>3. QED
      BY <2>1, <2>2 DEF Held
  <1>4. ASSUME NEW b \in Blocks
        PROVE  b \in G <=> \A i \in Slots, k \in FragIdx : T[i].fragments[k] # b
    <2>1. b # None
      BY NoneAssumption
    <2>2. b \in F <=> \A i \in Slots, k \in FragIdx : S[i].fragments[k] # b
      BY DEF Conserved
    <2>3. b \in G <=> b \in F \/ \E i \in P : b \in Held(S[i])
      OBVIOUS
    <2>4. ASSUME NEW i \in P, b \in Held(S[i])
          PROVE  \A j \in Slots, l \in FragIdx : T[j].fragments[l] # b
      <3>1. PICK k \in FragIdx : S[i].fragments[k] = b
        BY <1>3, <2>4
      <3>2. \A j \in Slots, l \in FragIdx : S[j].fragments[l] = b => j = i
        BY <2>1, <3>1 DEF Conserved
      <3>3. QED
        BY <1>1, <2>1, <2>4, <3>2
    <2>5. ASSUME b \in F PROVE \A j \in Slots, l \in FragIdx : T[j].fragments[l] # b
      BY <1>1, <2>1, <2>2, <2>5
    <2>6. ASSUME \A j \in Slots, l \in FragIdx : T[j].fragments[l] # b
          PROVE  b \in F \/ \E i \in P : b \in Held(S[i])
      <3> SUFFICES ASSUME b \notin F PROVE \E i \in P : b \in Held(S[i])
        OBVIOUS
      <3>1. PICK i \in Slots, k \in FragIdx : S[i].fragments[k] = b
        BY <2>2
      <3>2. i \in P
        BY <1>1, <2>6, <3>1
      <3>3. b \in Held(S[i])
        BY <1>3, <3>1
      <3>4. QED
        BY <3>2, <3>3
    <2>7. QED
      BY <2>3, <2>4, <2>5, <2>6
  <1>5. \A i, j \in Slots, k, l \in FragIdx :
           T[i].fragments[k] = T[j].fragments[l]
              => T[i].fragments[k] = None \/ (i = j /\ k = l)
    BY <1>1 DEF Conserved
  <1>6. \A i \in Slots, k \in FragIdx :
           T[i].fragments[k] # None => T[i].active /\ k < T[i].total
    BY <1>1, <1>2 DEF Conserved
  <1>7. QED
    BY <1>4, <1>5, <1>6 DEF Conserved

-----------------------------------------------------------------------------
(* The steps of the specification.                                         *)

Inv == PoolType /\ PoolConservation

\* After route_frag_init every block is free.
LEMMA InitInv == Init => Inv
  <1> SUFFICES ASSUME Init PROVE Inv
    OBVIOUS
  <1>1. PoolType
    BY SizeAssumption DEF Init, PoolType, SlotType, NoFragments
  <1>2. PoolConservation
    BY NoneAssumption DEF Init, PoolConservation, Conserved, NoFragments
  <1>3. QED
    BY <1>1, <1>2 DEF Inv

\* The slot a fragment is put in, found or opened, keeps the accounts.
LEMMA SlotReached ==
    ASSUME Inv, NEW f \in Frames, NEW i \in Slots, Reaches(i, f)
    PROVE  LET S == [reasm_slots EXCEPT ![i] = SlotFor(i, f)] IN
           /\ SlotFor(i, f) \in SlotType
           /\ SlotFor(i, f).active
           /\ S \in [Slots -> SlotType]
           /\ Conserved(S, bitmap)
  <1> DEFINE S == [reasm_slots EXCEPT ![i] = SlotFor(i, f)]
  <1>1. reasm_slots \in [Slots -> SlotType]
    BY DEF Inv, PoolType
  <1>2. CASE Finds(i, f)
    <2>1. SlotFor(i, f) = reasm_slots[i] /\ reasm_slots[i].active
      BY <1>2 DEF SlotFor, Finds, Matches
    <2>2. S = reasm_slots
      BY <1>1, <2>1
    <2>3. QED
      BY <1>1, <2>1, <2>2 DEF Inv, PoolConservation
  <1>3. CASE ~Finds(i, f)
    <2>1. SlotFor(i, f) = NewSlot(f) /\ ~reasm_slots[i].active /\ f.total \in 2..MaxFrags
      BY <1>3 DEF SlotFor, Reaches, Opens
    <2>2. NewSlot(f) \in SlotType /\ NewSlot(f).active
      BY <2>1, OpenedSlot DEF Inv
    <2>3. Conserved(S, bitmap)
      BY <1>1, <2>1, ConservedOpen DEF Inv, PoolConservation
    <2>4. QED
      BY <1>1, <2>1, <2>2, <2>3
  <1>4. QED
    BY <1>2, <1>3

\* Releasing one slot is releasing a set of one.
LEMMA ConservedFree ==
    ASSUME NEW S \in [Slots -> SlotType], NEW F \in SUBSET Blocks, Conserved(S, F),
           NEW i \in Slots
    PROVE  Conserved([S EXCEPT ![i] = Freed(S[i])], F \cup Held(S[i]))
  <1> DEFINE P == {i}
  <1>1. [S EXCEPT ![i] = Freed(S[i])]
          = [j \in Slots |-> IF j \in P THEN Freed(S[j]) ELSE S[j]]
    OBVIOUS
  <1>2. F \cup Held(S[i]) = F \cup UNION {Held(S[j]) : j \in P}
    OBVIOUS
  <1>3. P \in SUBSET Slots
    OBVIOUS
  <1>4. Conserved([j \in Slots |-> IF j \in P THEN Freed(S[j]) ELSE S[j]],
                  F \cup UNION {Held(S[j]) : j \in P})
    <2> HIDE DEF P
    <2>1. QED
      BY <1>3, ConservedRelease
  <1> HIDE DEF P
  <1>5. QED
    BY <1>1, <1>2, <1>4

\* tick and deinit release the slots in which p holds.
LEMMA ReleaseInv ==
    ASSUME Inv, NEW p, Release(p)
    PROVE  /\ reasm_slots' \in [Slots -> SlotType]
           /\ bitmap' \subseteq Blocks
           /\ PoolConservation'
  <1> DEFINE P == {i \in Slots : p[i]}
  <1>1. /\ reasm_slots \in [Slots -> SlotType] /\ bitmap \in SUBSET Blocks
        /\ Conserved(reasm_slots, bitmap) /\ P \in SUBSET Slots
    BY DEF Inv, PoolType, PoolConservation
  <1>2. reasm_slots' = [i \in Slots |-> IF i \in P THEN Freed(reasm_slots[i])
                                                  ELSE reasm_slots[i]]
    BY DEF Release
  <1>3. bitmap' = bitmap \cup UNION {Held(reasm_slots[i]) : i \in P}
    BY DEF Release
  <1>4. \A i \in Slots : Freed(reasm_slots[i]) \in SlotType /\ Held(reasm_slots[i]) \subseteq Blocks
    BY <1>1, FreedSlot
  <1>5. Conserved(reasm_slots', bitmap')
    BY <1>1, <1>2, <1>3, ConservedRelease
  <1>6. QED
    BY <1>1, <1>2, <1>3, <1>4, <1>5 DEF PoolConservation, Conserved

\* A fragment stored in a block of the pool.
LEMMA CopiedInv ==
    ASSUME Inv, NEW f \in Frames, NEW i \in Slots, NEW b \in bitmap, Copies(i, f, b)
    PROVE  LET s == Stored(SlotFor(i, f), f.idx, b) IN
           /\ s \in SlotType
           /\ Conserved([reasm_slots EXCEPT ![i] = s], bitmap \ {b})
  <1> DEFINE S == [reasm_slots EXCEPT ![i] = SlotFor(i, f)]
             s == Stored(SlotFor(i, f), f.idx, b)
  <1>1. /\ SlotFor(i, f) \in SlotType /\ SlotFor(i, f).active
        /\ S \in [Slots -> SlotType] /\ Conserved(S, bitmap)
    BY SlotReached DEF Copies
  <1>2. f.idx \in FragIdx /\ f.idx < SlotFor(i, f).total
    BY <1>1, FrameAssumption, SizeAssumption DEF Copies, Fits, FragIdx, SlotType
  <1>3. bitmap \in SUBSET Blocks /\ reasm_slots \in [Slots -> SlotType]
    BY DEF Inv, PoolType
  <1>4. S[i] = SlotFor(i, f) /\ SlotFor(i, f).fragments[f.idx] = None
    BY <1>3 DEF Copies
  <1>5. Conserved([S EXCEPT ![i] = Stored(S[i], f.idx, b)], bitmap \ {b})
    BY <1>1, <1>2, <1>3, <1>4, ConservedStore
  <1>6. [S EXCEPT ![i] = Stored(S[i], f.idx, b)] = [reasm_slots EXCEPT ![i] = s]
    BY <1>3, <1>4
  <1>7. s \in SlotType
    BY <1>1, <1>2, <1>3, StoredSlot
  <1>8. QED
    BY <1>5, <1>6, <1>7

\* Every step of the receive thread, the tick and deinit keeps the accounts.
LEMMA NextInv == Inv /\ [Next]_vars => Inv'
  <1> SUFFICES ASSUME Inv, [Next]_vars PROVE Inv'
    OBVIOUS
  <1>1. reasm_slots \in [Slots -> SlotType] /\ bitmap \in SUBSET Blocks
    BY DEF Inv, PoolType
  <1>2. ASSUME NEW f \in Frames, InputSingle(f) PROVE Inv'
    BY <1>2 DEF InputSingle, Inv, PoolType, PoolConservation
  <1>3. ASSUME NEW f \in Frames, NEW i \in Slots, InputRefused(i, f) PROVE Inv'
    <2>1. reasm_slots' \in [Slots -> SlotType] /\ Conserved(reasm_slots', bitmap)
      BY <1>3, SlotReached DEF InputRefused
    <2>2. QED
      BY <1>3, <2>1 DEF InputRefused, Inv, PoolType, PoolConservation
  <1>4. ASSUME NEW f \in Frames, NEW i \in Slots, InputNoBlock(i, f) PROVE Inv'
    <2> DEFINE S == [reasm_slots EXCEPT ![i] = SlotFor(i, f)]
    <2>1. /\ SlotFor(i, f) \in SlotType
          /\ S \in [Slots -> SlotType] /\ Conserved(S, bitmap) /\ S[i] = SlotFor(i, f)
      BY <1>1, <1>4, SlotReached DEF InputNoBlock
    <2>2. Conserved([S EXCEPT ![i] = Freed(S[i])], bitmap \cup Held(S[i]))
      BY <1>1, <2>1, ConservedFree
    <2>3. reasm_slots' = [S EXCEPT ![i] = Freed(S[i])] /\ bitmap' = bitmap \cup Held(S[i])
      BY <1>1, <1>4, <2>1 DEF InputNoBlock
    <2>4. Freed(SlotFor(i, f)) \in SlotType /\ Held(SlotFor(i, f)) \subseteq Blocks
      BY <2>1, FreedSlot
    <2>5. QED
      BY <1>1, <1>4, <2>1, <2>2, <2>3, <2>4
      DEF InputNoBlock, Inv, PoolType, PoolConservation
  <1>5. ASSUME NEW f \in Frames, NEW i \in Slots, InputStored(i, f) PROVE Inv'
    <2>1. PICK b \in bitmap :
             /\ Copies(i, f, b)
             /\ reasm_slots' = [reasm_slots EXCEPT ![i] = Stored(SlotFor(i, f), f.idx, b)]
             /\ bitmap' = bitmap \ {b}
      BY <1>5 DEF InputStored
    <2>2. /\ Stored(SlotFor(i, f), f.idx, b) \in SlotType
          /\ Conserved(reasm_slots', bitmap')
      BY <2>1, CopiedInv
    <2>3. current_ms' = current_ms
      BY <2>1 DEF Copies
    <2>4. QED
      BY <1>1, <2>1, <2>2, <2>3 DEF Inv, PoolType, PoolConservation
  <1>6. ASSUME NEW f \in Frames, NEW i \in Slots, InputComplete(i, f) PROVE Inv'
    <2>1. PICK b \in bitmap : LET s == Stored(SlotFor(i, f), f.idx, b) IN
             /\ Copies(i, f, b)
             /\ reasm_slots' = [reasm_slots EXCEPT ![i] = Freed(s)]
             /\ bitmap' = (bitmap \ {b}) \cup Held(s)
      BY <1>6 DEF InputComplete
    <2> DEFINE s == Stored(SlotFor(i, f), f.idx, b)
               S == [reasm_slots EXCEPT ![i] = s]
    <2>2. s \in SlotType /\ Conserved(S, bitmap \ {b})
      BY <2>1, CopiedInv
    <2>3. S \in [Slots -> SlotType] /\ S[i] = s /\ bitmap \ {b} \in SUBSET Blocks
      BY <1>1, <2>2
    <2>4. Conserved([S EXCEPT ![i] = Freed(S[i])], (bitmap \ {b}) \cup Held(S[i]))
      BY <2>2, <2>3, ConservedFree
    <2>5. [S EXCEPT ![i] = Freed(S[i])] = reasm_slots'
      BY <1>1, <2>1, <2>3
    <2>6. Freed(s) \in SlotType /\ Held(s) \subseteq Blocks
      BY <2>2, FreedSlot
    <2>7. current_ms' = current_ms
      BY <2>1 DEF Copies
    <2>8. QED
      BY <1>1, <2>1, <2>3, <2>4, <2>5, <2>6, <2>7 DEF Inv, PoolType, PoolConservation
  <1>7. ASSUME Complete PROVE Inv'
    BY <1>7 DEF Complete, Inv, PoolType, PoolConservation
  <1>8. ASSUME TickStart PROVE Inv'
    <2>1. current_ms' \in 0..(TimeMod - 1)
      <3>1. PICK d \in 1..MaxStep : current_ms' = (current_ms + d) % TimeMod
        BY <1>8 DEF TickStart
      <3>2. current_ms + d \in Int
        BY DEF Inv, PoolType
      <3>3. QED
        BY <3>1, <3>2, SizeAssumption
    <2>2. QED
      BY <1>8, <2>1 DEF TickStart, Inv, PoolType, PoolConservation
  <1>9. ASSUME TickExpire PROVE Inv'
    BY <1>9, ReleaseInv DEF TickExpire, Inv, PoolType
  <1>10. ASSUME Deinit PROVE Inv'
    BY <1>10, ReleaseInv DEF Deinit, Inv, PoolType
  <1>11. CASE UNCHANGED vars
    BY <1>11 DEF vars, Inv, PoolType, PoolConservation
  <1>12. QED
    BY <1>2, <1>3, <1>4, <1>5, <1>6, <1>7, <1>8, <1>9, <1>10, <1>11 DEF Next, Input

\* No block of the pool is ever lost or held twice.
THEOREM PoolSafe == Spec => []PoolConservation
  <1>1. Inv => PoolConservation
    BY DEF Inv
  <1>2. QED
    BY <1>1, InitInv, NextInv, PTL DEF Spec
=============================================================================
