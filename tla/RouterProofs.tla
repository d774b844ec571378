--------------------------- MODULE RouterProofs ----------------------------
(***************************************************************************)
(* Theorems about Router, for any network, any tables and any clock: the   *)
(* seen tables stay well-formed and never remember a broadcast twice; and, *)
(* where the tables have room for what is under way, no application gets a *)
(* message twice, nor one that is for another.                             *)
(***************************************************************************)
EXTENDS Router, FiniteSetTheorems, SequenceTheorems, TLAPS

-----------------------------------------------------------------------------
(* The invariant.                                                          *)

Messages == [id : Ids, src : Nodes, seq : 0..(SeqMod - 1), dst : Nodes \cup {All}, ttl : Nat]

Entry == [valid : BOOLEAN, src : Nodes \cup {None}, seq : 0..(SeqMod - 1),
          timestamp_ms : 0..(TimeMod - 1)]

SeenType == seen_table \in [Nodes -> [Entries -> Entry]] /\ seen_index \in [Nodes -> Entries]

PortType == /\ ports \in [Nodes -> SUBSET Nodes]
            /\ \A n \in Nodes : IsFiniteSet(ports[n]) /\ Cardinality(ports[n]) <= MaxPorts

TimeType == current_ms \in 0..(TimeMod - 1)

FrameType == link \in [Links -> Seq(Messages)] /\ sends \in Seq(Messages)

IInv == network \in Networks /\ PortType /\ SeenType /\ TimeType /\ FrameType /\ SeenUnique

-----------------------------------------------------------------------------
(* Data.                                                                   *)

\* A remainder is below its modulus.
LEMMA ModInRange ==
    ASSUME NEW m \in Nat \ {0}, NEW a \in Int
    PROVE  a % m \in 0..(m - 1)
  OBVIOUS

\* A node numbers its messages with a uint8_t.
LEMMA MessageType ==
    ASSUME IInv, NEW n \in Nodes, NEW dst \in Nodes \cup {All}, Len(sends) < MaxSends
    PROVE  Message(n, dst) \in Messages
  <1>1. Len(sends) \in Nat /\ DOMAIN sends = 1..Len(sends) /\ IsFiniteSet(1..Len(sends))
    BY FS_Interval DEF IInv, FrameType
  <1> DEFINE own == {k \in DOMAIN sends : sends[k].src = n /\ (sends[k].dst = All <=> dst = All)}
  <1>2. Cardinality(own) \in Nat
    <2>1. own \subseteq 1..Len(sends)
      BY <1>1
    <2>2. IsFiniteSet(own)
      BY <1>1, <2>1, FS_Subset
    <2>3. QED
      BY <2>2, FS_CardinalityType
  <1>3. SeqOf(n, dst) \in 0..(SeqMod - 1)
    <2>1. SeqOf(n, dst) = Cardinality(own) % SeqMod
      BY DEF SeqOf
    <2>2. \A c \in Nat : c % SeqMod \in 0..(SeqMod - 1)
      <3>1. SeqMod \in Nat \ {0}
        BY SizeAssumption
      <3>2. QED
        BY <3>1, ModInRange
    <2>3. QED
      BY <1>2, <2>1, <2>2
  <1>4. Len(sends) + 1 \in Ids
    BY <1>1, SizeAssumption DEF Ids
  <1>5. network.ttl \in Nat
    BY NetworkAssumption DEF IInv
  <1>6. QED
    BY <1>3, <1>4, <1>5 DEF Message, Messages

\* Ports put out frames.
LEMMA SentType ==
    ASSUME NEW links \in [Links -> Seq(Messages)], NEW n, NEW ps, NEW f \in Messages
    PROVE  Sent(links, n, ps, f) \in [Links -> Seq(Messages)]
  BY DEF Sent

\* The frame a node takes is a frame, and leaves the others on its link.
LEMMA TakenType ==
    ASSUME IInv, NEW n \in Nodes, NEW m \in Nodes, Arrives(n, m)
    PROVE  Frame(n, m) \in Messages /\ Taken(n, m) \in [Links -> Seq(Messages)]
  <1>1. link[<<m, n>>] \in Seq(Messages) /\ link[<<m, n>>] # <<>>
    BY DEF Arrives, IInv, FrameType
  <1>2. Head(link[<<m, n>>]) \in Messages /\ Tail(link[<<m, n>>]) \in Seq(Messages)
    BY <1>1, HeadTailProperties
  <1>3. QED
    BY <1>2 DEF Frame, Taken, IInv, FrameType

\* One hop on, a frame is a frame.
LEMMA HopType ==
    ASSUME NEW f \in Messages, f.ttl > 0
    PROVE  Hop(f) \in Messages
  BY DEF Hop, Messages

-----------------------------------------------------------------------------
(* router_seen_check_and_add                                               *)

\* The loop only drops entries; if it ran to its end it has dropped every entry that
\* has expired.
LEMMA PurgedFacts ==
    ASSUME IInv, NEW n \in Nodes, NEW f \in Messages
    PROVE  /\ Purged(n, f) \in [Entries -> Entry]
           /\ \A i \in Entries :
                 /\ Purged(n, f)[i].src = seen_table[n][i].src
                 /\ Purged(n, f)[i].seq = seen_table[n][i].seq
                 /\ Purged(n, f)[i].valid => seen_table[n][i].valid
                 /\ ~Seen(n, f) /\ Purged(n, f)[i].valid => ~Expired(seen_table[n][i])
  <1> SUFFICES ASSUME NEW i \in Entries
               PROVE  /\ Purged(n, f)[i] \in Entry
                      /\ Purged(n, f)[i].src = seen_table[n][i].src
                      /\ Purged(n, f)[i].seq = seen_table[n][i].seq
                      /\ Purged(n, f)[i].valid => seen_table[n][i].valid
                      /\ ~Seen(n, f) /\ Purged(n, f)[i].valid => ~Expired(seen_table[n][i])
    BY DEF Purged
  <1> DEFINE e == seen_table[n][i]
             drop == Expired(e) /\ \A j \in Entries : j < i => ~Remembers(seen_table[n][j], f)
  <1>1. e \in Entry
    BY DEF IInv, SeenType
  <1>2. Purged(n, f)[i] = IF drop THEN [e EXCEPT !.valid = FALSE] ELSE e
    BY DEF Purged
  <1>3. ~Seen(n, f) /\ Expired(e) => drop
    BY DEF Seen
  <1> HIDE DEF e, drop
  <1>4. CASE drop
    BY <1>1, <1>2, <1>4 DEF e, Entry
  <1>5. CASE ~drop
    BY <1>1, <1>2, <1>3, <1>5 DEF e
  <1>6. QED
    BY <1>4, <1>5

\* What router_seen_check_and_add promises: an entry is added only if none for that
\* broadcast is left.
LEMMA SeenKept ==
    ASSUME IInv, NEW n \in Nodes, NEW f \in Messages, SeenCheckAndAdd(n, f)
    PROVE  SeenType' /\ SeenUnique'
  <1> DEFINE old == seen_table[n]
             mid == Purged(n, f)
             new == [valid |-> TRUE, src |-> f.src, seq |-> f.seq, timestamp_ms |-> current_ms]
  <1>1. /\ mid \in [Entries -> Entry] /\ old \in [Entries -> Entry]
        /\ \A i \in Entries : /\ mid[i].src = old[i].src /\ mid[i].seq = old[i].seq
                              /\ mid[i].valid => old[i].valid
                              /\ ~Seen(n, f) /\ mid[i].valid => ~Expired(old[i])
    BY PurgedFacts DEF IInv, SeenType
  <1>2. \A i, j \in Entries :
            /\ mid[i].valid /\ mid[j].valid /\ mid[i].src = mid[j].src /\ mid[i].seq = mid[j].seq
            => i = j
    BY <1>1 DEF IInv, SeenUnique
  <1>3. new \in Entry /\ new.valid /\ new.src = f.src /\ new.seq = f.seq
    BY DEF Entry, Messages, IInv, TimeType
  <1> HIDE DEF old, mid, new
  <1>4. CASE Seen(n, f)
    <2>1. seen_table' = [seen_table EXCEPT ![n] = mid] /\ UNCHANGED seen_index
      BY <1>4 DEF SeenCheckAndAdd, mid
    <2>2. SeenType'
      BY <1>1, <2>1 DEF IInv, SeenType
    <2>3. SeenUnique'
      BY <1>2, <2>1 DEF IInv, SeenType, SeenUnique
    <2>4. QED
      BY <2>2, <2>3
  <1>5. CASE ~Seen(n, f)
    <2>1. PICK w \in Entries :
             /\ seen_table' = [seen_table EXCEPT ![n] = [mid EXCEPT ![w] = new]]
             /\ seen_index' = [seen_index EXCEPT ![n] = IF w = @ THEN Advance(w) ELSE @]
      BY <1>5 DEF SeenCheckAndAdd, mid, new
    <2>2. Advance(w) \in Entries
      BY SizeAssumption DEF Advance, Entries
    <2>3. SeenType'
      BY <1>1, <1>3, <2>1, <2>2 DEF IInv, SeenType
    <2>4. \A i \in Entries : mid[i].valid => ~(mid[i].src = f.src /\ mid[i].seq = f.seq)
      BY <1>1, <1>5 DEF Seen, Remembers, old
    <2>5. \A i \in Entries : [mid EXCEPT ![w] = new][i] = IF i = w THEN new ELSE mid[i]
      BY <1>1
    <2>6. SeenUnique'
      <3> SUFFICES ASSUME NEW o \in Nodes, NEW i \in Entries, NEW j \in Entries,
                          seen_table'[o][i].valid, seen_table'[o][j].valid,
                          seen_table'[o][i].src = seen_table'[o][j].src,
                          seen_table'[o][i].seq = seen_table'[o][j].seq
                   PROVE  i = j
        BY DEF SeenUnique
      <3>1. CASE o = n
        <4>1. seen_table'[o] = [mid EXCEPT ![w] = new]
          BY <2>1, <3>1 DEF IInv, SeenType
        <4>2. QED
          BY <1>2, <1>3, <2>4, <2>5, <4>1
      <3>2. CASE o # n
        BY <2>1, <3>2 DEF IInv, SeenType, SeenUnique
      <3>3. QED
        BY <3>1, <3>2
    <2>7. QED
      BY <2>3, <2>6
  <1>6. QED
    BY <1>4, <1>5

-----------------------------------------------------------------------------
(* The steps.                                                              *)

\* Before the first step.
LEMMA InitInv == Init => IInv
  <1> SUFFICES ASSUME Init PROVE IInv
    OBVIOUS
  <1>1. PortType
    BY FS_EmptySet, SizeAssumption DEF Init, PortType
  <1>2. SeenType /\ TimeType
    BY SizeAssumption DEF Init, SeenType, Entry, Entries, TimeType
  <1>3. FrameType /\ SeenUnique
    BY DEF Init, FrameType, SeenUnique
  <1>4. QED
    BY <1>1, <1>2, <1>3 DEF Init, IInv

\* The application configures a node.
LEMMA ConfigKeeps ==
    ASSUME IInv, NEW n \in Nodes, (\E m \in Nodes : PortRegister(n, m)) \/ TableSet(n)
    PROVE  IInv'
  <1>1. UNCHANGED <<network, seen_table, seen_index, current_ms, link, sends>>
    BY DEF PortRegister, TableSet
  <1>2. SeenType' /\ TimeType' /\ FrameType' /\ SeenUnique'
    BY <1>1 DEF IInv, SeenType, TimeType, FrameType, SeenUnique
  <1>3. PortType'
    <2>1. CASE TableSet(n)
      BY <2>1 DEF TableSet, IInv, PortType
    <2>2. ASSUME NEW m \in Nodes, PortRegister(n, m) PROVE PortType'
      <3>1. /\ ports' = [ports EXCEPT ![n] = ports[n] \cup {m}] /\ m \notin ports[n]
            /\ Cardinality(ports[n]) < MaxPorts
        BY <2>2 DEF PortRegister
      <3>2. /\ IsFiniteSet(ports[n] \cup {m})
            /\ Cardinality(ports[n] \cup {m}) = Cardinality(ports[n]) + 1
            /\ Cardinality(ports[n]) \in Nat
        BY <3>1, FS_AddElement, FS_CardinalityType DEF IInv, PortType
      <3>3. Cardinality(ports[n] \cup {m}) <= MaxPorts
        BY <3>1, <3>2, SizeAssumption
      <3>4. QED
        BY <3>1, <3>2, <3>3 DEF IInv, PortType
    <2>3. QED
      BY <2>1, <2>2
  <1>4. QED
    BY <1>1, <1>2, <1>3 DEF IInv

\* A message is sent.
LEMMA SendKeeps ==
    ASSUME IInv, NEW n \in Nodes, SendBroadcast(n) \/ \E d \in Nodes : SendUnicast(n, d)
    PROVE  IInv'
  <1>1. PICK dst \in Nodes \cup {All} :
           /\ Len(sends) < MaxSends /\ sends' = Append(sends, Message(n, dst))
           /\ \E ps : link' = Sent(link, n, ps, Message(n, dst))
           /\ SeenCheckAndAdd(n, Message(n, dst)) \/ UNCHANGED <<seen_table, seen_index>>
           /\ UNCHANGED <<config, current_ms>>
    BY DEF SendBroadcast, SendUnicast
  <1>2. Message(n, dst) \in Messages
    BY <1>1, MessageType
  <1>3. FrameType'
    BY <1>1, <1>2, SentType DEF IInv, FrameType
  <1>4. SeenType' /\ SeenUnique'
    <2>1. CASE SeenCheckAndAdd(n, Message(n, dst))
      BY <1>2, <2>1, SeenKept
    <2>2. CASE UNCHANGED <<seen_table, seen_index>>
      BY <2>2 DEF IInv, SeenType, SeenUnique
    <2>3. QED
      BY <1>1, <2>1, <2>2
  <1>5. QED
    BY <1>1, <1>3, <1>4 DEF IInv, config, PortType, TimeType

\* A frame is handled.
LEMMA HandleKeeps ==
    ASSUME IInv, NEW n \in Nodes, NEW m \in Nodes, Handle(n, m)
    PROVE  IInv'
  <1> DEFINE f == Frame(n, m)
  <1>1. Arrives(n, m) /\ UNCHANGED <<config, current_ms, sends>>
    BY DEF Handle, DropTtl, DropSeen, Flood, Receive, DropNoRoute, Forward, IsBroadcast,
           IsUnicast
  <1>2. f \in Messages /\ Taken(n, m) \in [Links -> Seq(Messages)]
    BY <1>1, TakenType
  <1>3. \/ link' = Taken(n, m)
        \/ f.ttl > 0 /\ \E ps : link' = Sent(Taken(n, m), n, ps, Hop(f))
    BY DEF Handle, DropTtl, DropSeen, Flood, Receive, DropNoRoute, Forward, IsBroadcast,
           IsUnicast
  <1>4. SeenCheckAndAdd(n, f) \/ UNCHANGED <<seen_table, seen_index>>
    BY DEF Handle, DropTtl, DropSeen, Flood, Receive, DropNoRoute, Forward
  <1> HIDE DEF f
  <1>5. FrameType'
    <2>1. link' \in [Links -> Seq(Messages)]
      BY <1>2, <1>3, HopType, SentType
    <2>2. QED
      BY <1>1, <2>1 DEF IInv, FrameType
  <1>6. SeenType' /\ SeenUnique'
    <2>1. CASE SeenCheckAndAdd(n, f)
      BY <1>2, <2>1, SeenKept
    <2>2. CASE UNCHANGED <<seen_table, seen_index>>
      BY <2>2 DEF IInv, SeenType, SeenUnique
    <2>3. QED
      BY <1>4, <2>1, <2>2
  <1>7. QED
    BY <1>1, <1>5, <1>6 DEF IInv, config, PortType, TimeType

\* Time passes.
LEMMA TickKeeps ==
    ASSUME IInv, Tick
    PROVE  IInv'
  <1>1. current_ms' \in 0..(TimeMod - 1)
    BY ModInRange, SizeAssumption DEF Tick, IInv, TimeType
  <1>2. QED
    BY <1>1 DEF Tick, config, IInv, TimeType, PortType, SeenType, FrameType, SeenUnique

-----------------------------------------------------------------------------
(* The theorems.                                                           *)

\* The invariant always holds.
THEOREM Invariant == Spec => []IInv
  <1>1. IInv /\ [Next]_vars => IInv'
    <2> SUFFICES ASSUME IInv, [Next]_vars PROVE IInv'
      OBVIOUS
    <2>1. CASE UNCHANGED vars
      BY <2>1 DEF vars, config, IInv, TimeType, PortType, SeenType, FrameType, SeenUnique
    <2>2. CASE Next
      BY <2>2, ConfigKeeps, SendKeeps, HandleKeeps, TickKeeps DEF Next
    <2>3. QED
      BY <2>1, <2>2
  <1>2. QED
    BY <1>1, InitInv, PTL DEF Spec

\* The seen tables, their indices, the clock and the ports stay within their types.
THEOREM TypeCorrect == Spec => []TypeOK
  <1>1. IInv => TypeOK
    BY DEF IInv, TypeOK, PortType, SeenType, TimeType, Entry
  <1>2. QED
    BY <1>1, Invariant, PTL

\* router_seen_check_and_add never leaves two valid entries for one broadcast, not
\* even when entries expire, places are reused or the table runs over.
THEOREM SeenSafe == Spec => []SeenUnique
  <1>1. IInv => SeenUnique
    BY DEF IInv
  <1>2. QED
    BY <1>1, Invariant, PTL

-----------------------------------------------------------------------------
(* Frames on their way.                                                    *)

\* No node sends a message to itself that it has a route for.
NoSelfSend ==
    \A w \in Networks : \A n \in Nodes : <<n, n>> \in w.sends => n \notin DOMAIN w.routes[n]

\* A frame in flight is a copy of a message sent.
Copies ==
    \A l \in Links : \A p \in 1..Len(link[l]) : LET f == link[l][p] IN
        /\ f.id \in DOMAIN sends
        /\ f.src = sends[f.id].src /\ f.seq = sends[f.id].seq /\ f.dst = sends[f.id].dst

\* There is one copy of a unicast message, and none of one that was delivered.
OneCopy ==
    /\ \A l, o \in Links : \A p \in 1..Len(link[l]), q \in 1..Len(link[o]) :
          link[l][p].id = link[o][q].id /\ link[l][p].dst # All => l = o /\ p = q
    /\ \A l \in Links : \A p \in 1..Len(link[l]) : LET f == link[l][p] IN
          f.dst # All => delivered[f.dst][f.id] = 0

\* While a copy of a broadcast is in flight, its sender and all who delivered it
\* remember it.
Remembered ==
    \A l \in Links : \A p \in 1..Len(link[l]) : LET f == link[l][p] IN
        f.dst = All => \A n \in Nodes : n = f.src \/ delivered[n][f.id] > 0 => Seen(n, f)

Once ==
    /\ delivered \in [Nodes -> [Ids -> {0, 1}]]
    /\ \A n \in Nodes, k \in Ids : delivered[n][k] > 0 =>
          k \in DOMAIN sends /\ n # sends[k].src /\ sends[k].dst \in {All, n}

Addressed == Len(sends) <= MaxSends /\ \A k \in DOMAIN sends : sends[k].dst # sends[k].src

DInv == Copies /\ OneCopy /\ Remembered /\ Once /\ Addressed

\* What a node has stored and has not forgotten is not written over: the table had
\* room.
KeepsLive ==
    \A n \in Nodes, i \in Entries : LET e == seen_table[n][i] IN
        e.valid /\ ~Expired(e) => seen_table'[n][i] = e

\* The position on its link, before the step, of the frame that has position p after n
\* took the first frame of the link from m.
Place(n, m, l, p) == IF l = <<m, n>> THEN p + 1 ELSE p

\* Where the frames on the links come from when f is put out.
LEMMA SentFrames ==
    ASSUME NEW links \in [Links -> Seq(Messages)], NEW n, NEW ps, NEW f,
           NEW l \in Links, NEW p \in 1..Len(Sent(links, n, ps, f)[l])
    PROVE  \/ /\ l[1] = n /\ l[2] \in ps /\ p = Len(Sent(links, n, ps, f)[l])
              /\ Sent(links, n, ps, f)[l][p] = f
           \/ p \in 1..Len(links[l]) /\ Sent(links, n, ps, f)[l][p] = links[l][p]
  <1>1. Len(links[l]) \in Nat /\ links[l] \in Seq(Messages)
    OBVIOUS
  <1>2. CASE l[1] = n /\ l[2] \in ps \cap ports[n] /\ Len(links[l]) < LinkSize
    <2>1. Sent(links, n, ps, f)[l] = Append(links[l], f)
      BY <1>2 DEF Sent
    <2>2. /\ Len(Append(links[l], f)) = Len(links[l]) + 1
          /\ Append(links[l], f)[Len(links[l]) + 1] = f
          /\ \A q \in 1..Len(links[l]) : Append(links[l], f)[q] = links[l][q]
      BY <1>1
    <2>3. CASE p = Len(links[l]) + 1
      BY <1>2, <2>1, <2>2, <2>3
    <2>4. CASE p # Len(links[l]) + 1
      BY <1>1, <2>1, <2>2, <2>4
    <2>5. QED
      BY <2>3, <2>4
  <1>3. CASE ~(l[1] = n /\ l[2] \in ps \cap ports[n] /\ Len(links[l]) < LinkSize)
    BY <1>3 DEF Sent
  <1>4. QED
    BY <1>2, <1>3

\* The frame n takes is the first of its link, and the others move up.
LEMMA TakenFrames ==
    ASSUME IInv, NEW n \in Nodes, NEW m \in Nodes, Arrives(n, m)
    PROVE  /\ <<m, n>> \in Links /\ 1 \in 1..Len(link[<<m, n>>])
           /\ Frame(n, m) = link[<<m, n>>][1]
           /\ \A l \in Links : \A p \in 1..Len(Taken(n, m)[l]) :
                 /\ Place(n, m, l, p) \in 1..Len(link[l])
                 /\ Taken(n, m)[l][p] = link[l][Place(n, m, l, p)]
  <1>1. <<m, n>> \in Links /\ link[<<m, n>>] \in Seq(Messages) /\ link[<<m, n>>] # <<>>
    BY DEF Arrives, IInv, FrameType
  <1>2. PICK s \in Seq(Messages) : s = link[<<m, n>>] /\ s # <<>>
    BY <1>1
  <1>3. /\ Len(s) \in Nat \ {0} /\ Head(s) = s[1] /\ Len(Tail(s)) = Len(s) - 1
        /\ \A p \in 1..Len(Tail(s)) : Tail(s)[p] = s[p + 1]
    BY <1>2
  <1>4. \A l \in Links : Taken(n, m)[l] = IF l = <<m, n>> THEN Tail(s) ELSE link[l]
    BY <1>1, <1>2 DEF Taken, IInv, FrameType
  <1>5. ASSUME NEW l \in Links, NEW p \in 1..Len(Taken(n, m)[l])
        PROVE  /\ Place(n, m, l, p) \in 1..Len(link[l])
               /\ Taken(n, m)[l][p] = link[l][Place(n, m, l, p)]
    <2>1. CASE l = <<m, n>>
      <3>1. Place(n, m, l, p) = p + 1 /\ Taken(n, m)[l] = Tail(s) /\ link[l] = s
        BY <1>2, <1>4, <2>1 DEF Place
      <3>2. QED
        BY <1>3, <1>5, <3>1
    <2>2. CASE l # <<m, n>>
      BY <1>4, <1>5, <2>2 DEF Place
    <2>3. QED
      BY <2>1, <2>2
  <1>6. QED
    BY <1>1, <1>2, <1>3, <1>5 DEF Frame

\* A frame that is put out on no port leaves the links alone.
LEMMA SentNowhere ==
    ASSUME NEW links \in [Links -> Seq(Messages)], NEW n, NEW f
    PROVE  Sent(links, n, {}, f) = links
  BY DEF Sent

\* The frame n takes is a copy of a message sent, of which the invariant speaks.
LEMMA FrameFacts ==
    ASSUME IInv, DInv, NEW n \in Nodes, NEW m \in Nodes, Arrives(n, m)
    PROVE  LET f == Frame(n, m) IN
           /\ f \in Messages /\ f.id \in DOMAIN sends /\ f.id \in Ids
           /\ f.src = sends[f.id].src /\ f.seq = sends[f.id].seq /\ f.dst = sends[f.id].dst
           /\ f.dst # All => delivered[f.dst][f.id] = 0
           /\ f.dst = All => \A o \in Nodes : o = f.src \/ delivered[o][f.id] > 0 => Seen(o, f)
           /\ Hop(f).id = f.id /\ Hop(f).src = f.src /\ Hop(f).seq = f.seq /\ Hop(f).dst = f.dst
  <1> DEFINE f == Frame(n, m)
  <1>1. f \in Messages
    BY TakenType
  <1>2. <<m, n>> \in Links /\ 1 \in 1..Len(link[<<m, n>>]) /\ f = link[<<m, n>>][1]
    BY TakenFrames
  <1> HIDE DEF f
  <1>3. /\ f.id \in DOMAIN sends
        /\ f.src = sends[f.id].src /\ f.seq = sends[f.id].seq /\ f.dst = sends[f.id].dst
    BY <1>2 DEF DInv, Copies
  <1>4. f.dst # All => delivered[f.dst][f.id] = 0
    BY <1>2 DEF DInv, OneCopy
  <1>5. f.dst = All => \A o \in Nodes : o = f.src \/ delivered[o][f.id] > 0 => Seen(o, f)
    BY <1>2 DEF DInv, Remembered
  <1>6. Hop(f).id = f.id /\ Hop(f).src = f.src /\ Hop(f).seq = f.seq /\ Hop(f).dst = f.dst
    BY <1>1 DEF Hop, Messages
  <1>7. f.id \in Ids
    BY <1>1 DEF Messages
  <1>8. QED
    BY <1>1, <1>3, <1>4, <1>5, <1>6, <1>7 DEF f

-----------------------------------------------------------------------------
(* Delivery, step by step.                                                 *)

\* What a node remembers it still remembers, while no time passes.
LEMMA StillSeen ==
    ASSUME KeepsLive, current_ms' = current_ms, NEW n \in Nodes, NEW f, Seen(n, f)
    PROVE  Seen(n, f)'
  <1>1. PICK i \in Entries : Remembers(seen_table[n][i], f)
    BY DEF Seen
  <1>2. seen_table'[n][i] = seen_table[n][i]
    BY <1>1 DEF KeepsLive, Remembers
  <1>3. Remembers(seen_table[n][i], f)'
    BY <1>1, <1>2 DEF Remembers, Expired
  <1>4. QED
    BY <1>3 DEF Seen

\* A broadcast is remembered when router_seen_check_and_add has looked at it.
LEMMA SeenAfter ==
    ASSUME IInv, KeepsLive, current_ms' = current_ms,
           NEW n \in Nodes, NEW f, SeenCheckAndAdd(n, f)
    PROVE  Seen(n, f)'
  <1>1. CASE Seen(n, f)
    BY <1>1, StillSeen
  <1>2. CASE ~Seen(n, f)
    <2> DEFINE new == [valid |-> TRUE, src |-> f.src, seq |-> f.seq, timestamp_ms |-> current_ms]
    <2>1. PICK i \in Entries :
             seen_table' = [seen_table EXCEPT ![n] = [Purged(n, f) EXCEPT ![i] = new]]
      BY <1>2 DEF SeenCheckAndAdd
    <2>2. seen_table'[n][i] = new
      BY <2>1 DEF IInv, SeenType, Purged
    <2>3. ~(0 % TimeMod >= SeenExpire)
      BY SizeAssumption
    <2>4. current_ms - current_ms = 0
      BY DEF IInv, TimeType
    <2>5. Remembers(seen_table[n][i], f)'
      BY <2>2, <2>3, <2>4 DEF Remembers, Expired
    <2>6. QED
      BY <2>5 DEF Seen
  <1>3. QED
    BY <1>1, <1>2

\* Remembered, of a frame given by name.
LEMMA RememberedAfter ==
    ASSUME ASSUME NEW l \in Links, NEW p \in 1..Len(link'[l]), NEW f, f = link'[l][p],
                  f.dst = All, NEW n \in Nodes, n = f.src \/ delivered'[n][f.id] > 0
           PROVE  Seen(n, f)'
    PROVE  Remembered'
  BY DEF Remembered, Seen, Remembers, Expired

\* A message is sent: nobody has seen its number.
LEMMA SendDelivers ==
    ASSUME NoSelfSend, IInv, DInv, KeepsLive,
           NEW n \in Nodes, SendBroadcast(n) \/ \E d \in Nodes : SendUnicast(n, d)
    PROVE  DInv'
  <1> DEFINE Put(dst, ps) ==
                /\ Len(sends) < MaxSends /\ sends' = Append(sends, Message(n, dst))
                /\ link' = Sent(link, n, ps, Message(n, dst))
                /\ dst = All => SeenCheckAndAdd(n, Message(n, dst))
                /\ dst # All => ps = {route_table[n][dst]} /\ UNCHANGED seen_table
                /\ dst # n
                /\ UNCHANGED <<config, current_ms, delivered>>
  <1>a. PICK dst \in Nodes \cup {All} : \E ps : Put(dst, ps)
    <2>1. CASE SendBroadcast(n)
      <3>1. Put(All, ports[n])
        BY <2>1, NetworkAssumption DEF SendBroadcast
      <3>2. QED
        BY <3>1
    <2>2. ASSUME NEW d \in Nodes, SendUnicast(n, d)
          PROVE  Put(d, {route_table[n][d]})
      <3>1. d # n
        BY <2>2 DEF SendUnicast, Knows, Built, NoSelfSend, IInv
      <3>2. QED
        BY <2>2, <3>1, NetworkAssumption DEF SendUnicast
    <2>3. QED
      BY <2>1, <2>2
  <1>b. PICK ps : Put(dst, ps)
    BY <1>a
  <1>1. /\ Len(sends) < MaxSends /\ sends' = Append(sends, Message(n, dst))
        /\ link' = Sent(link, n, ps, Message(n, dst))
        /\ dst = All => SeenCheckAndAdd(n, Message(n, dst))
        /\ dst # All => ps = {route_table[n][dst]} /\ UNCHANGED seen_table
        /\ dst # n
        /\ UNCHANGED <<config, current_ms, delivered>>
    BY <1>b
  <1>2. PICK f \in Messages : f = Message(n, dst)
    BY <1>1, MessageType
  <1>3. /\ Len(sends) \in Nat /\ f.id = Len(sends) + 1 /\ f.src = n /\ f.dst = dst
        /\ DOMAIN sends = 1..Len(sends)
    BY <1>2 DEF Message, IInv, FrameType
  <1>4. /\ DOMAIN sends' = 1..f.id /\ Len(sends') = f.id /\ sends'[f.id] = f
        /\ \A k \in DOMAIN sends : sends'[k] = sends[k] /\ k \in DOMAIN sends' /\ k # f.id
    BY <1>1, <1>2, <1>3 DEF IInv, FrameType
  <1>5. \A l \in Links : \A p \in 1..Len(link'[l]) :
           \/ l[1] = n /\ l[2] \in ps /\ p = Len(link'[l]) /\ link'[l][p] = f
           \/ p \in 1..Len(link[l]) /\ link'[l][p] = link[l][p]
    BY <1>1, <1>2, SentFrames DEF IInv, FrameType
  <1>6. Copies'
    <2> SUFFICES ASSUME NEW l \in Links, NEW p \in 1..Len(link'[l])
                 PROVE  LET g == link'[l][p] IN
                        /\ g.id \in DOMAIN sends' /\ g.src = sends'[g.id].src
                        /\ g.seq = sends'[g.id].seq /\ g.dst = sends'[g.id].dst
      BY DEF Copies
    <2>1. CASE link'[l][p] = f
      <3>1. f.id \in DOMAIN sends'
        BY <1>3, <1>4
      <3>2. QED
        BY <1>4, <2>1, <3>1
    <2>2. CASE p \in 1..Len(link[l]) /\ link'[l][p] = link[l][p]
      BY <1>4, <2>2 DEF DInv, Copies
    <2>3. QED
      BY <1>5, <2>1, <2>2
  <1>7. \A l \in Links : \A p \in 1..Len(link[l]) : link[l][p].id # f.id
    BY <1>4 DEF DInv, Copies
  <1>8. f.id \in Ids /\ \A o \in Nodes : delivered[o][f.id] = 0
    <2>1. f.id \in Ids
      BY <1>2 DEF Messages
    <2>2. ASSUME NEW o \in Nodes PROVE delivered[o][f.id] = 0
      <3>1. delivered[o][f.id] \in {0, 1}
        BY <2>1 DEF DInv, Once
      <3>2. ~(delivered[o][f.id] > 0)
        BY <1>3, <2>1 DEF DInv, Once
      <3>3. QED
        BY <3>1, <3>2
    <2>3. QED
      BY <2>1, <2>2
  <1>9. OneCopy'
    <2>1. ASSUME NEW l \in Links, NEW o \in Links,
                 NEW p \in 1..Len(link'[l]), NEW q \in 1..Len(link'[o]),
                 link'[l][p].id = link'[o][q].id, link'[l][p].dst # All
          PROVE  l = o /\ p = q
      <3>1. CASE link'[l][p] = f /\ link'[o][q] = f
        <4>1. /\ l[1] = n /\ l[2] \in ps /\ p = Len(link'[l])
              /\ o[1] = n /\ o[2] \in ps /\ q = Len(link'[o])
          BY <1>5, <1>7, <3>1
        <4>2. l[2] = o[2]
          BY <1>1, <1>3, <2>1, <3>1, <4>1
        <4>3. l = o
          BY <4>1, <4>2 DEF Links
        <4>4. QED
          BY <4>1, <4>3
      <3>2. CASE link'[l][p] # f /\ link'[o][q] # f
        <4>1. /\ p \in 1..Len(link[l]) /\ link'[l][p] = link[l][p]
              /\ q \in 1..Len(link[o]) /\ link'[o][q] = link[o][q]
          BY <1>5, <3>2
        <4>2. QED
          BY <2>1, <4>1 DEF DInv, OneCopy
      <3>3. CASE link'[l][p] # f /\ link'[o][q] = f
        BY <1>5, <1>7, <2>1, <3>3
      <3>4. CASE link'[l][p] = f /\ link'[o][q] # f
        BY <1>5, <1>7, <2>1, <3>4
      <3>5. QED
        BY <3>1, <3>2, <3>3, <3>4
    <2>2. ASSUME NEW l \in Links, NEW p \in 1..Len(link'[l]), link'[l][p].dst # All
          PROVE  delivered'[link'[l][p].dst][link'[l][p].id] = 0
      <3>1. CASE link'[l][p] = f
        BY <1>1, <1>2, <1>3, <1>8, <2>2, <3>1
      <3>2. CASE link'[l][p] # f
        BY <1>1, <1>5, <2>2, <3>2 DEF DInv, OneCopy
      <3>3. QED
        BY <3>1, <3>2
    <2>3. QED
      BY <2>1, <2>2 DEF OneCopy
  <1>10. Remembered'
    <2> SUFFICES ASSUME NEW l \in Links, NEW p \in 1..Len(link'[l]), NEW g, g = link'[l][p],
                        g.dst = All, NEW o \in Nodes, o = g.src \/ delivered'[o][g.id] > 0
                 PROVE  Seen(o, g)'
      BY RememberedAfter
    <2>1. CASE g = f
      <3>1. o = n /\ dst = All
        BY <1>1, <1>3, <1>8, <2>1
      <3>2. SeenCheckAndAdd(n, f)
        BY <1>1, <1>2, <3>1
      <3>3. QED
        BY <1>1, <2>1, <3>1, <3>2, SeenAfter
    <2>2. CASE g # f
      <3>1. p \in 1..Len(link[l]) /\ g = link[l][p]
        BY <1>5, <2>2
      <3>2. Seen(o, g)
        BY <1>1, <3>1 DEF DInv, Remembered
      <3>3. QED
        BY <1>1, <3>2, StillSeen
    <2>3. QED
      BY <2>1, <2>2
  <1>11. Once'
    BY <1>1, <1>4 DEF DInv, Once
  <1>12. Addressed'
    <2>1. f.dst # f.src
      BY <1>1, <1>3
    <2>2. Len(sends') <= MaxSends
      BY <1>1, <1>3, <1>4, SizeAssumption
    <2>3. QED
      BY <1>1, <1>3, <1>4, <2>1, <2>2 DEF DInv, Addressed, config
  <1>13. QED
    BY <1>6, <1>9, <1>10, <1>11, <1>12 DEF DInv

\* A frame is handled: it moves on or ends here, and is delivered if it is new.
LEMMA HandleDelivers ==
    ASSUME IInv, DInv, KeepsLive, NEW n \in Nodes, NEW m \in Nodes, Handle(n, m)
    PROVE  DInv'
  <1>1. Arrives(n, m) /\ UNCHANGED <<config, current_ms, sends>>
    BY DEF Handle, DropTtl, DropSeen, Flood, Receive, DropNoRoute, Forward, IsBroadcast,
           IsUnicast
  <1>2. PICK f \in Messages : f = Frame(n, m)
    BY <1>1, TakenType
  <1>3. /\ f.id \in DOMAIN sends /\ f.id \in Ids
        /\ f.src = sends[f.id].src /\ f.seq = sends[f.id].seq /\ f.dst = sends[f.id].dst
        /\ f.dst # All => delivered[f.dst][f.id] = 0
        /\ f.dst = All => \A o \in Nodes : o = f.src \/ delivered[o][f.id] > 0 => Seen(o, f)
    BY <1>1, <1>2, FrameFacts
  <1>4. PICK h : /\ h = Hop(f)
                 /\ h.id = f.id /\ h.src = f.src /\ h.seq = f.seq /\ h.dst = f.dst
    BY <1>1, <1>2, FrameFacts
  <1>5. PICK ps :
           /\ link' = Sent(Taken(n, m), n, ps, h)
           /\ \/ delivered' = delivered
              \/ /\ delivered' = [delivered EXCEPT ![n][f.id] = @ + 1]
                 /\ \/ f.dst = All /\ ~Seen(n, f) /\ SeenCheckAndAdd(n, f)
                    \/ f.dst = n /\ f.dst # All /\ ps = {}
           /\ f.dst # All => ps = {} \/ ((\E x : ps = {x}) /\ delivered' = delivered)
    <2>1. Taken(n, m) = Sent(Taken(n, m), n, {}, h)
      BY <1>1, TakenType, SentNowhere
    <2>2. CASE DropTtl(n, m) \/ DropSeen(n, m) \/ DropNoRoute(n, m)
      BY <2>1, <2>2 DEF DropTtl, DropSeen, DropNoRoute
    <2>3. CASE Flood(n, m)
      BY <1>2, <1>4, <2>3 DEF Flood, Deliver, IsBroadcast
    <2>4. CASE Receive(n, m)
      <3>1. /\ link' = Sent(Taken(n, m), n, {}, h)
            /\ delivered' = [delivered EXCEPT ![n][f.id] = @ + 1]
            /\ f.dst = n /\ f.dst # All
        BY <1>2, <2>1, <2>4 DEF Receive, Deliver, IsUnicast
      <3>2. QED
        BY <3>1
    <2>5. CASE Forward(n, m)
      BY <1>2, <1>4, <2>5 DEF Forward
    <2>6. QED
      BY <2>2, <2>3, <2>4, <2>5 DEF Handle
  <1>6. /\ <<m, n>> \in Links /\ 1 \in 1..Len(link[<<m, n>>]) /\ f = link[<<m, n>>][1]
        /\ \A l \in Links : \A p \in 1..Len(link'[l]) :
              \/ l[1] = n /\ l[2] \in ps /\ p = Len(link'[l]) /\ link'[l][p] = h
              \/ /\ Place(n, m, l, p) \in 1..Len(link[l])
                 /\ link'[l][p] = link[l][Place(n, m, l, p)]
    <2>1. \A l \in Links : \A p \in 1..Len(link'[l]) :
             \/ l[1] = n /\ l[2] \in ps /\ p = Len(link'[l]) /\ link'[l][p] = h
             \/ p \in 1..Len(Taken(n, m)[l]) /\ link'[l][p] = Taken(n, m)[l][p]
      BY <1>1, <1>5, TakenType, SentFrames
    <2>2. QED
      BY <1>1, <1>2, <2>1, TakenFrames
  <1> DEFINE New(l, p) == l[1] = n /\ l[2] \in ps /\ p = Len(link'[l]) /\ link'[l][p] = h
             Old(l, p) == /\ Place(n, m, l, p) \in 1..Len(link[l])
                          /\ link'[l][p] = link[l][Place(n, m, l, p)]
  <1>7. \A l \in Links : \A p \in 1..Len(link'[l]) : New(l, p) \/ Old(l, p)
    BY <1>6
  <1>8. Copies'
    BY <1>1, <1>3, <1>4, <1>7 DEF DInv, Copies
  <1>9. Once'
    <2>1. CASE delivered' = delivered
      BY <1>1, <2>1 DEF DInv, Once
    <2>2. CASE delivered' = [delivered EXCEPT ![n][f.id] = @ + 1] /\ delivered' # delivered
      <3>1. delivered[n][f.id] = 0
        <4>1. delivered[n][f.id] \in {0, 1}
          BY <1>3 DEF DInv, Once
        <4>2. QED
          BY <1>3, <1>5, <2>2, <4>1
      <3>2. n # f.src /\ f.dst \in {All, n}
        BY <1>3, <1>5, <2>2 DEF DInv, Addressed
      <3>3. \A o \in Nodes, k \in Ids :
               delivered'[o][k] = IF o = n /\ k = f.id THEN 1 ELSE delivered[o][k]
        BY <1>3, <2>2, <3>1 DEF DInv, Once
      <3>4. delivered' \in [Nodes -> [Ids -> {0, 1}]]
        BY <1>3, <2>2, <3>1 DEF DInv, Once
      <3>5. QED
        BY <1>1, <1>3, <3>2, <3>3, <3>4 DEF DInv, Once
    <2>3. QED
      BY <1>5, <2>1, <2>2
  <1>10. ASSUME NEW o \in Nodes, NEW k \in Ids, o # n \/ k # f.id
         PROVE  delivered'[o][k] = delivered[o][k]
    BY <1>3, <1>5, <1>10 DEF DInv, Once
  <1>11. ASSUME NEW l \in Links, NEW p \in 1..Len(link'[l]), Old(l, p)
         PROVE  l # <<m, n>> \/ Place(n, m, l, p) # 1
    BY <1>11 DEF Place
  <1>12. ASSUME NEW l \in Links, NEW p \in 1..Len(link'[l]), Old(l, p), link'[l][p].dst # All
         PROVE  link'[l][p].id # f.id
    BY <1>6, <1>11, <1>12 DEF DInv, OneCopy
  <1>13. OneCopy'
    <2>1. ASSUME NEW l \in Links, NEW o \in Links,
                 NEW p \in 1..Len(link'[l]), NEW q \in 1..Len(link'[o]),
                 link'[l][p].id = link'[o][q].id, link'[l][p].dst # All
          PROVE  l = o /\ p = q
      <3>1. link'[o][q].dst # All
        BY <1>8, <2>1 DEF Copies
      <3>2. CASE New(l, p) /\ New(o, q)
        <4>1. l[2] = o[2]
          BY <1>4, <1>5, <2>1, <3>2
        <4>2. l = o
          BY <3>2, <4>1 DEF Links
        <4>3. QED
          BY <3>2, <4>2
      <3>3. CASE Old(l, p) /\ Old(o, q)
        <4>1. l = o /\ Place(n, m, l, p) = Place(n, m, o, q)
          BY <2>1, <3>3 DEF DInv, OneCopy
        <4>2. QED
          BY <4>1 DEF Place
      <3>4. CASE New(l, p) /\ Old(o, q)
        BY <1>4, <1>12, <2>1, <3>1, <3>4
      <3>5. CASE Old(l, p) /\ New(o, q)
        BY <1>4, <1>12, <2>1, <3>5
      <3>6. QED
        BY <1>7, <3>2, <3>3, <3>4, <3>5
    <2>2. ASSUME NEW l \in Links, NEW p \in 1..Len(link'[l]), link'[l][p].dst # All
          PROVE  delivered'[link'[l][p].dst][link'[l][p].id] = 0
      <3>1. CASE New(l, p)
        <4>1. delivered' = delivered
          BY <1>4, <1>5, <2>2, <3>1
        <4>2. QED
          BY <1>3, <1>4, <2>2, <3>1, <4>1
      <3>2. CASE Old(l, p)
        <4>1. PICK g \in Messages : g = link'[l][p] /\ g.dst # All /\ g.id # f.id
          BY <1>12, <2>2, <3>2 DEF IInv, FrameType
        <4>2. delivered[g.dst][g.id] = 0
          BY <3>2, <4>1 DEF DInv, OneCopy
        <4>3. QED
          BY <1>10, <4>1, <4>2 DEF Messages
      <3>3. QED
        BY <1>7, <3>1, <3>2
    <2>3. QED
      BY <2>1, <2>2 DEF OneCopy
  <1>14. Remembered'
    <2> SUFFICES ASSUME NEW l \in Links, NEW p \in 1..Len(link'[l]), NEW g, g = link'[l][p],
                        g.dst = All, NEW o \in Nodes, o = g.src \/ delivered'[o][g.id] > 0
                 PROVE  Seen(o, g)'
      BY RememberedAfter
    <2>1. ASSUME g.src = f.src, g.seq = f.seq, Seen(o, f)'
          PROVE  Seen(o, g)'
      BY <2>1 DEF Seen, Remembers
    <2>2. CASE g.id = f.id
      <3>1. g.src = f.src /\ g.seq = f.seq /\ g.dst = f.dst
        BY <1>1, <1>3, <1>8, <2>2 DEF Copies
      <3>2. CASE o = n /\ delivered' # delivered
        <4>1. SeenCheckAndAdd(n, f)
          BY <1>5, <3>1, <3>2
        <4>2. QED
          BY <1>1, <2>1, <3>1, <3>2, <4>1, SeenAfter
      <3>3. CASE ~(o = n /\ delivered' # delivered)
        <4>1. delivered'[o][f.id] = delivered[o][f.id]
          BY <1>3, <1>10, <3>3
        <4>2. Seen(o, f)
          BY <1>3, <2>2, <3>1, <4>1
        <4>3. QED
          BY <1>1, <2>1, <3>1, <4>2, StillSeen
      <3>4. QED
        BY <3>2, <3>3
    <2>3. CASE g.id # f.id
      <3>1. Old(l, p) /\ g \in Messages
        BY <1>4, <1>7, <2>3 DEF IInv, FrameType
      <3>2. delivered'[o][g.id] = delivered[o][g.id]
        BY <1>10, <2>3, <3>1 DEF Messages
      <3>3. Seen(o, g)
        BY <3>1, <3>2 DEF DInv, Remembered
      <3>4. QED
        BY <1>1, <3>3, StillSeen
    <2>4. QED
      BY <2>2, <2>3
  <1>15. Addressed'
    BY <1>1 DEF DInv, Addressed, config
  <1>16. QED
    BY <1>8, <1>9, <1>13, <1>14, <1>15 DEF DInv

\* The steps in which no message is sent and no frame handled; time passes only while
\* no frame is in flight.
LEMMA RestDelivers ==
    ASSUME QuietTick, IInv, DInv,
           \/ \E n, m \in Nodes : PortRegister(n, m)
           \/ \E n \in Nodes : TableSet(n)
           \/ Tick \/ UNCHANGED vars
    PROVE  DInv'
  <1>1. UNCHANGED <<network, seen_table, link, sends, delivered>>
    BY DEF PortRegister, TableSet, Tick, vars, config
  <1>2. Copies' /\ OneCopy' /\ Once'
    BY <1>1 DEF DInv, Copies, OneCopy, Once
  <1>3. Remembered'
    <2>1. CASE current_ms' = current_ms
      BY <1>1, <2>1 DEF DInv, Remembered, Seen, Remembers, Expired
    <2>2. CASE current_ms' # current_ms
      <3>1. \A l \in Links : link[l] = <<>>
        BY <2>2 DEF Tick, Quiet, PortRegister, TableSet, vars
      <3>2. \A l \in Links : 1..Len(link'[l]) = {}
        BY <1>1, <3>1
      <3>3. QED
        BY <3>2 DEF Remembered
    <2>3. QED
      BY <2>1, <2>2
  <1>4. Addressed'
    BY <1>1 DEF DInv, Addressed
  <1>5. QED
    BY <1>2, <1>3, <1>4 DEF DInv

\* Nothing is in flight and nothing delivered at the start.
LEMMA InitDelivers == Init => DInv
  <1> SUFFICES ASSUME Init PROVE DInv
    OBVIOUS
  <1>1. \A l \in Links : 1..Len(link[l]) = {}
    BY DEF Init
  <1>2. Copies /\ OneCopy /\ Remembered
    BY <1>1 DEF Copies, OneCopy, Remembered
  <1>3. Once
    BY DEF Init, Once
  <1>4. Addressed
    <2>1. sends = <<>> /\ Len(sends) = 0 /\ DOMAIN sends = {}
      BY DEF Init
    <2>2. QED
      BY <2>1, SizeAssumption DEF Addressed
  <1>5. QED
    BY <1>2, <1>3, <1>4 DEF DInv

\* Every step that writes over no live entry keeps the invariant.
LEMMA NextDelivers ==
    ASSUME NoSelfSend, QuietTick, IInv, DInv, [Next]_vars, [KeepsLive]_vars
    PROVE  DInv'
  <1>1. CASE UNCHANGED vars
    BY <1>1, RestDelivers
  <1>2. CASE Next /\ KeepsLive
    BY <1>2, SendDelivers, HandleDelivers, RestDelivers DEF Next
  <1>3. QED
    BY <1>1, <1>2

-----------------------------------------------------------------------------
(* Room in the table.                                                      *)

\* Every valid entry stands for a broadcast that was sent.
FromSends ==
    \A n \in Nodes, i \in Entries : LET e == seen_table[n][i] IN
        e.valid => \E k \in DOMAIN sends :
                      sends[k].dst = All /\ e.src = sends[k].src /\ e.seq = sends[k].seq

\* Among the entries the loop leaves there is a free one, if they stand for fewer
\* broadcasts than there are entries.
LEMMA HasRoom ==
    ASSUME IInv, NEW n \in Nodes, NEW f \in Messages, NEW T \in SUBSET DOMAIN sends,
           IsFiniteSet(T), Cardinality(T) < SeenSize,
           \A i \in Entries : Purged(n, f)[i].valid => \E k \in T :
               seen_table[n][i].src = sends[k].src /\ seen_table[n][i].seq = sends[k].seq
    PROVE  \E i \in Entries : ~Purged(n, f)[i].valid
  <1> SUFFICES ASSUME \A i \in Entries : Purged(n, f)[i].valid PROVE FALSE
    OBVIOUS
  <1> DEFINE Of(i, k) == /\ seen_table[n][i].src = sends[k].src
                         /\ seen_table[n][i].seq = sends[k].seq
             of == [i \in Entries |-> CHOOSE k \in T : Of(i, k)]
  <1>1. \A i \in Entries : seen_table[n][i].valid /\ \E k \in T : Of(i, k)
    BY PurgedFacts
  <1>2. \A i \in Entries : of[i] \in T /\ Of(i, of[i])
    <2> TAKE i \in Entries
    <2>1. (CHOOSE k \in T : Of(i, k)) \in T /\ Of(i, CHOOSE k \in T : Of(i, k))
      <3> HIDE DEF Of
      <3>1. \E k \in T : Of(i, k)
        BY <1>1
      <3>2. QED
        BY <3>1
    <2>2. of[i] = CHOOSE k \in T : Of(i, k)
      OBVIOUS
    <2> HIDE DEF of
    <2>3. QED
      BY <2>1, <2>2
  <1>3. of \in [Entries -> T]
    BY <1>2
  <1>4. IsFiniteSet(Entries) /\ Cardinality(Entries) = SeenSize
    <2>1. SeenSize - 1 \in Int /\ 0 \in Int /\ ~(0 > SeenSize - 1)
      BY SizeAssumption
    <2>2. IsFiniteSet(0..(SeenSize - 1)) /\ Cardinality(0..(SeenSize - 1)) = SeenSize - 1 - 0 + 1
      BY <2>1, FS_Interval
    <2>3. QED
      BY <2>2, SizeAssumption DEF Entries
  <1> HIDE DEF of
  <1>5. \E i, j \in Entries : i # j /\ of[i] = of[j]
    BY <1>3, <1>4, FS_PigeonHole
  <1>6. PICK i \in Entries, j \in Entries : i # j /\ of[i] = of[j]
    BY <1>5
  <1>7. seen_table[n][i].src = seen_table[n][j].src /\ seen_table[n][i].seq = seen_table[n][j].seq
    BY <1>2, <1>6
  <1>8. QED
    BY <1>1, <1>6, <1>7 DEF IInv, SeenUnique

\* A live entry survives router_seen_check_and_add when there is a free place.
LEMMA LiveSurvives ==
    ASSUME IInv, NEW n \in Nodes, NEW f \in Messages, SeenCheckAndAdd(n, f),
           ~Seen(n, f) => \E i \in Entries : ~Purged(n, f)[i].valid
    PROVE  KeepsLive
  <1> DEFINE Alive(o, i) == seen_table[o][i].valid /\ ~Expired(seen_table[o][i])
  <1>1. \A i \in Entries : Alive(n, i) => Purged(n, f)[i] = seen_table[n][i]
    BY DEF Purged
  <1>2. Purged(n, f) \in [Entries -> Entry]
    BY PurgedFacts
  <1>3. ASSUME NEW o \in Nodes, NEW i \in Entries, Alive(o, i)
        PROVE  seen_table'[o][i] = seen_table[o][i]
    <2>1. CASE Seen(n, f)
      <3>1. seen_table' = [seen_table EXCEPT ![n] = Purged(n, f)]
        BY <2>1 DEF SeenCheckAndAdd
      <3>2. QED
        BY <1>1, <1>3, <3>1 DEF IInv, SeenType
    <2>2. CASE ~Seen(n, f)
      <3>1. PICK w \in Entries : /\ WritesAt(n, Purged(n, f), w)
                                 /\ \E new : seen_table' = [seen_table EXCEPT ![n] =
                                                  [Purged(n, f) EXCEPT ![w] = new]]
        BY <2>2 DEF SeenCheckAndAdd
      <3>2. ~Purged(n, f)[w].valid
        BY <2>2, <3>1 DEF WritesAt
      <3>3. CASE o = n
        <4>1. i # w
          BY <1>1, <1>3, <3>2, <3>3
        <4>2. seen_table'[o][i] = Purged(n, f)[i]
          BY <1>2, <3>1, <3>3, <4>1 DEF IInv, SeenType
        <4>3. QED
          BY <1>1, <1>3, <3>3, <4>2
      <3>4. CASE o # n
        BY <3>1, <3>4 DEF IInv, SeenType
      <3>5. QED
        BY <3>3, <3>4
    <2>3. QED
      BY <2>1, <2>2
  <1>4. QED
    BY <1>3 DEF KeepsLive

\* An entry that router_seen_check_and_add leaves stands for an earlier broadcast or
\* for the one it looked at.
LEMMA FromSendsKept ==
    ASSUME IInv, FromSends, NEW n \in Nodes, NEW f \in Messages, SeenCheckAndAdd(n, f),
           f.dst = All, \A k \in DOMAIN sends : k \in DOMAIN sends' /\ sends'[k] = sends[k],
           NEW j \in DOMAIN sends',
           f.src = sends'[j].src, f.seq = sends'[j].seq, f.dst = sends'[j].dst
    PROVE  FromSends'
  <1> DEFINE Known(e) == \E k \in DOMAIN sends' :
                            sends'[k].dst = All /\ e.src = sends'[k].src /\ e.seq = sends'[k].seq
             new == [valid |-> TRUE, src |-> f.src, seq |-> f.seq, timestamp_ms |-> current_ms]
  <1>1. \A o \in Nodes, i \in Entries : seen_table[o][i].valid => Known(seen_table[o][i])
    BY DEF FromSends
  <1>2. Known(new)
    OBVIOUS
  <1>3. /\ Purged(n, f) \in [Entries -> Entry]
        /\ \A i \in Entries : /\ Purged(n, f)[i].src = seen_table[n][i].src
                              /\ Purged(n, f)[i].seq = seen_table[n][i].seq
                              /\ Purged(n, f)[i].valid => seen_table[n][i].valid
    BY PurgedFacts
  <1>4. \A i \in Entries : Purged(n, f)[i].valid => Known(Purged(n, f)[i])
    BY <1>1, <1>3
  <1>5. seen_table' = [seen_table EXCEPT ![n] = Purged(n, f)]
        \/ \E w \in Entries : seen_table' = [seen_table EXCEPT ![n] = [Purged(n, f) EXCEPT ![w] = new]]
    BY DEF SeenCheckAndAdd
  <1> HIDE DEF Known, new
  <1>6. ASSUME NEW o \in Nodes, NEW i \in Entries
        PROVE  seen_table'[o][i] \in {seen_table[o][i], new} \/ (o = n /\ seen_table'[o][i] = Purged(n, f)[i])
    BY <1>3, <1>5 DEF IInv, SeenType
  <1>7. \A o \in Nodes, i \in Entries : seen_table'[o][i].valid => Known(seen_table'[o][i])
    BY <1>1, <1>2, <1>4, <1>6
  <1>8. QED
    BY <1>7 DEF FromSends, Known

\* A table with as many entries as messages are ever sent has room for them all.
LEMMA NextRoom ==
    ASSUME MaxSends <= SeenSize, IInv, DInv, FromSends, [Next]_vars
    PROVE  KeepsLive /\ FromSends'
  <1>1. /\ DOMAIN sends = 1..Len(sends) /\ Len(sends) \in Nat /\ Len(sends) <= MaxSends
        /\ IsFiniteSet(DOMAIN sends) /\ Cardinality(DOMAIN sends) = Len(sends)
    <2>1. DOMAIN sends = 1..Len(sends) /\ Len(sends) \in Nat /\ Len(sends) <= MaxSends
      BY DEF IInv, FrameType, DInv, Addressed
    <2>2. IsFiniteSet(1..Len(sends)) /\ Cardinality(1..Len(sends)) = Len(sends)
      <3>1. \A b \in Nat : IsFiniteSet(1..b) /\ Cardinality(1..b) = b
        <4> TAKE b \in Nat
        <4>1. /\ IsFiniteSet(1..b)
              /\ Cardinality(1..b) = IF 1 > b THEN 0 ELSE b - 1 + 1
          BY FS_Interval
        <4>2. QED
          BY <4>1
      <3>2. QED
        BY <2>1, <3>1
    <2>3. QED
      BY <2>1, <2>2
  <1>2. \A n \in Nodes, f \in Messages, i \in Entries : Purged(n, f)[i].valid =>
           \E k \in DOMAIN sends : /\ sends[k].dst = All
                                   /\ seen_table[n][i].src = sends[k].src
                                   /\ seen_table[n][i].seq = sends[k].seq
    <2> TAKE n \in Nodes, f \in Messages, i \in Entries
    <2> HAVE Purged(n, f)[i].valid
    <2>1. seen_table[n][i].valid
      BY PurgedFacts
    <2>2. QED
      BY <2>1 DEF FromSends
  <1>3. CASE UNCHANGED seen_table /\ \A k \in DOMAIN sends : k \in DOMAIN sends' /\ sends'[k] = sends[k]
    <2>1. KeepsLive
      BY <1>3 DEF KeepsLive
    <2>2. FromSends'
      BY <1>3 DEF FromSends
    <2>3. QED
      BY <2>1, <2>2
  <1>4. ASSUME NEW n \in Nodes, SendBroadcast(n) PROVE KeepsLive /\ FromSends'
    <2>1. PICK f \in Messages : f = Message(n, All) /\ f.dst = All
      BY <1>4, MessageType DEF SendBroadcast, Message
    <2>2. /\ SeenCheckAndAdd(n, f) /\ Len(sends) < MaxSends /\ sends' = Append(sends, f)
      BY <1>4, <2>1 DEF SendBroadcast
    <2>3. Cardinality(DOMAIN sends) < SeenSize
      BY <1>1, <2>2, SizeAssumption
    <2>4. KeepsLive
      BY <1>1, <1>2, <2>2, <2>3, HasRoom, LiveSurvives
    <2>5. /\ \A k \in DOMAIN sends : k \in DOMAIN sends' /\ sends'[k] = sends[k]
          /\ Len(sends) + 1 \in DOMAIN sends' /\ sends'[Len(sends) + 1] = f
      BY <1>1, <2>2 DEF IInv, FrameType
    <2>6. FromSends'
      BY <2>1, <2>2, <2>5, FromSendsKept
    <2>7. QED
      BY <2>4, <2>6
  <1>5. ASSUME NEW n \in Nodes, NEW m \in Nodes, DropSeen(n, m) \/ Flood(n, m)
        PROVE  KeepsLive /\ FromSends'
    <2>1. PICK f \in Messages : f = Frame(n, m) /\ f.dst = All /\ Arrives(n, m)
      BY <1>5, TakenType DEF DropSeen, Flood, IsBroadcast
    <2>2. SeenCheckAndAdd(n, f) /\ sends' = sends
      BY <1>5, <2>1 DEF DropSeen, Flood
    <2>3. /\ f.id \in DOMAIN sends
          /\ f.src = sends[f.id].src /\ f.seq = sends[f.id].seq /\ f.dst = sends[f.id].dst
      BY <2>1, FrameFacts
    <2> DEFINE T == DOMAIN sends \ {f.id}
    <2>4. T \in SUBSET DOMAIN sends /\ IsFiniteSet(T) /\ Cardinality(T) = Len(sends) - 1
      BY <1>1, <2>3, FS_RemoveElement
    <2>5. Cardinality(T) < SeenSize
      BY <1>1, <2>4, SizeAssumption
    <2>6. ASSUME ~Seen(n, f), NEW i \in Entries, Purged(n, f)[i].valid
          PROVE  \E k \in T : /\ seen_table[n][i].src = sends[k].src
                              /\ seen_table[n][i].seq = sends[k].seq
      <3>1. PICK k \in DOMAIN sends : /\ seen_table[n][i].src = sends[k].src
                                      /\ seen_table[n][i].seq = sends[k].seq
        BY <1>2, <2>6
      <3>2. seen_table[n][i].valid /\ ~Expired(seen_table[n][i])
        BY <2>6, PurgedFacts
      <3>3. k # f.id
        BY <2>3, <2>6, <3>1, <3>2 DEF Seen, Remembers
      <3>4. QED
        BY <3>1, <3>3
    <2> HIDE DEF T
    <2>7. KeepsLive
      BY <2>2, <2>4, <2>5, <2>6, HasRoom, LiveSurvives
    <2>8. FromSends'
      BY <2>1, <2>2, <2>3, FromSendsKept
    <2>9. QED
      BY <2>7, <2>8
  <1>6. ASSUME NEW n \in Nodes, NEW d \in Nodes, SendUnicast(n, d) PROVE KeepsLive /\ FromSends'
    <2>1. PICK f \in Messages : f = Message(n, d)
      BY <1>6, MessageType DEF SendUnicast
    <2>2. UNCHANGED seen_table /\ sends' = Append(sends, f)
      BY <1>6, <2>1 DEF SendUnicast
    <2>3. \A k \in DOMAIN sends : k \in DOMAIN sends' /\ sends'[k] = sends[k]
      BY <1>1, <2>2 DEF IInv, FrameType
    <2>4. QED
      BY <1>3, <2>2, <2>3
  <1>7. ASSUME NEW n \in Nodes, NEW m \in Nodes, Handle(n, m) PROVE KeepsLive /\ FromSends'
    BY <1>3, <1>5, <1>7 DEF Handle, DropTtl, Receive, DropNoRoute, Forward
  <1>8. ASSUME \/ \E n, m \in Nodes : PortRegister(n, m)
               \/ \E n \in Nodes : TableSet(n)
               \/ Tick \/ UNCHANGED vars
        PROVE  KeepsLive /\ FromSends'
    BY <1>3, <1>8 DEF PortRegister, TableSet, Tick, vars
  <1>9. QED
    BY <1>4, <1>6, <1>7, <1>8 DEF Next

\* The invariant gives what the property asks.
LEMMA OnceDelivered == IInv /\ DInv => DeliverOnce
  <1> SUFFICES ASSUME IInv, DInv, NEW k \in DOMAIN sends, NEW n \in Nodes
               PROVE  /\ delivered[n][k] <= 1
                      /\ delivered[n][k] > 0 => n # sends[k].src /\ sends[k].dst \in {All, n}
    BY DEF DeliverOnce
  <1>1. k \in Ids
    BY SizeAssumption DEF DInv, Addressed, IInv, FrameType, Ids
  <1>2. delivered[n][k] \in {0, 1}
    BY <1>1 DEF DInv, Once
  <1>3. QED
    BY <1>1, <1>2 DEF DInv, Once

\* In any network, over whatever paths the copies come: as long as no node's table runs
\* over while it still needs what it writes over, a broadcast is delivered at most once
\* by a node and not at all by its sender, and a unicast frame by its destination alone.
THEOREM OnceWithRoom ==
    ASSUME NoSelfSend, QuietTick
    PROVE  Spec /\ [][KeepsLive]_vars => []DeliverOnce
  <1>1. IInv /\ DInv /\ [Next]_vars /\ [KeepsLive]_vars => DInv'
    BY NextDelivers
  <1>2. QED
    BY <1>1, InitDelivers, Invariant, OnceDelivered, PTL DEF Spec

\* A table with an entry for each message ever sent never runs over.
THEOREM RoomForAll ==
    ASSUME NoSelfSend, QuietTick, MaxSends <= SeenSize
    PROVE  Spec => [][KeepsLive]_vars
  <1>1. IInv /\ DInv /\ FromSends /\ [Next]_vars => KeepsLive /\ FromSends'
    BY NextRoom
  <1>2. IInv /\ DInv /\ [Next]_vars /\ [KeepsLive]_vars => DInv'
    BY NextDelivers
  <1>3. Init => FromSends
    BY DEF Init, FromSends
  <1>4. QED
    BY <1>1, <1>2, <1>3, InitDelivers, Invariant, PTL DEF Spec

\* So each message is delivered at most once, whatever network is built.
THEOREM DeliveredOnce ==
    ASSUME NoSelfSend, QuietTick, MaxSends <= SeenSize
    PROVE  Spec => []DeliverOnce
  <1>1. QED
    BY OnceWithRoom, RoomForAll, PTL
=============================================================================
