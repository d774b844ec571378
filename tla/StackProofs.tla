---------------------------- MODULE StackProofs -----------------------------
(***************************************************************************)
(* Why a node that asks one node only is understood, if its requests arrive*)
(* in turn: for any nodes, slots, broadcasts, and any messages lost,       *)
(* repeated, late or not sent.                                             *)
(***************************************************************************)
EXTENDS RouteStack, FiniteSetTheorems, SequenceTheorems, TLAPS

-----------------------------------------------------------------------------
(* The inductive invariant.                                                *)

SlotType ==
    {Idle} \cup [state : {"WAITING"}, req : Requests, seq : 0..(SeqMod - 1)]

MessageType ==
    [type : {"REQUEST", "RESPONSE"}, trans_id : Slots, seq : 0..(SeqMod - 1),
     for : Requests \cup {All}]

\* The types the argument needs.
StackType ==
    /\ seq_counter \in [Nodes -> 0..(SeqMod - 1)]
    /\ bcast_seq_counter \in [Nodes -> 0..(SeqMod - 1)]
    /\ trans_table \in [Nodes -> [Slots -> SlotType]]
    /\ \A n \in Nodes, i \in Slots :
          trans_table[n][i].state = "WAITING" => trans_table[n][i].req.src = n
    /\ link \in [Links -> Seq(MessageType)]
    /\ new \subseteq Requests
    /\ uses \in [Nodes -> SUBSET ({"request", "reply"} \X (Nodes \cup {All}))]

Back(l) == <<l[2], l[1]>>

\* A message that is no broadcast is about a request made, under way from the node
\* that asks to the node asked or, with the reply, back.
Routed ==
    \A l \in Links : \A p \in 1..Len(link[l]) : LET f == link[l][p] IN
        f.for # All => /\ f.for \in Requests \ new
                       /\ <<f.for.src, f.for.dst>> = IF f.type = "REQUEST" THEN l ELSE Back(l)

\* The requests a node has made.
Made(n) == {r \in Requests \ new : r.src = n}

\* What a counter shows that was moved k times.
Shown(k) == k % SeqMod

\* The requests of a node that asks along l have numbers: they count them.
Numbers(l, num) ==
    /\ IsFiniteSet(Made(l[1])) /\ seq_counter[l[1]] = Shown(Cardinality(Made(l[1])))
    /\ \A r \in Made(l[1]) : r.dst = l[2] /\ num[r] < Cardinality(Made(l[1]))
    /\ \A r, q \in Made(l[1]) : num[r] = num[q] => r = q

\* A slot that waits knows the number of its request.
Waiting(n, num) ==
    \A i \in Slots : LET s == trans_table[n][i] IN
        s.state = "WAITING" => s.req \in Made(n) /\ s.seq = Shown(num[s.req])

\* A message names a slot that was given to no earlier request than its own since.
Current(table, f, num) ==
    LET s == table[f.trans_id] IN
    s.state = "WAITING" => num[f.for] <= num[s.req]

\* The requests under way have rising numbers, none of which the replies have passed.
Asking(l, num, replied) ==
    /\ \A p \in 1..Len(link[l]) : LET f == link[l][p] IN
          /\ f.type = "REQUEST"
          /\ f.for # All => replied <= num[f.for] /\ Current(trans_table[l[1]], f, num)
    /\ \A p, q \in 1..Len(link[l]) :
          p < q /\ link[l][p].for # All /\ link[l][q].for # All
             => num[link[l][p].for] < num[link[l][q].for]

\* The replies under way have numbers no higher than their requests.
Telling(l, num) ==
    \A p \in 1..Len(link[Back(l)]) : LET f == link[Back(l)][p] IN
        f.type = "RESPONSE" => /\ f.for \in Made(l[1])
                               /\ \E k \in 0..num[f.for] : f.seq = Shown(k)
                               /\ Current(trans_table[l[1]], f, num)

\* Where no request was lost, the replies count as the requests do.
Exact(l, num, replied) ==
    /\ \A p \in 1..Len(link[l]) : (\A q \in 1..p : link[l][q].for # All)
          => num[link[l][p].for] = replied + p - 1
    /\ (\A p \in 1..Len(link[l]) : link[l][p].for # All)
          => Cardinality(Made(l[1])) = replied + Len(link[l])
    /\ \A p \in 1..Len(link[Back(l)]) : LET f == link[Back(l)][p] IN
          f.type = "RESPONSE" => f.seq = Shown(num[f.for])

InOrder(l, num, replied) ==
    /\ Numbers(l, num)
    /\ seq_counter[l[2]] = Shown(replied) /\ replied <= Cardinality(Made(l[1]))
    /\ Waiting(l[1], num)
    /\ Asking(l, num, replied)
    /\ Telling(l, num)
    /\ <<"lost", l>> \notin disturbed => Exact(l, num, replied)

\* The numbers that count the requests are not part of the state: there are such.
Ordered ==
    \A l \in Links : Exclusive(l) /\ InTurn(l) =>
        \E num \in [Requests -> Nat], replied \in Nat : InOrder(l, num, replied)

-----------------------------------------------------------------------------
(* Types.                                                                  *)

\* The head of a link is a message, and what follows it a link's contents.
LEMMA Polled ==
    ASSUME StackType, NEW l \in Links, link[l] # <<>>
    PROVE  /\ Head(link[l]) \in MessageType
           /\ Tail(link[l]) \in Seq(MessageType)
           /\ Len(link[l]) \in Nat \ {0}
           /\ Head(link[l]) = link[l][1]
           /\ Len(Tail(link[l])) = Len(link[l]) - 1
           /\ \A p \in 1..(Len(link[l]) - 1) : Tail(link[l])[p] = link[l][p + 1]
  <1>1. link[l] \in Seq(MessageType)
    BY DEF StackType
  <1>2. QED
    BY <1>1, HeadTailProperties

\* A message appended is the last one; the others keep their places.
LEMMA Appended ==
    ASSUME NEW q \in Seq(MessageType), NEW f \in MessageType
    PROVE  /\ Append(q, f) \in Seq(MessageType)
           /\ Len(Append(q, f)) = Len(q) + 1 /\ Len(q) \in Nat
           /\ \A p \in 1..Len(q) : Append(q, f)[p] = q[p]
           /\ Append(q, f)[Len(q) + 1] = f
  BY AppendProperties

\* The counters stay within their width.
LEMMA IncrementType == \A k \in 0..(SeqMod - 1) : Increment(k) \in 0..(SeqMod - 1)
  BY SizeAssumption DEF Increment

\* A request takes a slot, a number and a place at the end of its link.
LEMMA SentType ==
    ASSUME StackType, NEW r \in Requests, SendRequest(r)
    PROVE  StackType'
  <1>1. PICK i \in Slots :
           /\ r \in new
           /\ trans_table' = [trans_table EXCEPT ![r.src][i] =
                 [state |-> "WAITING", req |-> r, seq |-> seq_counter[r.src]]]
           /\ seq_counter' = [seq_counter EXCEPT ![r.src] = Increment(@)]
           /\ link' = [link EXCEPT ![<<r.src, r.dst>>] =
                 Append(@, Message("REQUEST", i, seq_counter[r.src], r))]
           /\ uses' = [uses EXCEPT ![r.src] = @ \cup {<<"request", r.dst>>}]
           /\ new' = new \ {r}
           /\ UNCHANGED bcast_seq_counter
    BY DEF SendRequest
  <1>2. <<r.src, r.dst>> \in Links /\ r.src \in Nodes /\ r.dst \in Nodes
    BY NameAssumption DEF Links
  <1>3. seq_counter[r.src] \in 0..(SeqMod - 1)
    BY <1>2 DEF StackType
  <1>4. Message("REQUEST", i, seq_counter[r.src], r) \in MessageType
    BY <1>3 DEF Message, MessageType
  <1>5. link' \in [Links -> Seq(MessageType)]
    BY <1>1, <1>2, <1>4, Appended DEF StackType
  <1>6. [state |-> "WAITING", req |-> r, seq |-> seq_counter[r.src]] \in SlotType
    BY <1>3 DEF SlotType
  <1>7. /\ trans_table' \in [Nodes -> [Slots -> SlotType]]
        /\ \A n \in Nodes, j \in Slots :
              trans_table'[n][j].state = "WAITING" => trans_table'[n][j].req.src = n
    BY <1>1, <1>2, <1>6 DEF StackType
  <1>8. seq_counter' \in [Nodes -> 0..(SeqMod - 1)]
    BY <1>1, <1>3, IncrementType DEF StackType
  <1>9. uses' \in [Nodes -> SUBSET ({"request", "reply"} \X (Nodes \cup {All}))]
    BY <1>1, <1>2 DEF StackType
  <1>10. QED
    BY <1>1, <1>5, <1>7, <1>8, <1>9 DEF StackType

\* A request that arrives is answered with a number of the replier's.
LEMMA RepliedType ==
    ASSUME StackType, NEW n \in Nodes, NEW m \in Nodes, OnRequest(n, m)
    PROVE  StackType'
  <1> DEFINE f == Head(link[<<m, n>>])
             g == Message("RESPONSE", f.trans_id, ReplyNumber(n), f.for)
  <1>1. <<m, n>> \in Links /\ <<n, m>> \in Links /\ link[<<m, n>>] # <<>>
    BY DEF OnRequest, Polls, Links
  <1>2. f \in MessageType /\ Tail(link[<<m, n>>]) \in Seq(MessageType)
    BY <1>1, Polled
  <1>3. g \in MessageType
    BY <1>2 DEF StackType, MessageType, Message, ReplyNumber
  <1>4. Taken(n, m) \in [Links -> Seq(MessageType)]
    BY <1>2 DEF Taken, StackType
  <1>5. link' = [Taken(n, m) EXCEPT ![<<n, m>>] = Append(@, g)]
    BY DEF OnRequest
  <1> HIDE DEF g
  <1>6. link' \in [Links -> Seq(MessageType)]
    BY <1>1, <1>3, <1>4, <1>5, Appended
  <1>7. seq_counter' \in [Nodes -> 0..(SeqMod - 1)]
    BY IncrementType DEF OnRequest, StackType
  <1>8. uses' \in [Nodes -> SUBSET ({"request", "reply"} \X (Nodes \cup {All}))]
    BY DEF OnRequest, StackType
  <1>9. QED
    BY <1>6, <1>7, <1>8 DEF OnRequest, StackType

\* A message taken from a link leaves a link's contents.
LEMMA TakenType ==
    ASSUME StackType, NEW l \in Links, link[l] # <<>>
    PROVE  [link EXCEPT ![l] = Tail(@)] \in [Links -> Seq(MessageType)]
  BY Polled DEF StackType

\* A message that others overtake leaves a link's contents.
LEMMA BehindType ==
    ASSUME NEW q \in Seq(MessageType), NEW p \in 2..Len(q)
    PROVE  /\ Behind(q, p) \in Seq(MessageType) /\ Len(Behind(q, p)) = Len(q)
           /\ \A k \in 1..Len(q) : \E j \in 1..Len(q) : Behind(q, p)[k] = q[j]
  <1>1. PICK n \in Nat : n = Len(q)
    OBVIOUS
  <1>2. \A k \in 1..n : q[k] \in MessageType
    BY <1>1, ElementOfSeq
  <1>3. Behind(q, p) =
           [k \in 1..n |-> IF k < p THEN q[k + 1] ELSE IF k = p THEN q[1] ELSE q[k]]
    BY <1>1 DEF Behind
  <1>4. ASSUME NEW k \in 1..n PROVE \E j \in 1..n : Behind(q, p)[k] = q[j]
    <2>1. CASE k < p
      <3>1. k + 1 \in 1..n /\ Behind(q, p)[k] = q[k + 1]
        BY <1>1, <1>3, <2>1
      <3>2. QED
        BY <3>1
    <2>2. CASE k = p
      <3>1. 1 \in 1..n /\ Behind(q, p)[k] = q[1]
        BY <1>1, <1>3, <2>2
      <3>2. QED
        BY <3>1
    <2>3. CASE k > p
      BY <1>1, <1>3, <2>3
    <2>4. QED
      BY <1>1, <2>1, <2>2, <2>3
  <1>5. Behind(q, p) \in [1..n -> MessageType]
    BY <1>2, <1>3, <1>4
  <1>6. Behind(q, p) \in Seq(MessageType) /\ Len(Behind(q, p)) = n
    BY <1>5
  <1>7. QED
    BY <1>1, <1>4, <1>6

\* A slot given up is idle.
LEMMA IdledType ==
    ASSUME StackType, NEW n \in Nodes, NEW i, trans_table' = [trans_table EXCEPT ![n][i] = Idle]
    PROVE  /\ trans_table' \in [Nodes -> [Slots -> SlotType]]
           /\ \A m \in Nodes, j \in Slots :
                 trans_table'[m][j].state = "WAITING" => trans_table'[m][j].req.src = m
  <1>1. Idle \in SlotType /\ Idle.state = "IDLE"
    BY DEF SlotType, Idle
  <1>2. QED
    BY <1>1 DEF StackType

\* Every step keeps the types.
LEMMA NextType == StackType /\ [Next]_vars => StackType'
  <1> SUFFICES ASSUME StackType, [Next]_vars PROVE StackType'
    OBVIOUS
  <1>1. ASSUME NEW r \in Requests, SendRequest(r) PROVE StackType'
    BY <1>1, SentType
  <1>2. ASSUME NEW n \in Broadcasters, Broadcast(n) PROVE StackType'
    <2>1. Message("REQUEST", 0, bcast_seq_counter[n], All) \in MessageType
      BY SizeAssumption DEF StackType, MessageType, Message, Slots
    <2>2. link' \in [Links -> Seq(MessageType)]
      BY <1>2, <2>1, Appended DEF Broadcast, StackType
    <2>3. bcast_seq_counter' \in [Nodes -> 0..(SeqMod - 1)]
      BY <1>2, SizeAssumption, IncrementType DEF Broadcast, StackType
    <2>4. QED
      BY <1>2, <2>2, <2>3 DEF Broadcast, StackType
  <1>3. ASSUME NEW n \in Nodes, NEW m \in Nodes, OnRequest(n, m) PROVE StackType'
    BY <1>3, RepliedType
  <1>4. ASSUME NEW n \in Nodes, NEW m \in Nodes, Accept(n, m) PROVE StackType'
    <2>1. link' \in [Links -> Seq(MessageType)]
      BY <1>4, TakenType DEF Accept, Polls, Taken
    <2>2. QED
      BY <1>4, <2>1, IdledType DEF Accept, StackType
  <1>5. ASSUME NEW n \in Nodes, NEW m \in Nodes, Refuse(n, m) PROVE StackType'
    <2>1. link' \in [Links -> Seq(MessageType)]
      BY <1>5, TakenType DEF Refuse, Polls, Taken
    <2>2. QED
      BY <1>5, <2>1 DEF Refuse, StackType
  <1>6. ASSUME NEW n \in Nodes, NEW i \in Slots, TimeOut(n, i) PROVE StackType'
    BY <1>6, IdledType DEF TimeOut, StackType
  <1>7. ASSUME NEW l \in Links, Lose(l) PROVE StackType'
    BY <1>7, TakenType DEF Lose, Befalls, Disturb, StackType
  <1>8. ASSUME NEW l \in Links, Repeat(l) PROVE StackType'
    <2>1. Head(link[l]) \in MessageType
      BY <1>8, Polled DEF Repeat, Befalls
    <2>2. link' \in [Links -> Seq(MessageType)]
      BY <1>8, <2>1, Appended DEF Repeat, Befalls, StackType
    <2>3. QED
      BY <1>8, <2>2 DEF Repeat, Befalls, StackType
  <1>9. ASSUME NEW l \in Links, Late(l) PROVE StackType'
    <2>1. PICK p \in 2..Len(link[l]) : Befalls(l, "late", Behind(link[l], p))
      BY <1>9 DEF Late
    <2>2. Behind(link[l], p) \in Seq(MessageType)
      BY BehindType DEF StackType
    <2>3. QED
      BY <2>1, <2>2 DEF Befalls, StackType
  <1>10. ASSUME NEW r \in Requests, SendFails(r) PROVE StackType'
    <2>1. r.src \in Nodes /\ r.dst \in Nodes
      BY NameAssumption DEF Links
    <2>2. seq_counter' \in [Nodes -> 0..(SeqMod - 1)]
      BY <1>10, <2>1, IncrementType DEF SendFails, StackType
    <2>3. uses' \in [Nodes -> SUBSET ({"request", "reply"} \X (Nodes \cup {All}))]
      BY <1>10, <2>1 DEF SendFails, StackType
    <2>4. QED
      BY <1>10, <2>2, <2>3 DEF SendFails, StackType
  <1>11. CASE UNCHANGED vars
    BY <1>11 DEF vars, StackType
  <1>12. QED
    BY <1>1, <1>2, <1>3, <1>4, <1>5, <1>6, <1>7, <1>8, <1>9, <1>10, <1>11 DEF Next

\* At first every slot is idle and every link empty.
LEMMA InitType == Init => StackType
  <1> SUFFICES ASSUME Init PROVE StackType
    OBVIOUS
  <1>1. Idle \in SlotType /\ Idle.state = "IDLE"
    BY DEF SlotType, Idle
  <1>2. 0 \in 0..(SeqMod - 1)
    BY SizeAssumption
  <1>3. <<>> \in Seq(MessageType)
    OBVIOUS
  <1>4. QED
    BY <1>1, <1>2, <1>3 DEF Init, StackType

\* The counters keep their width, and a table holds requests of its node only.
THEOREM TypeCorrect == Spec => []TypeOK
  <1>1. StackType => TypeOK
    <2> SUFFICES ASSUME StackType PROVE TypeOK
      OBVIOUS
    <2>1. ASSUME NEW n \in Nodes, NEW i \in Slots
          PROVE  LET s == trans_table[n][i] IN
                 /\ s.seq \in 0..(SeqMod - 1)
                 /\ s = Idle \/ (s.state = "WAITING" /\ s.req \in Requests /\ s.req.src = n)
      <3>1. trans_table[n][i] \in SlotType
        BY DEF StackType
      <3>2. Idle.seq = 0 /\ 0 \in 0..(SeqMod - 1)
        BY SizeAssumption DEF Idle
      <3>3. QED
        BY <3>1, <3>2 DEF StackType, SlotType
    <2>2. QED
      BY <2>1 DEF StackType, TypeOK
  <1>2. QED
    BY <1>1, InitType, NextType, PTL DEF Spec
-----------------------------------------------------------------------------
(* The links.                                                              *)

\* A link whose first message was taken: the others are one place further to the front.
Shorter(l) ==
    /\ Len(link[l]) \in Nat \ {0} /\ Len(link'[l]) = Len(link[l]) - 1
    /\ \A p \in 1..Len(link'[l]) : p + 1 \in 1..Len(link[l]) /\ link'[l][p] = link[l][p + 1]

\* A link at whose end f was put.
Longer(l, f) ==
    /\ Len(link[l]) \in Nat /\ Len(link'[l]) = Len(link[l]) + 1
    /\ \A p \in 1..Len(link[l]) : link'[l][p] = link[l][p]
    /\ link'[l][Len(link[l]) + 1] = f

\* All links but those in L are as they were.
Same(L) == \A l \in Links \ L : link'[l] = link[l]

\* What taking a message does to the links.
LEMMA TakenLinks ==
    ASSUME StackType, NEW l \in Links, link[l] # <<>>, link' = [link EXCEPT ![l] = Tail(@)]
    PROVE  Shorter(l) /\ Same({l})
  <1>1. link'[l] = Tail(link[l])
    BY DEF StackType
  <1>2. QED
    BY <1>1, Polled DEF Shorter, Same, StackType

\* What a request does to the links.
LEMMA SentLinks ==
    ASSUME StackType, NEW l \in Links, NEW f \in MessageType, link' = [link EXCEPT ![l] = Append(@, f)]
    PROVE  Longer(l, f) /\ Same({l})
  <1>1. link'[l] = Append(link[l], f) /\ link[l] \in Seq(MessageType)
    BY DEF StackType
  <1>2. QED
    BY <1>1, Appended DEF Longer, Same, StackType

\* A link that holds what it held, in whatever order.
Shuffled(l) ==
    \A p \in 1..Len(link'[l]) : \E q \in 1..Len(link[l]) : link'[l][p] = link[l][q]

\* What a late message does to the links.
LEMMA LateLinks ==
    ASSUME StackType, NEW l \in Links, Late(l)
    PROVE  /\ Shuffled(l) /\ Same({l}) /\ <<"late", l>> \in disturbed'
           /\ UNCHANGED <<seq_counter, trans_table, new>>
  <1>1. PICK p \in 2..Len(link[l]) : Befalls(l, "late", Behind(link[l], p))
    BY DEF Late
  <1>2. link[l] \in Seq(MessageType) /\ link'[l] = Behind(link[l], p)
    BY <1>1 DEF Befalls, StackType
  <1>3. /\ Len(link'[l]) = Len(link[l])
        /\ \A k \in 1..Len(link[l]) : \E j \in 1..Len(link[l]) : link'[l][k] = link[l][j]
    <2>1. PICK q \in Seq(MessageType) : q = link[l]
      BY <1>2
    <2>2. /\ Len(Behind(q, p)) = Len(q)
          /\ \A k \in 1..Len(q) : \E j \in 1..Len(q) : Behind(q, p)[k] = q[j]
      BY <2>1, BehindType
    <2>3. QED
      BY <1>2, <2>1, <2>2
  <1>4. Shuffled(l)
    BY <1>3 DEF Shuffled
  <1>5. QED
    BY <1>1, <1>4 DEF Befalls, Disturb, Same, StackType

\* What a broadcast does to the links.
LEMMA BroadcastLinks ==
    ASSUME StackType, NEW n \in Nodes, Broadcast(n)
    PROVE  /\ \A l \in Links : l[1] = n =>
                  Longer(l, Message("REQUEST", 0, bcast_seq_counter[n], All))
           /\ Same({l \in Links : l[1] = n})
  <1> DEFINE f == Message("REQUEST", 0, bcast_seq_counter[n], All)
  <1>1. f \in MessageType
    BY SizeAssumption DEF StackType, MessageType, Message, Slots
  <1> HIDE DEF f
  <1>2. \A l \in Links : link'[l] = IF l[1] = n THEN Append(link[l], f) ELSE link[l]
    BY DEF Broadcast, f
  <1>3. \A l \in Links : link[l] \in Seq(MessageType)
    BY DEF StackType
  <1>4. ASSUME NEW l \in Links, l[1] = n PROVE Longer(l, f)
    <2>1. link'[l] = Append(link[l], f) /\ link[l] \in Seq(MessageType)
      BY <1>2, <1>3, <1>4
    <2>2. QED
      BY <1>1, <2>1, Appended DEF Longer
  <1>5. QED
    BY <1>2, <1>4 DEF Same, f

\* What answering a request does to the links.
LEMMA RepliedLinks ==
    ASSUME StackType, NEW n \in Nodes, NEW m \in Nodes, OnRequest(n, m)
    PROVE  LET f == link[<<m, n>>][1] IN
           /\ <<m, n>> \in Links /\ <<n, m>> \in Links
           /\ f \in MessageType /\ f.type = "REQUEST"
           /\ Shorter(<<m, n>>)
           /\ Longer(<<n, m>>, Message("RESPONSE", f.trans_id, seq_counter[n], f.for))
           /\ Same({<<m, n>>, <<n, m>>})
  <1> DEFINE f == Head(link[<<m, n>>])
             g == Message("RESPONSE", f.trans_id, ReplyNumber(n), f.for)
  <1>1. <<m, n>> \in Links /\ <<n, m>> \in Links /\ link[<<m, n>>] # <<>> /\ <<m, n>> # <<n, m>>
    BY DEF OnRequest, Polls, Links
  <1>2. f \in MessageType /\ f = link[<<m, n>>][1]
    BY <1>1, Polled
  <1>3. g \in MessageType
    BY <1>2 DEF StackType, MessageType, Message, ReplyNumber
  <1>4. link' = [[link EXCEPT ![<<m, n>>] = Tail(@)] EXCEPT ![<<n, m>>] = Append(@, g)]
    BY DEF OnRequest, Taken
  <1>5. f.type = "REQUEST"
    BY DEF OnRequest, Polls
  <1> HIDE DEF f, g
  <1>6. link'[<<m, n>>] = Tail(link[<<m, n>>]) /\ link'[<<n, m>>] = Append(link[<<n, m>>], g)
    BY <1>1, <1>4 DEF StackType
  <1>7. Shorter(<<m, n>>)
    BY <1>1, <1>6, Polled DEF Shorter
  <1>8. link[<<n, m>>] \in Seq(MessageType)
    BY <1>1 DEF StackType
  <1>9. Longer(<<n, m>>, g)
    BY <1>3, <1>6, <1>8, Appended DEF Longer
  <1>10. Same({<<m, n>>, <<n, m>>})
    BY <1>4 DEF Same, StackType
  <1>11. QED
    BY <1>1, <1>2, <1>5, <1>7, <1>9, <1>10 DEF g, ReplyNumber

\* A message is where it belongs.
RoutedOn(l, f, made) ==
    f.for # All => /\ f.for \in made
                   /\ <<f.for.src, f.for.dst>> = IF f.type = "REQUEST" THEN l ELSE Back(l)

\* Links that lose their first message or gain one that belongs there are in order.
LEMMA RoutedLinks ==
    ASSUME Routed, new' \subseteq new,
           \A l \in Links : \A p \in 1..Len(link'[l]) :
              \/ \E q \in 1..Len(link[l]) : link'[l][p] = link[l][q]
              \/ RoutedOn(l, link'[l][p], Requests \ new')
    PROVE  Routed'
  <1> SUFFICES ASSUME NEW l \in Links, NEW p \in 1..Len(link'[l])
               PROVE  RoutedOn(l, link'[l][p], Requests \ new')
    BY DEF Routed, RoutedOn
  <1>1. CASE \E q \in 1..Len(link[l]) : link'[l][p] = link[l][q]
    <2>1. PICK q \in 1..Len(link[l]) : link'[l][p] = link[l][q]
      BY <1>1
    <2>2. RoutedOn(l, link[l][q], Requests \ new)
      BY DEF Routed, RoutedOn
    <2>3. QED
      BY <2>1, <2>2 DEF RoutedOn
  <1>2. QED
    BY <1>1

\* Every step leaves the messages where they belong.
LEMMA NextRouted == StackType /\ Routed /\ [Next]_vars => Routed'
  <1> SUFFICES ASSUME StackType, Routed, [Next]_vars PROVE Routed'
    OBVIOUS
  <1> DEFINE Old(l, p) == \E q \in 1..Len(link[l]) : link'[l][p] = link[l][q]
  <1>a. \A L : Same(L) => \A l \in Links \ L : \A p \in 1..Len(link'[l]) : Old(l, p)
    BY DEF Same
  <1>b. \A l : Shorter(l) => \A p \in 1..Len(link'[l]) : Old(l, p)
    BY DEF Shorter
  <1>c. \A l, f : Longer(l, f) => \A p \in 1..Len(link'[l]) : Old(l, p) \/ link'[l][p] = f
    BY DEF Longer
  <1>d. ASSUME new' \subseteq new,
               \A l \in Links : \A p \in 1..Len(link'[l]) : Old(l, p) \/ RoutedOn(l, link'[l][p], Requests \ new')
        PROVE  Routed'
    BY <1>d, RoutedLinks
  <1> HIDE DEF Old
  <1>1. ASSUME NEW r \in Requests, SendRequest(r) PROVE Routed'
    <2>1. PICK i \in Slots :
             /\ r \in new /\ new' = new \ {r}
             /\ link' = [link EXCEPT ![<<r.src, r.dst>>] =
                   Append(@, Message("REQUEST", i, seq_counter[r.src], r))]
      BY <1>1 DEF SendRequest
    <2> DEFINE f == Message("REQUEST", i, seq_counter[r.src], r)
    <2>2. <<r.src, r.dst>> \in Links
      BY NameAssumption
    <2>3. f \in MessageType
      BY <2>2 DEF StackType, Message, MessageType, Links
    <2>4. Longer(<<r.src, r.dst>>, f) /\ Same({<<r.src, r.dst>>})
      BY <2>1, <2>2, <2>3, SentLinks
    <2>5. f.for = r /\ f.type = "REQUEST"
      BY DEF Message
    <2> HIDE DEF f
    <2>6. RoutedOn(<<r.src, r.dst>>, f, Requests \ new')
      BY <2>1, <2>5 DEF RoutedOn
    <2>7. QED
      BY <1>a, <1>c, <1>d, <2>1, <2>4, <2>6
  <1>2. ASSUME NEW n \in Nodes, Broadcast(n) PROVE Routed'
    <2> DEFINE f == Message("REQUEST", 0, bcast_seq_counter[n], All)
    <2>1. f.for = All
      BY DEF Message
    <2>2. /\ \A l \in Links : l[1] = n => Longer(l, f)
          /\ Same({l \in Links : l[1] = n})
      BY <1>2, BroadcastLinks
    <2> HIDE DEF f
    <2>3. \A l \in Links : RoutedOn(l, f, Requests \ new')
      BY <2>1 DEF RoutedOn
    <2>4. new' = new
      BY <1>2 DEF Broadcast
    <2>5. ASSUME NEW l \in Links, NEW p \in 1..Len(link'[l])
          PROVE  Old(l, p) \/ RoutedOn(l, link'[l][p], Requests \ new')
      <3>1. CASE l[1] = n
        <4>1. Old(l, p) \/ link'[l][p] = f
          BY <1>c, <2>2, <3>1
        <4>2. QED
          BY <2>3, <4>1
      <3>2. CASE l[1] # n
        BY <1>a, <2>2, <3>2
      <3>3. QED
        BY <3>1, <3>2
    <2>6. QED
      BY <1>d, <2>4, <2>5
  <1>3. ASSUME NEW n \in Nodes, NEW m \in Nodes, OnRequest(n, m) PROVE Routed'
    <2> DEFINE f == link[<<m, n>>][1]
               g == Message("RESPONSE", f.trans_id, seq_counter[n], f.for)
    <2>1. /\ <<m, n>> \in Links /\ <<n, m>> \in Links
          /\ f.type = "REQUEST"
          /\ Shorter(<<m, n>>) /\ Longer(<<n, m>>, g) /\ Same({<<m, n>>, <<n, m>>})
      BY <1>3, RepliedLinks
    <2>2. RoutedOn(<<m, n>>, f, Requests \ new)
      BY <2>1 DEF Routed, RoutedOn, Shorter
    <2>3. g.for = f.for /\ g.type = "RESPONSE"
      BY DEF Message
    <2>4. new' = new
      BY <1>3 DEF OnRequest
    <2> HIDE DEF f, g
    <2>5. RoutedOn(<<n, m>>, g, Requests \ new')
      BY <2>1, <2>2, <2>3, <2>4 DEF RoutedOn, Back
    <2>6. \A p \in 1..Len(link'[<<m, n>>]) : Old(<<m, n>>, p)
      BY <1>b, <2>1
    <2>7. \A p \in 1..Len(link'[<<n, m>>]) : Old(<<n, m>>, p) \/ link'[<<n, m>>][p] = g
      BY <1>c, <2>1
    <2>8. \A l \in Links \ {<<m, n>>, <<n, m>>} : \A p \in 1..Len(link'[l]) : Old(l, p)
      BY <1>a, <2>1
    <2>9. ASSUME NEW l \in Links, NEW p \in 1..Len(link'[l])
          PROVE  Old(l, p) \/ RoutedOn(l, link'[l][p], Requests \ new')
      <3>1. CASE l = <<m, n>>
        BY <2>6, <3>1, Zenon
      <3>2. CASE l = <<n, m>>
        BY <2>5, <2>7, <3>2, Zenon
      <3>3. CASE l \notin {<<m, n>>, <<n, m>>}
        BY <2>8, <3>3
      <3>4. QED
        BY <3>1, <3>2, <3>3
    <2>10. QED
      BY <1>d, <2>4, <2>9
  <1>4. ASSUME NEW l \in Links, link[l] # <<>>, link' = [link EXCEPT ![l] = Tail(@)], new' = new
        PROVE  Routed'
    <2>1. Shorter(l) /\ Same({l})
      BY <1>4, TakenLinks
    <2>2. \A k \in Links : \A p \in 1..Len(link'[k]) : Old(k, p)
      BY <1>a, <1>b, <2>1
    <2>3. QED
      BY <1>4, <1>d, <2>2
  <1>5. ASSUME NEW n \in Nodes, NEW m \in Nodes, Accept(n, m) \/ Refuse(n, m) PROVE Routed'
    BY <1>4, <1>5 DEF Accept, Refuse, Polls, Taken
  <1>6. ASSUME NEW l \in Links, Lose(l) PROVE Routed'
    BY <1>4, <1>6 DEF Lose, Befalls
  <1>7. ASSUME NEW l \in Links, Repeat(l) PROVE Routed'
    <2>1. link[l] # <<>> /\ link' = [link EXCEPT ![l] = Append(@, Head(@))] /\ new' = new
      BY <1>7 DEF Repeat, Befalls
    <2>2. /\ Head(link[l]) \in MessageType /\ Head(link[l]) = link[l][1]
          /\ 1 \in 1..Len(link[l])
      BY <2>1, Polled
    <2>3. Longer(l, link[l][1]) /\ Same({l})
      BY <2>1, <2>2, SentLinks
    <2>4. RoutedOn(l, link[l][1], Requests \ new')
      BY <2>1, <2>2 DEF Routed, RoutedOn
    <2>5. QED
      BY <1>a, <1>c, <1>d, <2>1, <2>3, <2>4
  <1>8. ASSUME NEW l \in Links, Late(l) PROVE Routed'
    <2>1. Shuffled(l) /\ Same({l}) /\ new' = new
      BY <1>8, LateLinks
    <2>2. \A p \in 1..Len(link'[l]) : Old(l, p)
      BY <2>1 DEF Shuffled, Old
    <2>3. QED
      BY <1>a, <1>d, <2>1, <2>2
  <1>9. ASSUME link' = link, new' \subseteq new PROVE Routed'
    BY <1>9 DEF Routed
  <1>10. QED
    BY <1>1, <1>2, <1>3, <1>5, <1>6, <1>7, <1>8, <1>9, SizeAssumption
       DEF Next, TimeOut, SendFails, vars
-----------------------------------------------------------------------------
(* The order of the requests of one node and of their replies.             *)

\* The numberings the invariant speaks of.
Numberings == [Requests -> Nat]

\* A number is a multiple of the width and a remainder.
LEMMA Divided ==
    ASSUME NEW m \in Nat \ {0}, NEW a \in Nat
    PROVE  \E q \in Int, r \in 0..(m - 1) : r = a % m /\ a = m * q + r
  <1>1. a = m * (a \div m) + (a % m)
    OBVIOUS
  <1>2. (a \div m) \in Int /\ (a % m) \in 0..(m - 1)
    OBVIOUS
  <1>3. QED
    BY <1>1, <1>2

\* There is one such remainder.
LEMMA OneRemainder ==
    ASSUME NEW m \in Nat \ {0}, NEW q \in Int, NEW p \in Int,
           NEW r \in 0..(m - 1), NEW t \in 0..(m - 1), m * q + r = m * p + t
    PROVE  r = t
  <1>1. \A k \in Int : k >= 1 => m * k >= m
    OBVIOUS
  <1>2. m * (q - p) = t - r /\ m * (p - q) = r - t
    OBVIOUS
  <1>3. CASE q - p >= 1
    <2>1. m * (q - p) >= m
      BY <1>1, <1>3
    <2>2. QED
      BY <1>2, <2>1
  <1>4. CASE p - q >= 1
    <2>1. m * (p - q) >= m
      BY <1>1, <1>4
    <2>2. QED
      BY <1>2, <2>1
  <1>5. CASE q = p
    BY <1>2, <1>5
  <1>6. QED
    BY <1>3, <1>4, <1>5

\* The counter moved once more shows the next number, and within its width the count.
LEMMA ShownNext ==
    ASSUME NEW a \in Nat
    PROVE  /\ Shown(a) \in 0..(SeqMod - 1)
           /\ a < SeqMod => Shown(a) = a
           /\ Increment(Shown(a)) = Shown(a + 1)
  <1>1. PICK m \in Nat \ {0} : m = SeqMod
    BY SizeAssumption
  <1>2. \A k \in 0..(m - 1) : k % m = k
    OBVIOUS
  <1>3. PICK q \in Int, r \in 0..(m - 1) : r = a % m /\ a = m * q + r
    BY Divided
  <1>4. PICK b \in Nat : b = a + 1
    OBVIOUS
  <1>5. PICK p \in Int, t \in 0..(m - 1) : t = b % m /\ b = m * p + t
    BY Divided
  <1>6. PICK u \in Nat : u = r + 1
    OBVIOUS
  <1>7. u % m = t
    <2>1. CASE u < m
      <3>1. m * q + u = m * p + t /\ u \in 0..(m - 1)
        BY <1>3, <1>4, <1>5, <1>6, <2>1
      <3>2. u = t
        BY <3>1, OneRemainder
      <3>3. QED
        BY <1>2, <3>2
    <2>2. CASE u = m
      <3>1. m * (q + 1) + 0 = m * p + t
        BY <1>3, <1>4, <1>5, <1>6, <2>2
      <3>2. 0 \in 0..(m - 1) /\ q + 1 \in Int /\ m % m = 0
        OBVIOUS
      <3>3. 0 = t
        BY <3>1, <3>2, OneRemainder
      <3>4. QED
        BY <2>2, <3>2, <3>3
    <2>3. QED
      BY <1>6, <2>1, <2>2
  <1>8. QED
    BY <1>1, <1>2, <1>3, <1>4, <1>5, <1>6, <1>7 DEF Shown, Increment

\* In the table of n slots were released, if anything.
Released(n) ==
    \A i \in Slots : \/ trans_table'[n][i] = trans_table[n][i]
                     \/ trans_table'[n][i].state # "WAITING"

\* Releasing slots contradicts nothing that is said of the others.
LEMMA ReleasedKept ==
    ASSUME NEW n, NEW num, Released(n), Made(n)' = Made(n)
    PROVE  /\ Waiting(n, num) => Waiting(n, num)'
           /\ \A f : f.trans_id \in Slots /\ Current(trans_table[n], f, num)
                  => Current(trans_table'[n], f, num)
  BY DEF Released, Waiting, Current

\* What a link holds are messages, also after a step.
LEMMA Messages ==
    ASSUME StackType, NEW l \in Links
    PROVE  /\ Len(link[l]) \in Nat
           /\ \A p \in 1..Len(link[l]) :
                 /\ link[l][p].trans_id \in Slots
                 /\ link[l][p].for # All => link[l][p].for \in Requests
                 /\ link[l][p].seq \in 0..(SeqMod - 1)
  <1>1. link[l] \in Seq(MessageType)
    BY DEF StackType
  <1>2. \A p \in 1..Len(link[l]) : link[l][p] \in MessageType
    BY <1>1, ElementOfSeq
  <1>3. Len(link[l]) \in Nat
    BY <1>1, LenProperties
  <1>4. QED
    BY <1>2, <1>3 DEF MessageType

\* What of the requests under way survives any step but a request and its answer: a
\* lost request, a broadcast behind them.
LEMMA AskingKept ==
    ASSUME StackType, NEW l \in Links, NEW num \in Numberings, NEW replied \in Nat,
           Asking(l, num, replied), Released(l[1]), Made(l[1])' = Made(l[1]),
           \/ link'[l] = link[l]
           \/ Shorter(l)
           \/ \E f : Longer(l, f) /\ f.type = "REQUEST" /\ f.for = All
    PROVE  Asking(l, num, replied)'
  <1>0. \A p \in 1..Len(link[l]) : Current(trans_table[l[1]], link[l][p], num)
           => Current(trans_table'[l[1]], link[l][p], num)
    BY Messages, ReleasedKept
  <1>1. CASE link'[l] = link[l]
    BY <1>0, <1>1 DEF Asking, Current
  <1>2. CASE Shorter(l)
    <2>1. \A p \in 1..Len(link'[l]) : p + 1 \in 1..Len(link[l]) /\ link'[l][p] = link[l][p + 1]
      BY <1>2 DEF Shorter
    <2>2. \A p, q \in 1..Len(link'[l]) : p < q => p + 1 < q + 1
      OBVIOUS
    <2>3. \A p \in 1..Len(link'[l]) : LET f == link'[l][p] IN
             /\ f.type = "REQUEST"
             /\ f.for # All => replied <= num[f.for] /\ Current(trans_table'[l[1]], f, num)
      BY <1>0, <2>1 DEF Asking
    <2>4. \A p, q \in 1..Len(link'[l]) :
             p < q /\ link'[l][p].for # All /\ link'[l][q].for # All
               => num[link'[l][p].for] < num[link'[l][q].for]
      BY <2>1, <2>2 DEF Asking
    <2>5. QED
      BY <2>3, <2>4 DEF Asking, Current
  <1>3. CASE \E f : Longer(l, f) /\ f.type = "REQUEST" /\ f.for = All
    <2>1. PICK f : Longer(l, f) /\ f.type = "REQUEST" /\ f.for = All
      BY <1>3
    <2>2. \A p \in 1..Len(link'[l]) :
             \/ link'[l][p] = f
             \/ p \in 1..Len(link[l]) /\ link'[l][p] = link[l][p]
      BY <2>1 DEF Longer
    <2>3. \A p \in 1..Len(link'[l]) : LET g == link'[l][p] IN
             /\ g.type = "REQUEST"
             /\ g.for # All => replied <= num[g.for] /\ Current(trans_table'[l[1]], g, num)
      BY <1>0, <2>1, <2>2 DEF Asking
    <2>4. \A p, q \in 1..Len(link'[l]) :
             p < q /\ link'[l][p].for # All /\ link'[l][q].for # All
               => num[link'[l][p].for] < num[link'[l][q].for]
      BY <2>1, <2>2 DEF Asking
    <2>5. QED
      BY <2>3, <2>4 DEF Asking, Current
  <1>4. QED
    BY <1>1, <1>2, <1>3

\* No reply is added to the link back.
NoneTold(l) ==
    \A p \in 1..Len(link'[Back(l)]) : LET f == link'[Back(l)][p] IN
        f.type = "RESPONSE" => \E q \in 1..Len(link[Back(l)]) : f = link[Back(l)][q]

\* What is said of the replies under way holds when some are taken, lost or repeated.
LEMMA TellingKept ==
    ASSUME StackType, NEW l \in Links, NEW num,
           Telling(l, num), Released(l[1]), Made(l[1])' = Made(l[1]), NoneTold(l)
    PROVE  Telling(l, num)'
  <1> SUFFICES ASSUME NEW p \in 1..Len(link'[Back(l)]), link'[Back(l)][p].type = "RESPONSE"
               PROVE  LET f == link'[Back(l)][p] IN
                      /\ f.for \in Made(l[1]) /\ \E k \in 0..num[f.for] : f.seq = Shown(k)
                      /\ Current(trans_table'[l[1]], f, num)
    BY DEF Telling, Current
  <1>1. PICK q \in 1..Len(link[Back(l)]) : link'[Back(l)][p] = link[Back(l)][q]
    BY DEF NoneTold
  <1>2. Back(l) \in Links
    BY DEF Back, Links
  <1>3. link[Back(l)][q].trans_id \in Slots
    BY <1>2, Messages
  <1>4. LET f == link[Back(l)][q] IN
        /\ f.for \in Made(l[1]) /\ \E k \in 0..num[f.for] : f.seq = Shown(k)
        /\ Current(trans_table[l[1]], f, num)
    BY <1>1 DEF Telling
  <1>5. QED
    BY <1>1, <1>3, <1>4, ReleasedKept

\* What is said where no request was lost: a broadcast ends it.
LEMMA ExactKept ==
    ASSUME StackType, NEW l \in Links, NEW num, NEW replied,
           Exact(l, num, replied), Made(l[1])' = Made(l[1]), NoneTold(l),
           \/ link'[l] = link[l]
           \/ \E f : Longer(l, f) /\ f.type = "REQUEST" /\ f.for = All
    PROVE  Exact(l, num, replied)'
  <1>1. \A p \in 1..Len(link'[Back(l)]) : LET f == link'[Back(l)][p] IN
           f.type = "RESPONSE" => f.seq = Shown(num[f.for])
    BY DEF Exact, NoneTold
  <1>2. CASE link'[l] = link[l]
    BY <1>1, <1>2 DEF Exact
  <1>3. CASE \E f : Longer(l, f) /\ f.type = "REQUEST" /\ f.for = All
    <2>1. PICK f : Longer(l, f) /\ f.for = All
      BY <1>3
    <2>2. ~(\A p \in 1..Len(link'[l]) : link'[l][p].for # All)
      BY <2>1 DEF Longer
    <2>3. ASSUME NEW p \in 1..Len(link'[l]), \A q \in 1..p : link'[l][q].for # All
          PROVE  num[link'[l][p].for] = replied + p - 1
      <3>1. p \in 1..Len(link[l])
        BY <2>1, <2>3 DEF Longer
      <3>2. \A q \in 1..p : link[l][q].for # All /\ link'[l][q] = link[l][q]
        BY <2>1, <2>3, <3>1 DEF Longer
      <3>3. p \in 1..p
        BY <3>1
      <3>4. QED
        BY <3>1, <3>2, <3>3 DEF Exact
    <2>4. QED
      BY <1>1, <2>2, <2>3 DEF Exact
  <1>4. QED
    BY <1>2, <1>3

\* Any step but a request of the node and its answer keeps the numbering.
LEMMA Kept ==
    ASSUME StackType, NEW l \in Links, NEW num \in Numberings, NEW replied \in Nat,
           InOrder(l, num, replied), Released(l[1]), new' \cap {r \in Requests : r.src = l[1]}
                                                      = new \cap {r \in Requests : r.src = l[1]},
           seq_counter'[l[1]] = seq_counter[l[1]], seq_counter'[l[2]] = seq_counter[l[2]],
           disturbed \subseteq disturbed', NoneTold(l),
           \/ link'[l] = link[l]
           \/ Shorter(l) /\ <<"lost", l>> \in disturbed'
           \/ \E f : Longer(l, f) /\ f.type = "REQUEST" /\ f.for = All
    PROVE  InOrder(l, num, replied)'
  <1>1. Made(l[1])' = Made(l[1])
    BY DEF Made
  <1>2. Numbers(l, num)'
    BY <1>1 DEF InOrder, Numbers
  <1>3. Waiting(l[1], num)'
    BY <1>1, ReleasedKept DEF InOrder
  <1>4. Asking(l, num, replied)'
    BY <1>1, AskingKept DEF InOrder
  <1>5. Telling(l, num)'
    BY <1>1, TellingKept DEF InOrder
  <1>6. <<"lost", l>> \notin disturbed' => Exact(l, num, replied)'
    BY <1>1, ExactKept DEF InOrder
  <1>7. QED
    BY <1>1, <1>2, <1>3, <1>4, <1>5, <1>6 DEF InOrder

\* A request of the node gets the next number.
LEMMA Sent ==
    ASSUME StackType, Routed, NEW l \in Links,
           NEW num \in Numberings, NEW replied \in Nat, InOrder(l, num, replied),
           NEW r \in Requests, SendRequest(r), <<r.src, r.dst>> = l
    PROVE  \E mine \in Numberings : InOrder(l, mine, replied)'
  <1>0. PICK c \in Nodes : c = l[1]
    BY DEF Links
  <1>1. PICK i \in Slots :
           /\ r \in new
           /\ trans_table' = [trans_table EXCEPT ![r.src][i] =
                 [state |-> "WAITING", req |-> r, seq |-> seq_counter[r.src]]]
           /\ seq_counter' = [seq_counter EXCEPT ![r.src] = Increment(@)]
           /\ link' = [link EXCEPT ![<<r.src, r.dst>>] =
                 Append(@, Message("REQUEST", i, seq_counter[r.src], r))]
           /\ new' = new \ {r}
           /\ disturbed' = disturbed
    BY DEF SendRequest
  <1>2. /\ c = r.src /\ l[2] = r.dst /\ l[2] \in Nodes /\ l[2] # c
        /\ Back(l) \in Links /\ Back(l) # l
    BY <1>0 DEF Links, Back
  <1>3. IsFiniteSet(Made(c))
    BY <1>0 DEF InOrder, Numbers
  <1>a. PICK sent \in Nat : sent = Cardinality(Made(c))
    BY <1>3, FS_CardinalityType
  <1>b. PICK mine \in Numberings : mine = [num EXCEPT ![r] = sent]
    BY <1>a DEF Numberings
  <1>4. mine[r] = sent /\ \A q \in Requests \ {r} : mine[q] = num[q]
    BY <1>b DEF Numberings
  <1>5. r \notin Made(c) /\ Made(c)' = Made(c) \cup {r}
    BY <1>1, <1>2 DEF Made
  <1>6. Cardinality(Made(c)') = sent + 1 /\ IsFiniteSet(Made(c)')
    BY <1>a, <1>3, <1>5, FS_AddElement
  <1>7. seq_counter[c] = Shown(sent)
    BY <1>0, <1>a DEF InOrder, Numbers
  <1>8. \A q \in Made(c) : q \in Requests \ {r} /\ num[q] < sent /\ mine[q] = num[q] /\ num[q] \in Nat
    BY <1>0, <1>a, <1>4, <1>5 DEF Made, InOrder, Numbers, Numberings
  <1> DEFINE f == Message("REQUEST", i, seq_counter[c], r)
             slot == [state |-> "WAITING", req |-> r, seq |-> Shown(sent)]
  <1>9. f.for = r /\ f.type = "REQUEST" /\ f.trans_id = i /\ f \in MessageType /\ r # All
    BY <1>2, NameAssumption DEF Message, MessageType, StackType
  <1>10. Longer(l, f) /\ Same({l})
    BY <1>1, <1>2, <1>9, SentLinks
  <1>11. trans_table'[c] = [trans_table[c] EXCEPT ![i] = slot]
    BY <1>1, <1>2, <1>7 DEF StackType
  <1> HIDE DEF f
  <1>12. \A j \in Slots : trans_table'[c][j] = IF j = i THEN slot ELSE trans_table[c][j]
    BY <1>2, <1>11 DEF StackType
  <1>13. slot.req = r /\ slot.seq = Shown(sent)
    OBVIOUS
  <1> HIDE DEF slot
  <1>14. Numbers(l, mine)'
    <2>1. seq_counter'[c] = Shown(sent + 1)
      BY <1>1, <1>2, <1>7, ShownNext DEF StackType
    <2>2. \A q \in Made(c)' : q.dst = l[2] /\ mine[q] < sent + 1
      BY <1>0, <1>2, <1>3, <1>4, <1>5, <1>8 DEF InOrder, Numbers
    <2>3. \A q, s \in Made(c)' : mine[q] = mine[s] => q = s
      BY <1>0, <1>3, <1>4, <1>5, <1>8 DEF InOrder, Numbers
    <2>4. QED
      BY <1>0, <1>6, <2>1, <2>2, <2>3 DEF Numbers
  <1>15. Waiting(c, mine)'
    BY <1>0, <1>4, <1>5, <1>8, <1>12, <1>13 DEF InOrder, Waiting
  <1>16. ASSUME NEW g, g.for \in Made(c), g.trans_id \in Slots, Current(trans_table[c], g, num)
         PROVE  Current(trans_table'[c], g, mine)
    <2>1. CASE g.trans_id = i
      BY <1>4, <1>8, <1>12, <1>13, <1>16, <2>1, <1>3 DEF Current
    <2>2. CASE g.trans_id # i
      <3>1. trans_table'[c][g.trans_id] = trans_table[c][g.trans_id]
        BY <1>12, <1>16, <2>2
      <3>2. trans_table[c][g.trans_id].state = "WAITING" => trans_table[c][g.trans_id].req \in Made(c)
        BY <1>0, <1>16 DEF InOrder, Waiting
      <3>3. QED
        BY <1>8, <1>16, <3>1, <3>2 DEF Current
    <2>3. QED
      BY <2>1, <2>2
  <1>17. \A p \in 1..Len(link'[l]) :
            \/ link'[l][p] = f /\ p = Len(link[l]) + 1
            \/ p \in 1..Len(link[l]) /\ link'[l][p] = link[l][p]
    BY <1>10 DEF Longer
  <1>18. \A p \in 1..Len(link[l]) :
            /\ link[l][p].trans_id \in Slots /\ link[l][p].type = "REQUEST"
            /\ link[l][p].for # All => link[l][p].for \in Made(c)
    <2> SUFFICES ASSUME NEW p \in 1..Len(link[l])
                 PROVE  /\ link[l][p].trans_id \in Slots /\ link[l][p].type = "REQUEST"
                        /\ link[l][p].for # All => link[l][p].for \in Made(c)
      OBVIOUS
    <2>1. link[l][p].trans_id \in Slots /\ link[l][p].type = "REQUEST"
      BY Messages DEF InOrder, Asking
    <2>2. link[l][p].for # All => link[l][p].for \in Requests \ new /\ link[l][p].for.src = l[1]
      BY <2>1 DEF Routed
    <2>3. QED
      BY <1>0, <2>1, <2>2 DEF Made
  <1>19. Current(trans_table'[c], f, mine)
    BY <1>9, <1>12, <1>13, <1>3, <1>4 DEF Current
  <1>20. Asking(l, mine, replied)'
    <2>1. \A p \in 1..Len(link'[l]) : LET g == link'[l][p] IN
             /\ g.type = "REQUEST"
             /\ g.for # All => replied <= mine[g.for] /\ Current(trans_table'[c], g, mine)
      <3> SUFFICES ASSUME NEW p \in 1..Len(link'[l])
                   PROVE  LET g == link'[l][p] IN
                          /\ g.type = "REQUEST"
                          /\ g.for # All => replied <= mine[g.for]
                                            /\ Current(trans_table'[c], g, mine)
        OBVIOUS
      <3>1. CASE link'[l][p] = f
        BY <1>a, <1>0, <1>4, <1>9, <1>19, <3>1 DEF InOrder
      <3>2. CASE p \in 1..Len(link[l]) /\ link'[l][p] = link[l][p]
        <4>1. link[l][p].for # All =>
                 replied <= num[link[l][p].for] /\ Current(trans_table[c], link[l][p], num)
          BY <1>0, <3>2 DEF InOrder, Asking
        <4>2. QED
          BY <1>8, <1>16, <1>18, <3>2, <4>1
      <3>3. QED
        BY <1>17, <3>1, <3>2
    <2>2. ASSUME NEW p \in 1..Len(link'[l]), NEW q \in 1..Len(link'[l]),
                 p < q, link'[l][p].for # All, link'[l][q].for # All
          PROVE  mine[link'[l][p].for] < mine[link'[l][q].for]
      <3>1. p \in 1..Len(link[l]) /\ link'[l][p] = link[l][p] /\ Len(link[l]) \in Nat
        BY <1>10, <1>17, <2>2 DEF Longer
      <3>2. link[l][p].for \in Made(c)
        BY <1>18, <2>2, <3>1
      <3>3. CASE link'[l][q] = f
        BY <1>4, <1>8, <1>9, <3>1, <3>2, <3>3
      <3>4. CASE q \in 1..Len(link[l]) /\ link'[l][q] = link[l][q]
        <4>1. num[link[l][p].for] < num[link[l][q].for]
          BY <2>2, <3>1, <3>4 DEF InOrder, Asking
        <4>2. link[l][q].for \in Made(c)
          BY <1>18, <2>2, <3>4
        <4>3. QED
          BY <1>8, <3>1, <3>2, <3>4, <4>1, <4>2
      <3>5. QED
        BY <1>17, <3>3, <3>4
    <2>3. QED
      BY <1>0, <2>1, <2>2 DEF Asking
  <1>21. link'[Back(l)] = link[Back(l)]
    BY <1>2, <1>10 DEF Same
  <1>22. \A p \in 1..Len(link[Back(l)]) : LET g == link[Back(l)][p] IN
            g.type = "RESPONSE" => /\ g.for \in Made(c) /\ \E k \in 0..num[g.for] : g.seq = Shown(k)
                                   /\ Current(trans_table[c], g, num) /\ g.trans_id \in Slots
    BY <1>0, <1>2, Messages DEF InOrder, Telling
  <1>23. Telling(l, mine)'
    <2> SUFFICES ASSUME NEW p \in 1..Len(link[Back(l)]), link[Back(l)][p].type = "RESPONSE"
                 PROVE  LET g == link[Back(l)][p] IN
                        /\ g.for \in Made(c)' /\ \E k \in 0..mine[g.for] : g.seq = Shown(k)
                        /\ Current(trans_table'[c], g, mine)
      BY <1>0, <1>21 DEF Telling
    <2>1. QED
      BY <1>5, <1>8, <1>16, <1>22
  <1>24. Exact(l, num, replied) => Exact(l, mine, replied)'
    <2> SUFFICES ASSUME Exact(l, num, replied) PROVE Exact(l, mine, replied)'
      OBVIOUS
    <2>1. Len(link[l]) \in Nat /\ Len(link'[l]) = Len(link[l]) + 1
      BY <1>10 DEF Longer
    <2>2. (\A p \in 1..Len(link'[l]) : link'[l][p].for # All)
             => sent = replied + Len(link[l])
      BY <1>a, <1>0, <1>10, <2>1 DEF Exact, Longer
    <2>3. ASSUME NEW p \in 1..Len(link'[l]), \A q \in 1..p : link'[l][q].for # All
          PROVE  mine[link'[l][p].for] = replied + p - 1
      <3>1. CASE p = Len(link[l]) + 1
        <4>1. sent = replied + Len(link[l])
          BY <2>1, <2>2, <2>3, <3>1
        <4>2. link'[l][p] = f
          BY <1>10, <3>1 DEF Longer
        <4>3. QED
          BY <1>4, <1>9, <2>1, <3>1, <4>1, <4>2
      <3>2. CASE p \in 1..Len(link[l])
        <4>1. \A q \in 1..p : link[l][q].for # All /\ link'[l][q] = link[l][q]
          BY <1>10, <2>1, <2>3, <3>2 DEF Longer
        <4>2. p \in 1..p
          BY <3>2
        <4>3. num[link[l][p].for] = replied + p - 1 /\ link[l][p].for \in Made(c)
          BY <1>18, <3>2, <4>1, <4>2 DEF Exact
        <4>4. QED
          BY <1>8, <4>1, <4>2, <4>3
      <3>3. QED
        BY <2>1, <3>1, <3>2
    <2>4. (\A p \in 1..Len(link'[l]) : link'[l][p].for # All)
             => Cardinality(Made(c)') = replied + Len(link'[l])
      BY <1>6, <2>1, <2>2
    <2>5. \A p \in 1..Len(link'[Back(l)]) : LET g == link'[Back(l)][p] IN
             g.type = "RESPONSE" => g.seq = Shown(mine[g.for])
      <3> SUFFICES ASSUME NEW p \in 1..Len(link[Back(l)]), link[Back(l)][p].type = "RESPONSE"
                   PROVE  link[Back(l)][p].seq = Shown(mine[link[Back(l)][p].for])
        BY <1>21
      <3>1. link[Back(l)][p].seq = Shown(num[link[Back(l)][p].for])
        BY DEF Exact
      <3>2. mine[link[Back(l)][p].for] = num[link[Back(l)][p].for]
        BY <1>8, <1>22
      <3>3. QED
        BY <3>1, <3>2
    <2>6. QED
      BY <1>0, <2>3, <2>4, <2>5 DEF Exact
  <1>25. seq_counter'[l[2]] = Shown(replied) /\ replied <= Cardinality(Made(c)')
    <2>1. seq_counter'[l[2]] = seq_counter[l[2]]
      BY <1>1, <1>2 DEF StackType
    <2>2. QED
      BY <1>a, <1>0, <1>3, <1>6, <2>1 DEF InOrder
  <1>26. InOrder(l, mine, replied)'
    BY <1>0, <1>1, <1>14, <1>15, <1>20, <1>23, <1>24, <1>25 DEF InOrder
  <1>27. QED
    BY <1>26

\* A request that could not be sent gets the next number too, and nothing else changes.
LEMMA Failed ==
    ASSUME StackType, Routed, NEW l \in Links,
           NEW num \in Numberings, NEW replied \in Nat, InOrder(l, num, replied),
           NEW r \in Requests, SendFails(r), <<r.src, r.dst>> = l
    PROVE  \E mine \in Numberings : InOrder(l, mine, replied)'
  <1>0. PICK c \in Nodes : c = l[1]
    BY DEF Links
  <1>1. /\ r \in new
        /\ seq_counter' = [seq_counter EXCEPT ![r.src] = Increment(@)]
        /\ new' = new \ {r} /\ <<"lost", l>> \in disturbed'
        /\ UNCHANGED <<trans_table, link>>
    BY DEF SendFails, Disturb
  <1>2. /\ c = r.src /\ l[2] = r.dst /\ l[2] \in Nodes /\ l[2] # c
        /\ Back(l) \in Links
    BY <1>0 DEF Links, Back
  <1>3. IsFiniteSet(Made(c))
    BY <1>0 DEF InOrder, Numbers
  <1>a. PICK sent \in Nat : sent = Cardinality(Made(c))
    BY <1>3, FS_CardinalityType
  <1>b. PICK mine \in Numberings : mine = [num EXCEPT ![r] = sent]
    BY <1>a DEF Numberings
  <1>4. mine[r] = sent /\ \A q \in Requests \ {r} : mine[q] = num[q]
    BY <1>b DEF Numberings
  <1>5. r \notin Made(c) /\ Made(c)' = Made(c) \cup {r}
    BY <1>1, <1>2 DEF Made
  <1>6. Cardinality(Made(c)') = sent + 1 /\ IsFiniteSet(Made(c)')
    BY <1>a, <1>3, <1>5, FS_AddElement
  <1>7. seq_counter[c] = Shown(sent)
    BY <1>0, <1>a DEF InOrder, Numbers
  <1>8. \A q \in Made(c) : q \in Requests \ {r} /\ num[q] < sent /\ mine[q] = num[q] /\ num[q] \in Nat
    BY <1>0, <1>a, <1>4, <1>5 DEF Made, InOrder, Numbers, Numberings
  <1>9. Numbers(l, mine)'
    <2>1. seq_counter'[c] = Shown(sent + 1)
      BY <1>1, <1>2, <1>7, ShownNext DEF StackType
    <2>2. \A q \in Made(c)' : q.dst = l[2] /\ mine[q] < sent + 1
      BY <1>0, <1>2, <1>4, <1>5, <1>8 DEF InOrder, Numbers
    <2>3. \A q, s \in Made(c)' : mine[q] = mine[s] => q = s
      BY <1>0, <1>4, <1>5, <1>8 DEF InOrder, Numbers
    <2>4. QED
      BY <1>0, <1>6, <2>1, <2>2, <2>3 DEF Numbers
  <1>10. \A i \in Slots : LET s == trans_table[c][i] IN
            s.state = "WAITING" => s.req \in Made(c) /\ s.seq = Shown(num[s.req])
    BY <1>0 DEF InOrder, Waiting
  <1>11. Waiting(c, mine)'
    BY <1>1, <1>5, <1>8, <1>10 DEF Waiting
  <1>12. ASSUME NEW g, g.for \in Made(c), g.trans_id \in Slots, Current(trans_table[c], g, num)
         PROVE  Current(trans_table[c], g, mine)
    BY <1>8, <1>10, <1>12 DEF Current
  <1>13. \A p \in 1..Len(link[l]) :
            /\ link[l][p].trans_id \in Slots /\ link[l][p].type = "REQUEST"
            /\ link[l][p].for # All => link[l][p].for \in Made(c)
    <2> SUFFICES ASSUME NEW p \in 1..Len(link[l])
                 PROVE  /\ link[l][p].trans_id \in Slots /\ link[l][p].type = "REQUEST"
                        /\ link[l][p].for # All => link[l][p].for \in Made(c)
      OBVIOUS
    <2>1. link[l][p].trans_id \in Slots /\ link[l][p].type = "REQUEST"
      BY Messages DEF InOrder, Asking
    <2>2. link[l][p].for # All => link[l][p].for \in Requests \ new /\ link[l][p].for.src = l[1]
      BY <2>1 DEF Routed
    <2>3. QED
      BY <1>0, <2>1, <2>2 DEF Made
  <1>14. Asking(l, mine, replied)'
    <2>1. \A p \in 1..Len(link[l]) : LET g == link[l][p] IN
             /\ g.type = "REQUEST"
             /\ g.for # All => replied <= mine[g.for] /\ Current(trans_table[c], g, mine)
      BY <1>0, <1>8, <1>12, <1>13 DEF InOrder, Asking
    <2>2. \A p, q \in 1..Len(link[l]) :
             p < q /\ link[l][p].for # All /\ link[l][q].for # All
               => mine[link[l][p].for] < mine[link[l][q].for]
      BY <1>8, <1>13 DEF InOrder, Asking
    <2>3. QED
      BY <1>0, <1>1, <2>1, <2>2 DEF Asking, Current
  <1>15. \A p \in 1..Len(link[Back(l)]) : LET g == link[Back(l)][p] IN
            g.type = "RESPONSE" => /\ g.for \in Made(c) /\ \E k \in 0..num[g.for] : g.seq = Shown(k)
                                   /\ Current(trans_table[c], g, num) /\ g.trans_id \in Slots
    BY <1>0, <1>2, Messages DEF InOrder, Telling
  <1>16. Telling(l, mine)'
    <2> SUFFICES ASSUME NEW p \in 1..Len(link[Back(l)]), link[Back(l)][p].type = "RESPONSE"
                 PROVE  LET g == link[Back(l)][p] IN
                        /\ g.for \in Made(c)' /\ \E k \in 0..mine[g.for] : g.seq = Shown(k)
                        /\ Current(trans_table[c], g, mine)
      BY <1>0, <1>1 DEF Telling, Current
    <2>1. QED
      BY <1>5, <1>8, <1>12, <1>15
  <1>17. seq_counter'[l[2]] = Shown(replied) /\ replied <= Cardinality(Made(c)')
    <2>1. seq_counter'[l[2]] = seq_counter[l[2]]
      BY <1>1, <1>2 DEF StackType
    <2>2. QED
      BY <1>a, <1>0, <1>6, <2>1 DEF InOrder
  <1>18. InOrder(l, mine, replied)'
    BY <1>0, <1>1, <1>9, <1>11, <1>14, <1>16, <1>17 DEF InOrder
  <1>19. QED
    BY <1>18

\* The first request of the link is answered, with a number no higher than its own.
LEMMA Answered ==
    ASSUME StackType, Routed, NEW l \in Links,
           NEW num \in Numberings, NEW replied \in Nat, InOrder(l, num, replied),
           OnRequest(l[2], l[1]), link[l][1].for # All
    PROVE  InOrder(l, num, replied + 1)'
  <1>0. PICK c \in Nodes, d \in Nodes : c = l[1] /\ d = l[2] /\ l = <<c, d>> /\ Back(l) = <<d, c>>
    BY DEF Links, Back
  <1> DEFINE f == link[l][1]
             g == Message("RESPONSE", f.trans_id, seq_counter[d], f.for)
  <1>1. /\ <<d, c>> \in Links /\ c # d
        /\ f \in MessageType /\ f.type = "REQUEST"
        /\ Shorter(l) /\ Longer(<<d, c>>, g)
    <2>1. OnRequest(d, c)
      BY <1>0, Zenon
    <2> HIDE DEF g
    <2>2. LET k == link[<<c, d>>][1] IN
          /\ <<c, d>> \in Links /\ <<d, c>> \in Links
          /\ k \in MessageType /\ k.type = "REQUEST"
          /\ Shorter(<<c, d>>)
          /\ Longer(<<d, c>>, Message("RESPONSE", k.trans_id, seq_counter[d], k.for))
      BY <2>1, RepliedLinks
    <2>3. c # d
      BY <2>2 DEF Links
    <2>4. QED
      BY <1>0, <2>2, <2>3 DEF g
  <1>2. /\ seq_counter' = [seq_counter EXCEPT ![d] = Increment(@)]
        /\ UNCHANGED <<trans_table, new, disturbed>>
    BY <1>0 DEF OnRequest
  <1>3. /\ g.type = "RESPONSE" /\ g.for = f.for /\ g.trans_id = f.trans_id
        /\ g.seq = seq_counter[d]
    BY DEF Message
  <1> HIDE DEF f, g
  <1>4. PICK h \in Made(c) : h = f.for
    <2>1. 1 \in 1..Len(link[l])
      BY <1>1 DEF Shorter
    <2>2. f.for \in Requests \ new /\ f.for.src = c
      BY <1>0, <1>1, <2>1 DEF Routed, f
    <2>3. QED
      BY <2>2 DEF Made
  <1>a. PICK sent \in Nat : sent = Cardinality(Made(c))
    BY <1>0, FS_CardinalityType DEF InOrder, Numbers
  <1>5. /\ replied <= num[h] /\ num[h] < sent /\ num[h] \in Nat /\ h \in Requests
        /\ Current(trans_table[c], f, num)
    <2>1. 1 \in 1..Len(link[l]) /\ f.for # All
      BY <1>1 DEF Shorter, f
    <2>2. replied <= num[h] /\ Current(trans_table[c], f, num)
      BY <1>0, <1>4, <2>1 DEF InOrder, Asking, f
    <2>3. QED
      BY <1>0, <1>a, <2>2 DEF InOrder, Numbers, Numberings, Made
  <1>6. seq_counter[d] = Shown(replied) /\ replied \in 0..num[h]
    BY <1>0, <1>5 DEF InOrder
  <1>7. seq_counter'[d] = Shown(replied + 1) /\ seq_counter'[c] = seq_counter[c]
    BY <1>1, <1>2, <1>6, ShownNext DEF StackType
  <1>8. Made(c)' = Made(c)
    BY <1>2 DEF Made
  <1>9. Numbers(l, num)' /\ Waiting(c, num)'
    BY <1>0, <1>2, <1>7, <1>8 DEF InOrder, Numbers, Waiting
  <1>10. \A p \in 1..Len(link'[l]) : p + 1 \in 1..Len(link[l]) /\ link'[l][p] = link[l][p + 1]
    BY <1>1 DEF Shorter
  <1>11. Asking(l, num, replied + 1)'
    <2>1. \A p \in 1..Len(link'[l]) : LET k == link'[l][p] IN
             /\ k.type = "REQUEST"
             /\ k.for # All => replied + 1 <= num[k.for] /\ Current(trans_table[c], k, num)
      <3> SUFFICES ASSUME NEW p \in 1..Len(link'[l])
                   PROVE  LET k == link[l][p + 1] IN
                          /\ k.type = "REQUEST"
                          /\ k.for # All => replied + 1 <= num[k.for]
                                            /\ Current(trans_table[c], k, num)
        BY <1>10
      <3>1. PICK q \in 1..Len(link[l]) : q = p + 1 /\ 1 < q /\ 1 \in 1..Len(link[l])
        BY <1>10
      <3>2. link[l][q].type = "REQUEST"
        BY DEF InOrder, Asking
      <3>3. ASSUME link[l][q].for # All
            PROVE  replied + 1 <= num[link[l][q].for] /\ Current(trans_table[c], link[l][q], num)
        <4>1. num[f.for] < num[link[l][q].for]
          BY <3>1, <3>3 DEF InOrder, Asking, f
        <4>2. link[l][q].for \in Requests
          BY <3>3, Messages
        <4>3. num[link[l][q].for] \in Nat
          BY <4>2 DEF Numberings
        <4>4. Current(trans_table[c], link[l][q], num)
          BY <1>0, <3>3 DEF InOrder, Asking
        <4>5. QED
          BY <1>4, <1>5, <4>1, <4>3, <4>4
      <3>4. QED
        BY <3>1, <3>2, <3>3
    <2>2. ASSUME NEW p \in 1..Len(link'[l]), NEW q \in 1..Len(link'[l]),
                 p < q, link'[l][p].for # All, link'[l][q].for # All
          PROVE  num[link'[l][p].for] < num[link'[l][q].for]
      <3>1. p + 1 < q + 1
        BY <2>2
      <3>2. QED
        BY <1>10, <2>2, <3>1 DEF InOrder, Asking
    <2>3. QED
      BY <1>0, <1>2, <2>1, <2>2 DEF Asking
  <1>12. \A p \in 1..Len(link'[<<d, c>>]) :
            \/ link'[<<d, c>>][p] = g
            \/ p \in 1..Len(link[<<d, c>>]) /\ link'[<<d, c>>][p] = link[<<d, c>>][p]
    BY <1>1 DEF Longer
  <1>13. Telling(l, num)'
    <2> SUFFICES ASSUME NEW p \in 1..Len(link'[<<d, c>>]), link'[<<d, c>>][p].type = "RESPONSE"
                 PROVE  LET k == link'[<<d, c>>][p] IN
                        /\ k.for \in Made(c) /\ \E j \in 0..num[k.for] : k.seq = Shown(j)
                        /\ Current(trans_table[c], k, num)
      BY <1>0, <1>2, <1>8 DEF Telling
    <2>1. Current(trans_table[c], g, num)
      BY <1>3, <1>5 DEF Current
    <2>2. CASE link'[<<d, c>>][p] = g
      BY <1>3, <1>4, <1>5, <1>6, <2>1, <2>2
    <2>3. CASE p \in 1..Len(link[<<d, c>>]) /\ link'[<<d, c>>][p] = link[<<d, c>>][p]
      BY <1>0, <2>3 DEF InOrder, Telling
    <2>4. QED
      BY <1>12, <2>2, <2>3
  <1>14. Exact(l, num, replied) => Exact(l, num, replied + 1)'
    <2> SUFFICES ASSUME Exact(l, num, replied) PROVE Exact(l, num, replied + 1)'
      OBVIOUS
    <2>1. Len(link[l]) \in Nat \ {0} /\ Len(link'[l]) = Len(link[l]) - 1
      BY <1>1 DEF Shorter
    <2>2. num[h] = replied
      <3>1. 1 \in 1..Len(link[l]) /\ \A q \in 1..1 : link[l][q].for # All
        BY <2>1
      <3>2. num[f.for] = replied + 1 - 1
        BY <3>1 DEF Exact, f
      <3>3. QED
        BY <1>4, <3>2
    <2>3. ASSUME NEW p \in 1..Len(link'[l]), \A q \in 1..p : link'[l][q].for # All
          PROVE  \A q \in 1..(p + 1) : link[l][q].for # All
      <3> SUFFICES ASSUME NEW q \in 1..(p + 1) PROVE link[l][q].for # All
        OBVIOUS
      <3>1. CASE q = 1
        BY <3>1
      <3>2. CASE q # 1
        <4>1. PICK k \in 1..p : q = k + 1
          BY <3>2
        <4>2. k \in 1..Len(link'[l])
          BY <2>1, <4>1
        <4>3. QED
          BY <1>10, <2>3, <4>1, <4>2
      <3>3. QED
        BY <3>1, <3>2
    <2>4. ASSUME NEW p \in 1..Len(link'[l]), \A q \in 1..p : link'[l][q].for # All
          PROVE  num[link'[l][p].for] = (replied + 1) + p - 1
      <3>1. PICK k \in 1..Len(link[l]) : k = p + 1
        BY <1>10
      <3>2. \A q \in 1..k : link[l][q].for # All
        BY <2>3, <2>4, <3>1
      <3>3. num[link[l][k].for] = replied + k - 1
        BY <3>2 DEF Exact
      <3>4. link'[l][p] = link[l][k]
        BY <1>10, <3>1
      <3>5. replied + k - 1 = (replied + 1) + p - 1
        BY <3>1
      <3>6. QED
        BY <3>3, <3>4, <3>5
    <2>5. ASSUME \A p \in 1..Len(link'[l]) : link'[l][p].for # All
          PROVE  Cardinality(Made(c)) = (replied + 1) + Len(link'[l])
      <3>1. \A p \in 1..Len(link[l]) : link[l][p].for # All
        <4> SUFFICES ASSUME NEW p \in 1..Len(link[l]) PROVE link[l][p].for # All
          OBVIOUS
        <4>1. CASE p = 1
          BY <4>1
        <4>2. CASE p # 1
          <5>1. PICK k \in 1..Len(link'[l]) : p = k + 1
            BY <2>1, <4>2
          <5>2. QED
            BY <1>10, <2>5, <5>1
        <4>3. QED
          BY <4>1, <4>2
      <3>2. sent = replied + Len(link[l])
        BY <1>0, <1>a, <3>1 DEF Exact
      <3>3. PICK k \in Nat \ {0} : k = Len(link[l]) /\ Len(link'[l]) = k - 1
        BY <2>1
      <3>4. sent = replied + k
        BY <3>2, <3>3, Zenon
      <3>5. sent = (replied + 1) + (k - 1)
        BY <3>4
      <3>6. QED
        BY <1>a, <3>3, <3>5, Zenon
    <2>6. \A p \in 1..Len(link'[<<d, c>>]) : LET k == link'[<<d, c>>][p] IN
             k.type = "RESPONSE" => k.seq = Shown(num[k.for])
      <3>1. \A p \in 1..Len(link[<<d, c>>]) : LET k == link[<<d, c>>][p] IN
               k.type = "RESPONSE" => k.seq = Shown(num[k.for])
        BY <1>0 DEF Exact
      <3>2. g.seq = Shown(num[g.for])
        BY <1>3, <1>4, <1>6, <2>2
      <3>3. QED
        BY <1>12, <3>1, <3>2
    <2>7. QED
      BY <1>0, <1>8, <2>4, <2>5, <2>6 DEF Exact
  <1>15. replied + 1 <= Cardinality(Made(c))
    BY <1>a, <1>5, <1>6
  <1>16. InOrder(l, num, replied + 1)'
    BY <1>0, <1>2, <1>7, <1>8, <1>9, <1>11, <1>13, <1>14, <1>15 DEF InOrder
  <1>17. QED
    BY <1>16

\* Neither a node's uses of its counter nor the disturbances are ever forgotten.
LEMMA History ==
    ASSUME StackType, [Next]_vars
    PROVE  disturbed \subseteq disturbed' /\ \A n \in Nodes : uses[n] \subseteq uses'[n]
  <1>1. ASSUME NEW r \in Requests, SendRequest(r)
        PROVE  disturbed \subseteq disturbed' /\ \A n \in Nodes : uses[n] \subseteq uses'[n]
    BY <1>1 DEF SendRequest, StackType
  <1>2. ASSUME NEW n \in Nodes, NEW m \in Nodes, OnRequest(n, m)
        PROVE  disturbed \subseteq disturbed' /\ \A k \in Nodes : uses[k] \subseteq uses'[k]
    BY <1>2 DEF OnRequest, StackType
  <1>3. ASSUME NEW r \in Requests, SendFails(r)
        PROVE  disturbed \subseteq disturbed' /\ \A n \in Nodes : uses[n] \subseteq uses'[n]
    BY <1>3 DEF SendFails, Disturb, StackType
  <1>4. QED
    BY <1>1, <1>2, <1>3
       DEF Next, vars, Broadcast, Accept, Refuse, TimeOut, Lose, Repeat, Late, Befalls, Disturb

\* Every step leaves a numbering for each node that asks one node only.
LEMMA NextOrdered ==
    StackType /\ Routed /\ Ordered /\ [Next]_vars => Ordered'
  <1> SUFFICES ASSUME StackType, Routed, Ordered, [Next]_vars,
                      NEW l \in Links, Exclusive(l)', InTurn(l)'
               PROVE  \E num \in Numberings, replied \in Nat : InOrder(l, num, replied)'
    BY DEF Ordered, Numberings
  <1> DEFINE Goal == \E num \in Numberings, replied \in Nat : InOrder(l, num, replied)'
  <1> SUFFICES Goal
    OBVIOUS
  <1>0. PICK c \in Nodes, d \in Nodes :
           c = l[1] /\ d = l[2] /\ l = <<c, d>> /\ c # d /\ Back(l) = <<d, c>>
           /\ Back(l) \in Links /\ Back(l) # l
    BY DEF Links, Back
  <1>1. Exclusive(l) /\ InTurn(l) /\ disturbed \subseteq disturbed'
    BY <1>0, History DEF Exclusive, InTurn
  <1>2. PICK num \in Numberings, replied \in Nat : InOrder(l, num, replied)
    BY <1>1 DEF Ordered, Numberings
  <1>3. replied \in Nat
    BY SizeAssumption
  <1>4. uses'[c] \subseteq {<<"request", d>>} /\ uses'[d] \subseteq {<<"reply", c>>}
    BY <1>0 DEF Exclusive
  <1>a. ASSUME Released(c), seq_counter'[c] = seq_counter[c], seq_counter'[d] = seq_counter[d],
               new' \cap {r \in Requests : r.src = c} = new \cap {r \in Requests : r.src = c},
               NoneTold(l),
               \/ link'[l] = link[l]
               \/ Shorter(l) /\ <<"lost", l>> \in disturbed'
               \/ \E f : Longer(l, f) /\ f.type = "REQUEST" /\ f.for = All
        PROVE  Goal
    <2>1. InOrder(l, num, replied)'
      BY <1>0, <1>1, <1>2, <1>3, <1>a, Kept
    <2>2. QED
      BY <2>1
  <1>b. /\ link'[Back(l)] = link[Back(l)] => NoneTold(l)
        /\ Shorter(Back(l)) => NoneTold(l)
        /\ \A f : Longer(Back(l), f) /\ f.type = "REQUEST" => NoneTold(l)
        /\ Longer(Back(l), link[Back(l)][1]) /\ 1 \in 1..Len(link[Back(l)]) => NoneTold(l)
        /\ Shuffled(Back(l)) => NoneTold(l)
    BY DEF NoneTold, Shorter, Longer, Shuffled
  <1>c. \A L : Same(L) => /\ l \notin L => link'[l] = link[l]
                          /\ Back(l) \notin L => link'[Back(l)] = link[Back(l)]
    BY <1>0 DEF Same
  <1>d. trans_table' = trans_table => Released(c)
    BY DEF Released
  <1>e. ASSUME NEW n, NEW i, trans_table' = [trans_table EXCEPT ![n][i] = Idle] PROVE Released(c)
    <2>1. Idle.state # "WAITING"
      BY DEF Idle
    <2>2. QED
      BY <1>e, <2>1 DEF Released, StackType
  <1> HIDE DEF Goal
  <1>5. ASSUME NEW r \in Requests, SendRequest(r) PROVE Goal
    <2>1. /\ r \in new /\ new' = new \ {r}
          /\ uses' = [uses EXCEPT ![r.src] = @ \cup {<<"request", r.dst>>}]
          /\ seq_counter' = [seq_counter EXCEPT ![r.src] = Increment(@)]
      BY <1>5 DEF SendRequest
    <2>2. PICK i \in Slots :
             /\ trans_table' = [trans_table EXCEPT ![r.src][i] =
                   [state |-> "WAITING", req |-> r, seq |-> seq_counter[r.src]]]
             /\ \E f : link' = [link EXCEPT ![<<r.src, r.dst>>] = Append(@, f)]
      BY <1>5 DEF SendRequest
    <2>3. r.src \in Nodes /\ <<"request", r.dst>> \in uses'[r.src] /\ <<r.src, r.dst>> \in Links
      BY <2>1, NameAssumption DEF Links, StackType
    <2>4. CASE r.src = c
      <3>1. <<r.src, r.dst>> = l
        BY <1>0, <1>4, <2>3, <2>4
      <3>2. \E mine \in Numberings : InOrder(l, mine, replied)'
        BY <1>2, <1>3, <1>5, <3>1, Sent
      <3>3. QED
        BY <3>2 DEF Goal
    <2>5. CASE r.src # c
      <3>1. r.src # d
        BY <1>4, <2>3
      <3>2. link'[l] = link[l] /\ link'[Back(l)] = link[Back(l)]
        BY <1>0, <2>2, <2>5, <3>1 DEF StackType
      <3>3. Released(c)
        BY <2>2, <2>3, <2>5 DEF Released, StackType
      <3>4. seq_counter'[c] = seq_counter[c] /\ seq_counter'[d] = seq_counter[d]
        BY <2>1, <2>5, <3>1 DEF StackType
      <3>5. new' \cap {q \in Requests : q.src = c} = new \cap {q \in Requests : q.src = c}
        BY <2>1, <2>5
      <3>6. QED
        BY <1>a, <1>b, <3>2, <3>3, <3>4, <3>5
    <2>6. QED
      BY <2>4, <2>5
  <1>6. ASSUME NEW n \in Nodes, Broadcast(n) PROVE Goal
    <2> DEFINE f == Message("REQUEST", 0, bcast_seq_counter[n], All)
    <2>1. f.type = "REQUEST" /\ f.for = All
      BY DEF Message
    <2>2. /\ \A k \in Links : k[1] = n => Longer(k, f)
          /\ Same({k \in Links : k[1] = n})
      BY <1>6, BroadcastLinks
    <2>3. UNCHANGED <<seq_counter, trans_table, new>>
      BY <1>6 DEF Broadcast
    <2> HIDE DEF f
    <2>4. link'[l] = link[l] \/ Longer(l, f)
      BY <1>c, <2>2
    <2>5. link'[Back(l)] = link[Back(l)] \/ Longer(Back(l), f)
      BY <1>0, <1>c, <2>2
    <2>6. NoneTold(l)
      BY <1>b, <2>1, <2>5
    <2>7. QED
      BY <1>a, <1>d, <2>1, <2>3, <2>4, <2>6
  <1>7. ASSUME NEW n \in Nodes, NEW m \in Nodes, OnRequest(n, m) PROVE Goal
    <2>1. /\ <<m, n>> \in Links /\ <<n, m>> \in Links
          /\ Same({<<m, n>>, <<n, m>>})
      BY <1>7, RepliedLinks
    <2>2. /\ UNCHANGED <<trans_table, new>>
          /\ seq_counter' = [seq_counter EXCEPT ![n] = Increment(@)]
          /\ <<"reply", IF Head(link[<<m, n>>]).for = All THEN All ELSE m>> \in uses'[n]
      BY <1>7 DEF OnRequest, StackType
    <2>3. n # c
      BY <1>4, <2>2
    <2>4. CASE n = d
      <3>1. Head(link[<<m, n>>]).for # All /\ m = c
        BY <1>0, <1>4, <2>2, <2>4, NameAssumption
      <3>2. OnRequest(l[2], l[1])
        BY <1>0, <1>7, <2>4, <3>1, Zenon
      <3>3. <<m, n>> = l /\ link[l] # <<>>
        BY <1>0, <1>7, <2>4, <3>1 DEF OnRequest, Polls
      <3>4. link[l][1].for # All
        BY <3>1, <3>3, Polled
      <3>5. InOrder(l, num, replied + 1)' /\ replied + 1 \in Nat
        BY <1>2, <1>3, <3>2, <3>4, Answered
      <3>6. QED
        BY <3>5 DEF Goal
    <2>5. CASE n # d
      <3>1. l \notin {<<m, n>>, <<n, m>>} /\ Back(l) \notin {<<m, n>>, <<n, m>>}
        BY <1>0, <2>3, <2>5
      <3>2. link'[l] = link[l] /\ link'[Back(l)] = link[Back(l)]
        BY <1>c, <2>1, <3>1
      <3>3. seq_counter'[c] = seq_counter[c] /\ seq_counter'[d] = seq_counter[d]
        BY <2>2, <2>3, <2>5 DEF StackType
      <3>4. QED
        BY <1>a, <1>b, <1>d, <2>2, <3>2, <3>3
    <2>6. QED
      BY <2>4, <2>5
  <1>8. ASSUME NEW k \in Links, link[k] # <<>>, link' = [link EXCEPT ![k] = Tail(@)],
               k = l => <<"lost", l>> \in disturbed',
               Released(c), UNCHANGED <<seq_counter, new>>
        PROVE  Goal
    <2>1. Shorter(k) /\ Same({k})
      BY <1>8, TakenLinks
    <2>2. CASE k = l
      BY <1>0, <1>8, <1>a, <1>b, <1>c, <2>1, <2>2
    <2>3. CASE k # l
      <3>1. link'[l] = link[l]
        BY <1>c, <2>1, <2>3
      <3>2. NoneTold(l)
        BY <1>b, <1>c, <2>1
      <3>3. QED
        BY <1>8, <1>a, <3>1, <3>2
    <2>4. QED
      BY <2>2, <2>3
  <1>9. ASSUME NEW n \in Nodes, NEW m \in Nodes, Accept(n, m) \/ Refuse(n, m) PROVE Goal
    <2>1. /\ <<m, n>> \in Links /\ link[<<m, n>>] # <<>>
          /\ Head(link[<<m, n>>]).type = "RESPONSE"
          /\ link' = [link EXCEPT ![<<m, n>>] = Tail(@)]
          /\ UNCHANGED <<seq_counter, new>>
      BY <1>9 DEF Accept, Refuse, Polls, Taken
    <2>2. <<m, n>> # l
      <3>1. \A p \in 1..Len(link[l]) : link[l][p].type = "REQUEST"
        BY <1>2 DEF InOrder, Asking
      <3>2. QED
        BY <2>1, <3>1, Polled
    <2>3. Released(c)
      BY <1>9, <1>d, <1>e DEF Accept, Refuse
    <2>4. QED
      BY <1>8, <2>1, <2>2, <2>3
  <1>10. ASSUME NEW n \in Nodes, NEW i \in Slots, TimeOut(n, i) PROVE Goal
    <2>1. Released(c) /\ UNCHANGED <<seq_counter, link, new>>
      BY <1>10, <1>e DEF TimeOut
    <2>2. QED
      BY <1>a, <1>b, <2>1
  <1>11. ASSUME NEW k \in Links, Lose(k) PROVE Goal
    <2>1. /\ link[k] # <<>> /\ link' = [link EXCEPT ![k] = Tail(@)]
          /\ <<"lost", k>> \in disturbed' /\ UNCHANGED <<seq_counter, trans_table, new>>
      BY <1>11 DEF Lose, Befalls, Disturb
    <2>2. QED
      BY <1>8, <1>d, <2>1
  <1>12. ASSUME NEW k \in Links, Repeat(k) PROVE Goal
    <2>1. /\ link[k] # <<>> /\ link' = [link EXCEPT ![k] = Append(@, Head(@))]
          /\ <<"repeated", k>> \in disturbed' /\ UNCHANGED <<seq_counter, trans_table, new>>
      BY <1>12 DEF Repeat, Befalls, Disturb
    <2>2. k # l
      BY <2>1 DEF InTurn
    <2>3. /\ Head(link[k]) \in MessageType /\ Head(link[k]) = link[k][1]
          /\ 1 \in 1..Len(link[k])
      BY <2>1, Polled
    <2>4. Longer(k, link[k][1]) /\ Same({k})
      BY <2>1, <2>3, SentLinks
    <2>5. link'[l] = link[l] /\ NoneTold(l)
      BY <1>b, <1>c, <2>2, <2>3, <2>4
    <2>6. QED
      BY <1>a, <1>d, <2>1, <2>5
  <1>13. ASSUME NEW k \in Links, Late(k) PROVE Goal
    <2>1. /\ Shuffled(k) /\ Same({k}) /\ <<"late", k>> \in disturbed'
          /\ UNCHANGED <<seq_counter, trans_table, new>>
      BY <1>13, LateLinks
    <2>2. k # l
      BY <2>1 DEF InTurn
    <2>3. link'[l] = link[l] /\ NoneTold(l)
      BY <1>b, <1>c, <2>1, <2>2
    <2>4. QED
      BY <1>a, <1>d, <2>1, <2>3
  <1>14. ASSUME NEW r \in Requests, SendFails(r) PROVE Goal
    <2>1. /\ r \in new /\ new' = new \ {r}
          /\ uses' = [uses EXCEPT ![r.src] = @ \cup {<<"request", r.dst>>}]
          /\ seq_counter' = [seq_counter EXCEPT ![r.src] = Increment(@)]
          /\ UNCHANGED <<trans_table, link>>
      BY <1>14 DEF SendFails
    <2>2. r.src \in Nodes /\ <<"request", r.dst>> \in uses'[r.src] /\ <<r.src, r.dst>> \in Links
      BY <2>1, NameAssumption DEF Links, StackType
    <2>3. CASE r.src = c
      <3>1. <<r.src, r.dst>> = l
        BY <1>0, <1>4, <2>2, <2>3
      <3>2. \E mine \in Numberings : InOrder(l, mine, replied)'
        BY <1>2, <1>3, <1>14, <3>1, Failed
      <3>3. QED
        BY <3>2 DEF Goal
    <2>4. CASE r.src # c
      <3>1. r.src # d
        BY <1>4, <2>2
      <3>2. seq_counter'[c] = seq_counter[c] /\ seq_counter'[d] = seq_counter[d]
        BY <2>1, <2>4, <3>1 DEF StackType
      <3>3. new' \cap {q \in Requests : q.src = c} = new \cap {q \in Requests : q.src = c}
        BY <2>1, <2>4
      <3>4. QED
        BY <1>a, <1>b, <1>d, <2>1, <3>2, <3>3
    <2>5. QED
      BY <2>3, <2>4
  <1>15. CASE UNCHANGED vars
    BY <1>15, <1>a, <1>b, <1>d DEF vars
  <1>16. QED
    BY <1>5, <1>6, <1>7, <1>9, <1>10, <1>11, <1>12, <1>13, <1>14, <1>15, SizeAssumption
       DEF Next
-----------------------------------------------------------------------------
(* What the nodes are told.                                                *)

\* No node makes more requests than its counter has numbers.
FewRequests ==
    /\ IsFiniteSet(Requests)
    /\ \A n \in Nodes : Cardinality({r \in Requests : r.src = n}) <= SeqMod

\* So the requests made number no more.
LEMMA MadeCount ==
    ASSUME FewRequests, new \subseteq Requests, NEW n \in Nodes
    PROVE  Cardinality(Made(n)) \in Nat /\ Cardinality(Made(n)) <= SeqMod
  <1> DEFINE R == {r \in Requests : r.src = n}
  <1>1. IsFiniteSet(R) /\ Cardinality(R) <= SeqMod
    <2>1. R \subseteq Requests
      OBVIOUS
    <2>2. QED
      BY <2>1, FS_Subset DEF FewRequests
  <1>2. Made(n) \subseteq R
    BY DEF Made
  <1>3. /\ Cardinality(Made(n)) <= Cardinality(R)
        /\ Cardinality(Made(n)) \in Nat /\ Cardinality(R) \in Nat
    BY <1>1, <1>2, FS_Subset, FS_CardinalityType
  <1>4. QED
    BY <1>1, <1>3, SizeAssumption

\* The message that a node takes from the link of the one it asks is its first.
LEMMA FirstTold ==
    ASSUME StackType, NEW n \in Nodes, NEW m \in Nodes, Polls(n, m, "RESPONSE")
    PROVE  LET f == Head(link[<<m, n>>]) IN
           /\ <<m, n>> \in Links /\ <<n, m>> \in Links /\ Back(<<n, m>>) = <<m, n>>
           /\ 1 \in 1..Len(link[<<m, n>>]) /\ f = link[<<m, n>>][1]
           /\ f.type = "RESPONSE" /\ f.trans_id \in Slots
  <1>1. <<m, n>> \in Links /\ link[<<m, n>>] # <<>> /\ Head(link[<<m, n>>]).type = "RESPONSE"
    BY DEF Polls
  <1>2. QED
    BY <1>1, Polled DEF Links, Back, MessageType

\* An answer is accepted for the request it answers: the number of the reply is no
\* higher than that of its request, nor this than that of the request in its slot.
LEMMA AcceptOwn ==
    ASSUME FewRequests, StackType, Ordered, NEW n \in Nodes, NEW m \in Nodes, Accept(n, m)
    PROVE  LET f == Head(link[<<m, n>>])  s == trans_table[n][f.trans_id] IN
           /\ s.req \in Requests /\ s.req.src = n /\ s.req.dst = m
           /\ Exclusive(<<n, m>>) /\ InTurn(<<n, m>>) => f.for = s.req
  <1> DEFINE f == Head(link[<<m, n>>])
             s == trans_table[n][f.trans_id]
  <1>0. PICK l \in Links : l = <<n, m>>
    BY DEF Accept, Polls, Links
  <1>1. Polls(n, m, "RESPONSE") /\ s.state = "WAITING" /\ s.seq = f.seq /\ s.req.dst = m
    BY DEF Accept, Matches
  <1>2. /\ Back(l) = <<m, n>> /\ 1 \in 1..Len(link[<<m, n>>])
        /\ f = link[<<m, n>>][1] /\ f.type = "RESPONSE" /\ f.trans_id \in Slots
    BY <1>0, <1>1, FirstTold
  <1>3. s.req \in Requests /\ s.req.src = n
    <2>1. s \in SlotType
      BY <1>2 DEF StackType
    <2>2. QED
      BY <1>1, <1>2, <2>1 DEF StackType, SlotType, Idle
  <1> SUFFICES ASSUME Exclusive(l), InTurn(l) PROVE f.for = s.req
    BY <1>0, <1>1, <1>3
  <1>4. PICK num \in Numberings, replied \in Nat : InOrder(l, num, replied)
    BY DEF Ordered, Numberings
  <1>5. l[1] = n
    BY <1>0
  <1> HIDE DEF f
  <1>6. PICK k \in Nat : f.for \in Made(n) /\ k <= num[f.for] /\ f.seq = Shown(k)
    <2>1. f.for \in Made(n) /\ \E k \in 0..num[f.for] : f.seq = Shown(k)
      BY <1>2, <1>4, <1>5 DEF InOrder, Telling
    <2>2. QED
      BY <2>1
  <1>7. s.req \in Made(n) /\ s.seq = Shown(num[s.req])
    BY <1>1, <1>2, <1>4, <1>5 DEF InOrder, Waiting
  <1>8. num[f.for] <= num[s.req]
    BY <1>1, <1>2, <1>4, <1>5 DEF InOrder, Telling, Current
  <1>9. num[f.for] \in Nat /\ num[s.req] \in Nat
    BY <1>6, <1>7 DEF Numberings, Made
  <1>10. num[s.req] < SeqMod
    <2>1. num[s.req] < Cardinality(Made(n))
      BY <1>4, <1>5, <1>7 DEF InOrder, Numbers
    <2>2. QED
      BY <1>9, <2>1, MadeCount, SizeAssumption DEF StackType
  <1> HIDE DEF s
  <1>11. k = num[s.req]
    <2>1. k < SeqMod
      BY <1>6, <1>8, <1>9, <1>10, SizeAssumption
    <2>2. Shown(k) = k /\ Shown(num[s.req]) = num[s.req]
      BY <1>9, <1>10, <2>1, ShownNext
    <2>3. QED
      BY <1>1, <1>6, <1>7, <2>2
  <1>12. num[f.for] = num[s.req]
    BY <1>6, <1>8, <1>9, <1>11
  <1>13. QED
    BY <1>4, <1>5, <1>6, <1>7, <1>12 DEF InOrder, Numbers

\* Answers are accepted for requests.
OwnInv == AnswersOwn /\ \A a \in answered : a[1] \in Requests

\* Every answer accepted, now or before, was the request's own.
LEMMA NextOwn ==
    ASSUME FewRequests PROVE StackType /\ Ordered /\ OwnInv /\ [Next]_vars => OwnInv'
  <1> SUFFICES ASSUME StackType, Ordered, OwnInv, [Next]_vars PROVE OwnInv'
    OBVIOUS
  <1>1. ASSUME NEW a \in answered, NEW l \in Links, l = <<a[1].src, a[1].dst>>,
               Exclusive(l)', InTurn(l)'
        PROVE  a[2] = a[1]
    <2>1. l[1] \in Nodes /\ l[2] \in Nodes
      BY DEF Links
    <2>2. Exclusive(l) /\ InTurn(l)
      BY <1>1, <2>1, History DEF Exclusive, InTurn
    <2>3. QED
      BY <1>1, <2>2 DEF OwnInv, AnswersOwn
  <1>2. \A a \in answered : <<a[1].src, a[1].dst>> \in Links
    BY NameAssumption DEF OwnInv
  <1>3. CASE UNCHANGED answered
    BY <1>1, <1>2, <1>3 DEF OwnInv, AnswersOwn
  <1>4. ASSUME NEW n \in Nodes, NEW m \in Nodes, Accept(n, m) PROVE OwnInv'
    <2> DEFINE f == Head(link[<<m, n>>])
               s == trans_table[n][f.trans_id]
    <2>1. answered' = answered \cup {<<s.req, f.for>>} /\ UNCHANGED <<uses, disturbed>>
      BY <1>4 DEF Accept
    <2>2. /\ s.req \in Requests /\ s.req.src = n /\ s.req.dst = m
          /\ Exclusive(<<n, m>>) /\ InTurn(<<n, m>>) => f.for = s.req
      BY <1>4, AcceptOwn
    <2> HIDE DEF f, s
    <2>3. \A a \in answered' : a[1] \in Requests
      BY <2>1, <2>2 DEF OwnInv
    <2>4. ASSUME NEW a \in answered', Exclusive(<<a[1].src, a[1].dst>>)',
                 InTurn(<<a[1].src, a[1].dst>>)'
          PROVE  a[2] = a[1]
      <3>1. CASE a \in answered
        BY <1>1, <1>2, <2>4, <3>1
      <3>2. CASE a = <<s.req, f.for>>
        <4>1. a[1] = s.req /\ a[2] = f.for
          BY <3>2
        <4>2. Exclusive(<<n, m>>) /\ InTurn(<<n, m>>)
          BY <2>1, <2>2, <2>4, <4>1 DEF Exclusive, InTurn
        <4>3. QED
          BY <2>2, <4>1, <4>2
      <3>3. QED
        BY <2>1, <3>1, <3>2
    <2>5. QED
      BY <2>3, <2>4 DEF OwnInv, AnswersOwn
  <1>5. QED
    BY <1>3, <1>4 DEF Next, vars, SendRequest, SendFails, Broadcast, OnRequest, Refuse,
                      TimeOut, Lose, Repeat, Late, Befalls

\* A reply is refused while its request waits only where a request was lost: without,
\* it has its request's number.
LEMMA RefuseInStep ==
    ASSUME StackType, Routed, Ordered, NEW n \in Nodes, NEW m \in Nodes, Refuse(n, m)
    PROVE  LET f == Head(link[<<m, n>>])  s == trans_table[n][f.trans_id] IN
           s.state = "WAITING" /\ s.req = f.for =>
              /\ s.req \in Requests /\ s.req.src = n /\ s.req.dst = m
              /\ ~(Exclusive(<<n, m>>) /\ InTurn(<<n, m>>) /\ <<"lost", <<n, m>>>> \notin disturbed)
  <1> DEFINE f == Head(link[<<m, n>>])
             s == trans_table[n][f.trans_id]
  <1>0. PICK l \in Links : l = <<n, m>>
    BY DEF Refuse, Polls, Links
  <1>1. Polls(n, m, "RESPONSE") /\ ~(s.state = "WAITING" /\ s.req.dst = m /\ s.seq = f.seq)
    BY DEF Refuse, Matches
  <1>2. /\ <<m, n>> \in Links /\ Back(l) = <<m, n>> /\ 1 \in 1..Len(link[<<m, n>>])
        /\ f = link[<<m, n>>][1] /\ f.type = "RESPONSE" /\ f.trans_id \in Slots
    BY <1>0, <1>1, FirstTold
  <1> SUFFICES ASSUME s.state = "WAITING", s.req = f.for
               PROVE  /\ s.req \in Requests /\ s.req.src = n /\ s.req.dst = m
                      /\ ~(Exclusive(l) /\ InTurn(l) /\ <<"lost", l>> \notin disturbed)
    BY <1>0
  <1>3. s.req \in Requests /\ s.req.src = n
    <2>1. s \in SlotType
      BY <1>2 DEF StackType
    <2>2. QED
      BY <1>2, <2>1 DEF StackType, SlotType, Idle
  <1>4. s.req.dst = m
    <2>1. f.for # All
      BY <1>3, NameAssumption
    <2>2. <<f.for.src, f.for.dst>> = Back(<<m, n>>)
      <3> HIDE DEF f
      <3>1. QED
        BY <1>2, <2>1 DEF Routed
    <2>3. QED
      BY <2>2 DEF Back
  <1> SUFFICES ASSUME Exclusive(l), InTurn(l), <<"lost", l>> \notin disturbed PROVE FALSE
    BY <1>3, <1>4
  <1>5. PICK num \in Numberings, replied \in Nat : InOrder(l, num, replied)
    BY DEF Ordered, Numberings
  <1>6. l[1] = n
    BY <1>0
  <1> HIDE DEF f
  <1>7. f.seq = Shown(num[f.for])
    BY <1>2, <1>5, <1>6 DEF InOrder, Exact
  <1>8. s.seq = Shown(num[s.req])
    BY <1>2, <1>5, <1>6 DEF InOrder, Waiting
  <1>9. QED
    BY <1>1, <1>4, <1>7, <1>8

\* Refused are requests.
StepInv == InStep /\ refused \subseteq Requests

\* No step refuses the reply to a request that waits, where all requests arrive in turn.
LEMMA NextInStep == StackType /\ Routed /\ Ordered /\ StepInv /\ [Next]_vars => StepInv'
  <1> SUFFICES ASSUME StackType, Routed, Ordered, StepInv, [Next]_vars PROVE StepInv'
    OBVIOUS
  <1>1. ASSUME NEW l \in Links, Exclusive(l)', InTurn(l)', <<"lost", l>> \notin disturbed'
        PROVE  /\ \A r \in refused : <<r.src, r.dst>> # l
               /\ Exclusive(l) /\ InTurn(l) /\ <<"lost", l>> \notin disturbed
    <2>1. l[1] \in Nodes /\ l[2] \in Nodes
      BY DEF Links
    <2>2. Exclusive(l) /\ InTurn(l) /\ <<"lost", l>> \notin disturbed
      BY <1>1, <2>1, History DEF Exclusive, InTurn
    <2>3. QED
      BY <1>1, <2>2 DEF StepInv, InStep
  <1>2. CASE UNCHANGED refused
    BY <1>1, <1>2 DEF StepInv, InStep
  <1>3. ASSUME NEW n \in Nodes, NEW m \in Nodes, Refuse(n, m), ~UNCHANGED refused PROVE StepInv'
    <2> DEFINE f == Head(link[<<m, n>>])
               s == trans_table[n][f.trans_id]
    <2>1. /\ s.state = "WAITING" /\ s.req = f.for /\ refused' = refused \cup {f.for}
      BY <1>3 DEF Refuse
    <2>2. /\ s.req \in Requests /\ s.req.src = n /\ s.req.dst = m
          /\ ~(Exclusive(<<n, m>>) /\ InTurn(<<n, m>>) /\ <<"lost", <<n, m>>>> \notin disturbed)
      BY <1>3, <2>1, RefuseInStep
    <2> HIDE DEF f, s
    <2>3. ASSUME NEW l \in Links, Exclusive(l)',
                 InTurn(l)', <<"lost", l>> \notin disturbed'
          PROVE  \A r \in refused' : <<r.src, r.dst>> # l
      <3>1. <<s.req.src, s.req.dst>> # l
        BY <1>1, <2>2, <2>3
      <3>2. QED
        BY <1>1, <2>1, <2>3, <3>1
    <2>4. QED
      BY <2>1, <2>2, <2>3 DEF StepInv, InStep
  <1>4. QED
    BY <1>2, <1>3 DEF Next, vars, SendRequest, SendFails, Broadcast, OnRequest, Accept,
                      TimeOut, Lose, Repeat, Late, Befalls

\* At first no request is made and no message under way.
LEMMA InitOrdered == Init => Routed /\ Ordered /\ OwnInv /\ StepInv
  <1> SUFFICES ASSUME Init PROVE Routed /\ Ordered /\ OwnInv /\ StepInv
    OBVIOUS
  <1>1. \A l \in Links : l[1] \in Nodes /\ l[2] \in Nodes /\ Back(l) \in Links
    BY DEF Links, Back
  <1>2. \A l \in Links : Len(link[l]) = 0 /\ Len(link[Back(l)]) = 0
    BY <1>1 DEF Init
  <1>3. \A n : Made(n) = {}
    BY DEF Init, Made
  <1>4. Cardinality({}) = 0 /\ IsFiniteSet({}) /\ Shown(0) = 0
    BY FS_EmptySet, ShownNext, SizeAssumption
  <1>5. PICK num : num \in Numberings
    <2>1. [r \in Requests |-> 0] \in Numberings
      BY DEF Numberings
    <2>2. QED
      BY <2>1
  <1>6. ASSUME NEW l \in Links PROVE InOrder(l, num, 0)
    <2>1. Numbers(l, num) /\ seq_counter[l[2]] = Shown(0) /\ 0 <= Cardinality(Made(l[1]))
      <3>1. seq_counter[l[1]] = 0 /\ seq_counter[l[2]] = 0
        BY <1>1 DEF Init
      <3>2. Cardinality(Made(l[1])) = 0 /\ IsFiniteSet(Made(l[1])) /\ Made(l[1]) = {}
        BY <1>3, <1>4
      <3>3. seq_counter[l[1]] = Shown(Cardinality(Made(l[1])))
        BY <1>4, <3>1, <3>2
      <3>4. QED
        BY <1>4, <3>1, <3>2, <3>3 DEF Numbers
    <2>2. Waiting(l[1], num)
      BY <1>1 DEF Init, Waiting, Idle
    <2>3. Asking(l, num, 0) /\ Telling(l, num) /\ Exact(l, num, 0)
      <3>1. 1..Len(link[l]) = {} /\ 1..Len(link[Back(l)]) = {}
        BY <1>2
      <3>2. Cardinality(Made(l[1])) = 0 + Len(link[l])
        <4>1. Cardinality(Made(l[1])) = 0
          BY <1>3, <1>4, Zenon
        <4>2. QED
          BY <1>2, <4>1
      <3>3. Asking(l, num, 0) /\ Telling(l, num)
        BY <3>1 DEF Asking, Telling
      <3>4. Exact(l, num, 0)
        BY <3>1, <3>2 DEF Exact
      <3>5. QED
        BY <3>3, <3>4
    <2>4. QED
      BY <2>1, <2>2, <2>3 DEF InOrder
  <1>7. Ordered
    BY <1>4, <1>5, <1>6 DEF Ordered, Numberings
  <1>8. QED
    BY <1>2, <1>7 DEF Init, Routed, OwnInv, StepInv, AnswersOwn, InStep

\* Why the nodes are told in order, kept by every step.
LEMMA StackOrdered == Spec => [](StackType /\ Routed /\ Ordered)
  <1>1. StackType /\ Routed /\ Ordered /\ [Next]_vars => StackType' /\ Routed' /\ Ordered'
    BY NextType, NextRouted, NextOrdered
  <1>2. QED
    BY <1>1, InitType, InitOrdered, PTL DEF Spec

\* A node that asks one node only, of which it is the only one to ask, takes no reply for
\* another request's, if its requests that arrive do so in turn and its numbers last:
\* whatever requests are lost, whatever happens to the replies and however the slots
\* are reused.
THEOREM OwnAnswers == ASSUME FewRequests PROVE Spec => []AnswersOwn
  <1>1. OwnInv => AnswersOwn
    BY DEF OwnInv
  <1>2. QED
    BY <1>1, StackOrdered, InitOrdered, NextOwn, PTL DEF Spec

\* Such a node never refuses the reply to a request that waits, if no request is lost or
\* fails to be sent either; also when its counter has wrapped, any number of times.
THEOREM RepliesInStep == Spec => []InStep
  <1>1. StepInv => InStep
    BY DEF StepInv
  <1>2. QED
    BY <1>1, StackOrdered, InitOrdered, NextInStep, PTL DEF Spec
=============================================================================
