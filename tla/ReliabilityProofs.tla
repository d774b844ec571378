------------------------- MODULE ReliabilityProofs -------------------------
(***************************************************************************)
(* Theorems about Reliability, for every table, any messages, peers and    *)
(* broadcasts, any number of retries and any clock.                        *)
(***************************************************************************)
EXTENDS Reliability, TLAPS

-----------------------------------------------------------------------------
(* The invariant.                                                          *)

\* The loop of route_frag_send has come to fragment f of its message and dealt with
\* its registration.
Reached(f) == f[2] < frag[f[1]] \/ (f[2] = frag[f[1]] /\ pc[f[1]] # "register")

\* Entry e is for fragment f.
Holds(e, f) == pending_acks[e].active /\ Fragment(pending_acks[e]) = f

\* An entry is for a fragment, and counts what the tick has sent of it.
Counted ==
    /\ \A e \in Entries : pending_acks[e].active => Fragment(pending_acks[e]) \in Fragments
    /\ \A e \in Entries, f \in Fragments :
          Holds(e, f) => Reached(f) /\ resent[f] = pending_acks[e].retry_count

\* No fragment has two entries.
Unique == \A f \in Fragments : \A d, e \in Entries : Holds(d, f) /\ Holds(e, f) => d = e

\* A fragment not yet registered has no past, and one given up no future.
Ordered ==
    /\ \A f \in Fragments : ~Reached(f) => resent[f] = 0 /\ f \notin gaveup
    /\ \A f \in Fragments : f \in gaveup =>
          resent[f] = RetryMax /\ \A e \in Entries : ~Holds(e, f)

\* The call that sends f has failed with it, or has found no room for it.
Unregistered(f) ==
    /\ f[2] = frag[f[1]]
    /\ pc[f[1]] = "failed" \/ (pc[f[1]] = "send" /\ ~rel_ok[f[1]])

\* Such a fragment has no entry.
Withdrawn == \A f \in Fragments : Unregistered(f) => \A e \in Entries : ~Holds(e, f)

Table == Counted /\ Unique /\ Ordered

\* What is under way was sent, or acknowledges what arrived.
Network ==
    /\ sent \subseteq Fragments /\ received \subseteq Fragments
    /\ \A a \in acks :
          \/ \E f \in received : f[1].dest = a.from /\ f[1].seq = a.seq /\ f[2] = a.idx
          \/ a.idx = 0 /\ <<a.from, a.seq>> \in heard

IInv == TypeOK /\ Table /\ Withdrawn /\ Network

-----------------------------------------------------------------------------
(* Facts about the helpers.                                                *)

\* A fragment is a message and an index below its total.
LEMMA FragmentsType ==
    /\ \A f \in Fragments : f = <<f[1], f[2]>> /\ f[1] \in Messages /\ f[2] \in FragIdx /\ f[2] < f[1].total
    /\ \A m \in Messages, i \in FragIdx : i < m.total => <<m, i>> \in Fragments
  BY DEF Fragments

\* The remainder that stands for unsigned wrap-around stays in range.
LEMMA ModInRange ==
    ASSUME NEW m \in Nat \ {0}, NEW a \in Int
    PROVE  a % m \in 0..(m - 1)
  OBVIOUS

\* The time to send again is a uint32_t.
LEMMA NextRetryType ==
    ASSUME NEW now \in 0..(TimeMod - 1), NEW k \in Nat
    PROVE  NextRetry(now, k) \in 0..(TimeMod - 1)
  <1> DEFINE factor == CASE k = 0 -> 1 [] k = 1 -> 2 [] k = 2 -> 4 [] OTHER -> 8
  <1>1. factor \in Nat
    OBVIOUS
  <1>2. AckTimeout * factor \in Int
    BY <1>1, SizeAssumption
  <1>3. now + AckTimeout * factor \in Int
    BY <1>2
  <1>4. QED
    BY <1>3, ModInRange, SizeAssumption DEF NextRetry

\* The free entry is typed.
LEMMA FreeType == Free \in EntryType /\ ~Free.active
  BY SizeAssumption DEF Free, EntryType, FragIdx

\* An entry stays typed through its turn in the tick.
LEMMA TickedType ==
    ASSUME NEW p \in EntryType, NEW now \in 0..(TimeMod - 1)
    PROVE  Ticked(p, now) \in EntryType
  <1>1. p.retry_count \in Nat /\ p.retry_count + 1 \in Nat
    BY SizeAssumption DEF EntryType
  <1>2. /\ NextRetry(now, 0) \in 0..(TimeMod - 1)
        /\ NextRetry(now, p.retry_count + 1) \in 0..(TimeMod - 1)
    BY <1>1, NextRetryType
  <1>3. Arm(p, now) \in EntryType
    BY <1>2 DEF Arm, EntryType
  <1>4. ASSUME ~Exhausted(p)
        PROVE  [p EXCEPT !.retry_count = @ + 1,
                         !.next_retry_ms = NextRetry(now, p.retry_count + 1)] \in EntryType
    <2>1. p.retry_count + 1 \in 0..RetryMax
      BY <1>4, SizeAssumption DEF Exhausted, EntryType
    <2>2. QED
      BY <1>2, <2>1 DEF EntryType
  <1>5. QED
    BY <1>3, <1>4, FreeType DEF Ticked

\* A fragment the loop of a call is at is one of the fragments.
LEMMA CurrentType ==
    ASSUME TypeOK, NEW m \in Messages
    PROVE  <<m, frag[m]>> \in Fragments
  BY FragmentsType DEF TypeOK

-----------------------------------------------------------------------------
(* Steps that at most clear entries: every action but Register and Tick.   *)

\* Nothing is added to the table.
Shrinks == \A e \in Entries : pending_acks'[e] = pending_acks[e] \/ ~pending_acks'[e].active

\* Such a step keeps the table, wherever the loops of the calls go on to.
LEMMA TableKept ==
    ASSUME Table, Shrinks, resent' = resent, gaveup' = gaveup,
           \A f \in Fragments : Reached(f) => Reached(f)'
    PROVE  Table'
  <1>1. \A e \in Entries, f \in Fragments :
           Holds(e, f)' => Holds(e, f) /\ pending_acks'[e] = pending_acks[e]
    BY DEF Shrinks, Holds
  <1>2. Counted'
    <2>1. ASSUME NEW e \in Entries, pending_acks'[e].active
          PROVE  Fragment(pending_acks'[e]) \in Fragments
      BY <2>1 DEF Shrinks, Table, Counted, Fragment
    <2>2. ASSUME NEW e \in Entries, NEW f \in Fragments, Holds(e, f)'
          PROVE  Reached(f)' /\ resent'[f] = pending_acks'[e].retry_count
      BY <1>1, <2>2 DEF Table, Counted
    <2>3. QED
      BY <2>1, <2>2 DEF Counted, Fragment
  <1>3. Unique'
    BY <1>1 DEF Table, Unique
  <1>4. Ordered'
    BY <1>1 DEF Table, Ordered
  <1>5. QED
    BY <1>2, <1>3, <1>4 DEF Table

\* A fragment that becomes one that must have no entry has none, if it was not
\* registered before.
LEMMA WithdrawnKept ==
    ASSUME Withdrawn, Counted, Shrinks,
           \A f \in Fragments : Unregistered(f)' => Unregistered(f) \/ ~Reached(f)
    PROVE  Withdrawn'
  <1>1. \A e \in Entries, f \in Fragments : Holds(e, f)' => Holds(e, f)
    BY DEF Shrinks, Holds
  <1>2. QED
    BY <1>1 DEF Withdrawn, Counted

\* OnAck at most clears an entry.
LEMMA OnAckShrinks ==
    ASSUME NEW dest, NEW seq, NEW idx, OnAck(dest, seq, idx)
    PROVE  Shrinks
  BY FreeType DEF OnAck, Shrinks

\* OnAck keeps the type of the table.
LEMMA OnAckType ==
    ASSUME TypeOK, NEW dest, NEW seq, NEW idx, OnAck(dest, seq, idx)
    PROVE  /\ pending_acks' \in [Entries -> EntryType]
           /\ \A e \in Entries : pending_acks'[e].active => pending_acks'[e].msg \in Messages
  BY FreeType DEF OnAck, TypeOK

\* OnAck with the names of a fragment leaves no entry for it: there was one at most,
\* because no other message of its destination has its number.
LEMMA OnAckClears ==
    ASSUME TypeOK, Table, NEW f \in Fragments, OnAck(f[1].dest, f[1].seq, f[2])
    PROVE  \A e \in Entries : ~Holds(e, f)'
  <1> DEFINE Match(e) == Matches(pending_acks[e], f[1].dest, f[1].seq, f[2])
  <1> SUFFICES ASSUME NEW e \in Entries, Holds(e, f)' PROVE FALSE
    OBVIOUS
  <1>1. pending_acks'[e] = pending_acks[e] /\ ~Clears(e, f[1].dest, f[1].seq, f[2])
    BY FreeType DEF OnAck, Holds
  <1>2. Holds(e, f)
    BY <1>1 DEF Holds
  <1>3. Match(e)
    BY <1>2, FragmentsType DEF Holds, Fragment, Matches
  <1>4. ASSUME NEW d \in Entries, Match(d) PROVE d = e
    <2>1. pending_acks[d].active /\ pending_acks[d].msg \in Messages
      BY <1>4 DEF Matches, TypeOK
    <2>2. pending_acks[d].msg = f[1] /\ pending_acks[d].frag_idx = f[2]
      BY <1>4, <2>1, NumberAssumption, FragmentsType DEF Matches
    <2>3. Holds(d, f)
      BY <2>1, <2>2, FragmentsType DEF Holds, Fragment
    <2>4. QED
      BY <1>2, <2>3 DEF Table, Unique
  <1>5. \A d \in Entries : d < e => ~Match(d)
    BY <1>4, SizeAssumption DEF Entries
  <1>6. QED
    BY <1>1, <1>3, <1>5 DEF Clears

-----------------------------------------------------------------------------
(* The calls.                                                              *)

\* The tables are empty and nothing was sent.
LEMMA InitIInv == Init => IInv
  <1> SUFFICES ASSUME Init PROVE IInv
    OBVIOUS
  <1>1. TypeOK
    BY SizeAssumption, MessageAssumption, FreeType DEF Init, TypeOK, FragIdx
  <1>2. Table
    <2>1. \A e \in Entries : ~pending_acks[e].active
      BY FreeType DEF Init
    <2>2. QED
      BY <2>1 DEF Init, Table, Counted, Unique, Ordered, Holds
  <1>3. Withdrawn /\ Network
    BY FreeType DEF Init, Withdrawn, Network, Holds
  <1>4. QED
    BY <1>1, <1>2, <1>3 DEF IInv

\* A fragment that is registered has no entry yet, and takes a free one.
LEMMA RegisterStep ==
    ASSUME IInv, NEW m \in Messages, Register(m)
    PROVE  IInv'
  <1> USE DEF calls, network, history
  <1>1. PICK f \in Fragments : f = <<m, frag[m]>>
    BY CurrentType DEF IInv
  <1>2. PICK e \in Entries, p \in EntryType :
           /\ p.active /\ p.msg = m /\ p.frag_idx = frag[m] /\ p.retry_count = 0
           /\ pending_acks' = [pending_acks EXCEPT ![e] = p]
    <2>1. [active |-> TRUE, msg |-> m, frag_idx |-> frag[m],
           retry_count |-> 0, next_retry_ms |-> 0] \in EntryType
      BY SizeAssumption DEF EntryType, IInv, TypeOK
    <2>2. QED
      BY <2>1 DEF Register
  <1>3. /\ pc[m] = "register" /\ pc' = [pc EXCEPT ![m] = "send"]
        /\ rel_ok' = [rel_ok EXCEPT ![m] = TRUE]
        /\ UNCHANGED <<now_ms, frag, sent, acks, received, heard, confirmed, gaveup, resent>>
    BY DEF Register
  <1>4. /\ pending_acks'[e] = p
        /\ \A d \in Entries : d # e => pending_acks'[d] = pending_acks[d]
        /\ Fragment(p) = f
    BY <1>1, <1>2 DEF IInv, TypeOK, Fragment
  <1>5. TypeOK'
    <2>1. pending_acks' \in [Entries -> EntryType]
      BY <1>2 DEF IInv, TypeOK
    <2>2. \A d \in Entries : pending_acks'[d].active => pending_acks'[d].msg \in Messages
      BY <1>2, <1>4 DEF IInv, TypeOK
    <2>3. QED
      BY <1>3, <2>1, <2>2 DEF IInv, TypeOK
  <1>6. \A g \in Fragments : Reached(g)' <=> Reached(g) \/ g = f
    <2> TAKE g \in Fragments
    <2>1. /\ g = <<g[1], g[2]>> /\ g[1] \in Messages /\ g[2] \in FragIdx
          /\ pc'[g[1]] = IF g[1] = m THEN "send" ELSE pc[g[1]]
      BY <1>3, FragmentsType DEF IInv, TypeOK
    <2>2. g = f <=> g[1] = m /\ g[2] = frag[m]
      BY <1>1, <2>1
    <2>3. QED
      BY <1>3, <2>1, <2>2 DEF Reached
  <1>7. ~Reached(f)
    <2>1. f[1] = m /\ f[2] = frag[m] /\ frag[m] \in Nat
      BY <1>1, SizeAssumption DEF IInv, TypeOK, FragIdx
    <2>2. QED
      BY <1>3, <2>1 DEF Reached
  <1>8. \A d \in Entries : ~Holds(d, f)
    BY <1>7 DEF IInv, Table, Counted
  <1>9. \A d \in Entries, g \in Fragments :
           Holds(d, g)' <=> (d # e /\ Holds(d, g)) \/ (d = e /\ g = f)
    BY <1>2, <1>4 DEF Holds
  <1>10. Counted'
    <2>1. ASSUME NEW d \in Entries, pending_acks'[d].active
          PROVE  Fragment(pending_acks'[d]) \in Fragments
      BY <1>4, <2>1 DEF IInv, Table, Counted
    <2>2. ASSUME NEW d \in Entries, NEW g \in Fragments, Holds(d, g)'
          PROVE  Reached(g)' /\ resent'[g] = pending_acks'[d].retry_count
      <3>1. CASE d = e
        BY <1>2, <1>3, <1>4, <1>6, <1>7, <1>9, <2>2, <3>1 DEF IInv, Table, Ordered
      <3>2. CASE d # e
        BY <1>3, <1>4, <1>6, <1>9, <2>2, <3>2 DEF IInv, Table, Counted
      <3>3. QED
        BY <3>1, <3>2
    <2>3. QED
      BY <2>1, <2>2 DEF Counted, Fragment
  <1>11. Unique'
    BY <1>8, <1>9 DEF IInv, Table, Unique
  <1>12. Ordered'
    BY <1>3, <1>6, <1>7, <1>9 DEF IInv, Table, Ordered
  <1>13. Withdrawn'
    <2> SUFFICES ASSUME NEW g \in Fragments, Unregistered(g)', NEW d \in Entries
                 PROVE  ~Holds(d, g)'
      BY DEF Withdrawn
    <2>1. g[1] \in Messages
      BY FragmentsType
    <2>2. g[1] # m
      BY <1>3, <2>1 DEF IInv, TypeOK, Unregistered
    <2>3. Unregistered(g) /\ g # f
      BY <1>1, <1>3, <2>1, <2>2 DEF IInv, TypeOK, Unregistered
    <2>4. QED
      BY <1>9, <2>3 DEF IInv, Withdrawn
  <1>14. Network'
    BY <1>3 DEF IInv, Network
  <1>15. QED
    BY <1>5, <1>10, <1>11, <1>12, <1>13, <1>14 DEF IInv, Table

\* A fragment that found no room has no entry.
LEMMA RegisterFullStep ==
    ASSUME IInv, NEW m \in Messages, RegisterFull(m)
    PROVE  IInv'
  <1> USE DEF calls, network, history
  <1>1. TypeOK'
    BY DEF RegisterFull, IInv, TypeOK
  <1>2. Shrinks /\ resent' = resent /\ gaveup' = gaveup
    BY DEF RegisterFull, Shrinks
  <1>3. ASSUME NEW f \in Fragments
        PROVE  /\ Reached(f) => Reached(f)'
               /\ Unregistered(f)' => Unregistered(f) \/ ~Reached(f)
    <2>1. f[1] \in Messages /\ f[2] \in Nat /\ frag[f[1]] \in Nat
      BY FragmentsType, SizeAssumption DEF IInv, TypeOK, FragIdx
    <2>2. QED
      BY <2>1 DEF RegisterFull, IInv, TypeOK, Reached, Unregistered
  <1>4. Table' /\ Withdrawn'
    BY <1>2, <1>3, TableKept, WithdrawnKept DEF IInv, Table
  <1>5. Network'
    BY DEF RegisterFull, IInv, Network
  <1>6. QED
    BY <1>1, <1>4, <1>5 DEF IInv

\* The loop goes on to the next fragment, or ends.
LEMMA LowerSendStep ==
    ASSUME IInv, NEW m \in Messages, LowerSend(m)
    PROVE  IInv'
  <1> USE DEF calls, network, history
  <1>0. /\ m.total \in 1..MaxFrags /\ frag[m] \in FragIdx
        /\ frag[m] + 1 < m.total => frag[m] + 1 \in FragIdx
    BY MessageAssumption, SizeAssumption DEF IInv, TypeOK, FragIdx
  <1>1. TypeOK'
    BY <1>0 DEF LowerSend, IInv, TypeOK
  <1>2. Shrinks /\ resent' = resent /\ gaveup' = gaveup
    BY DEF LowerSend, Shrinks
  <1>3. ASSUME NEW f \in Fragments
        PROVE  /\ Reached(f) => Reached(f)'
               /\ Unregistered(f)' => Unregistered(f)
    <2>1. f[1] \in Messages /\ f[2] \in Nat /\ frag[f[1]] \in Nat
      BY FragmentsType, SizeAssumption DEF IInv, TypeOK, FragIdx
    <2>2. CASE f[1] = m
      <3>1. pc'[m] \in {"register", "ok"}
        BY DEF LowerSend, IInv, TypeOK
      <3>2. /\ pc[m] = "send"
            /\ \/ frag'[m] = frag[m] + 1 /\ pc'[m] = "register"
               \/ frag'[m] = frag[m] /\ pc'[m] = "ok"
        BY DEF LowerSend, IInv, TypeOK
      <3>3. QED
        BY <2>1, <2>2, <3>1, <3>2 DEF Reached, Unregistered
    <2>3. CASE f[1] # m
      BY <2>1, <2>3 DEF LowerSend, IInv, TypeOK, Reached, Unregistered
    <2>4. QED
      BY <2>2, <2>3
  <1>4. Table' /\ Withdrawn'
    BY <1>2, <1>3, TableKept, WithdrawnKept DEF IInv, Table
  <1>5. Network'
    BY CurrentType DEF LowerSend, IInv, Network
  <1>6. QED
    BY <1>1, <1>4, <1>5 DEF IInv

\* A call that fails stays at its fragment.
LEMMA LowerSendFailsStep ==
    ASSUME IInv, NEW m \in Messages, LowerSendFails(m)
    PROVE  IInv'
  <1> USE DEF calls, network, history
  <1>1. TypeOK'
    BY DEF LowerSendFails, AfterFailure, IInv, TypeOK
  <1>2. Shrinks /\ resent' = resent /\ gaveup' = gaveup
    BY DEF LowerSendFails, Shrinks
  <1>3. ASSUME NEW f \in Fragments
        PROVE  /\ Reached(f) => Reached(f)'
               /\ Unregistered(f)' => Unregistered(f)
    <2>1. f[1] \in Messages
      BY FragmentsType
    <2>2. QED
      BY <2>1 DEF LowerSendFails, AfterFailure, IInv, TypeOK, Reached, Unregistered
  <1>4. Table' /\ Withdrawn'
    BY <1>2, <1>3, TableKept, WithdrawnKept DEF IInv, Table
  <1>5. Network'
    BY DEF LowerSendFails, IInv, Network
  <1>6. QED
    BY <1>1, <1>4, <1>5 DEF IInv

\* A registered fragment that failed loses its entry, whatever acknowledgements and
\* retries came between.
LEMMA WithdrawStep ==
    ASSUME IInv, NEW m \in Messages, Withdraw(m)
    PROVE  IInv'
  <1> USE DEF calls, network, history
  <1>1. PICK f \in Fragments : f = <<m, frag[m]>>
    BY CurrentType DEF IInv
  <1>2. OnAck(f[1].dest, f[1].seq, f[2])
    BY <1>1 DEF Withdraw
  <1>3. TypeOK'
    BY <1>2, OnAckType DEF Withdraw, IInv, TypeOK
  <1>4. Shrinks /\ resent' = resent /\ gaveup' = gaveup
    BY <1>2, OnAckShrinks DEF Withdraw
  <1>5. ASSUME NEW g \in Fragments
        PROVE  /\ Reached(g) => Reached(g)'
               /\ Unregistered(g)' => Unregistered(g) \/ g = f
    <2>1. g = <<g[1], g[2]>> /\ g[1] \in Messages
      BY FragmentsType
    <2>2. QED
      BY <1>1, <2>1 DEF Withdraw, IInv, TypeOK, Reached, Unregistered
  <1>6. Table'
    BY <1>4, <1>5, TableKept DEF IInv
  <1>7. \A e \in Entries : ~Holds(e, f)'
    BY <1>2, OnAckClears DEF IInv
  <1>8. \A e \in Entries, g \in Fragments : Holds(e, g)' => Holds(e, g)
    BY <1>4 DEF Shrinks, Holds
  <1>9. Withdrawn'
    BY <1>5, <1>7, <1>8 DEF IInv, Withdrawn
  <1>10. Network'
    BY DEF Withdraw, IInv, Network
  <1>11. QED
    BY <1>3, <1>6, <1>9, <1>10 DEF IInv

-----------------------------------------------------------------------------
(* What the network brings.                                                *)

\* Steps in which no call takes part leave the fragments where they are.
LEMMA CallsKept ==
    ASSUME UNCHANGED calls
    PROVE  \A f \in Fragments : Reached(f)' = Reached(f) /\ Unregistered(f)' = Unregistered(f)
  BY DEF calls, Reached, Unregistered

\* A fragment that arrives was sent, and is acknowledged.
LEMMA FragmentArrivesStep ==
    ASSUME IInv, NEW m \in Messages, NEW i \in FragIdx, FragmentArrives(m, i)
    PROVE  IInv'
  <1>1. TypeOK'
    BY DEF FragmentArrives, calls, history, IInv, TypeOK
  <1>2. Table' /\ Withdrawn'
    <2>1. Shrinks /\ resent' = resent /\ gaveup' = gaveup
      BY DEF FragmentArrives, Shrinks, history
    <2>2. QED
      BY <2>1, CallsKept, TableKept, WithdrawnKept DEF FragmentArrives, IInv, Table
  <1>3. Network'
    <2>1. <<m, i>> \in Fragments /\ <<m, i>> \in received'
      BY DEF FragmentArrives, IInv, Network
    <2>2. ASSUME NEW a \in acks'
          PROVE  \/ \E f \in received' :
                       f[1].dest = a.from /\ f[1].seq = a.seq /\ f[2] = a.idx
                 \/ a.idx = 0 /\ <<a.from, a.seq>> \in heard'
      <3>1. CASE a \in acks
        BY <3>1 DEF FragmentArrives, IInv, Network
      <3>2. CASE a = Ack(m.dest, m.seq, i)
        BY <2>1, <3>2 DEF Ack
      <3>3. QED
        BY <3>1, <3>2 DEF FragmentArrives
    <2>3. QED
      BY <2>1, <2>2 DEF FragmentArrives, IInv, Network
  <1>4. QED
    BY <1>1, <1>2, <1>3 DEF IInv

\* A broadcast is acknowledged by a peer that has heard it.
LEMMA BroadcastArrivesStep ==
    ASSUME IInv, NEW p \in Peers, NEW s \in Broadcasts, BroadcastArrives(p, s)
    PROVE  IInv'
  <1>1. TypeOK'
    BY DEF BroadcastArrives, calls, history, IInv, TypeOK
  <1>2. Table' /\ Withdrawn'
    <2>1. Shrinks /\ resent' = resent /\ gaveup' = gaveup
      BY DEF BroadcastArrives, Shrinks, history
    <2>2. QED
      BY <2>1, CallsKept, TableKept, WithdrawnKept DEF BroadcastArrives, IInv, Table
  <1>3. Network'
    BY DEF BroadcastArrives, Ack, IInv, Network
  <1>4. QED
    BY <1>1, <1>2, <1>3 DEF IInv

\* An acknowledgement clears an entry, if any.
LEMMA AckArrivesStep ==
    ASSUME IInv, NEW a \in acks, AckArrives(a)
    PROVE  IInv'
  <1>1. TypeOK'
    BY OnAckType DEF AckArrives, calls, network, IInv, TypeOK
  <1>2. Table' /\ Withdrawn'
    <2>1. Shrinks /\ resent' = resent /\ gaveup' = gaveup
      BY OnAckShrinks DEF AckArrives
    <2>2. QED
      BY <2>1, CallsKept, TableKept, WithdrawnKept DEF AckArrives, IInv, Table
  <1>3. Network'
    BY DEF AckArrives, network, IInv, Network
  <1>4. QED
    BY <1>1, <1>2, <1>3 DEF IInv

-----------------------------------------------------------------------------
(* The tick.                                                               *)

\* An entry that stays in use stays with its fragment, and counts the retry if one
\* was due; one that is due and exhausted does not stay.
LEMMA TickedEntry ==
    ASSUME NEW p \in EntryType, NEW now \in 0..(TimeMod - 1), Ticked(p, now).active
    PROVE  /\ p.active /\ Ticked(p, now).msg = p.msg /\ Fragment(Ticked(p, now)) = Fragment(p)
           /\ ~Due(p, now) => Ticked(p, now).retry_count = p.retry_count
           /\ Due(p, now) => ~Exhausted(p) /\ Ticked(p, now).retry_count = p.retry_count + 1
  <1>1. CASE ~p.active
    <2>1. ~Armed(p) /\ ~Due(p, now)
      BY <1>1 DEF Armed, Due
    <2>2. Ticked(p, now) = p
      BY <1>1, <2>1 DEF Ticked
    <2>3. QED
      BY <1>1, <2>2
  <1>2. CASE p.active /\ ~Armed(p)
    <2>0. ~Due(p, now)
      BY <1>2 DEF Due
    <2>1. Ticked(p, now) = Arm(p, now)
      BY <1>2, <2>0 DEF Ticked
    <2>2. QED
      BY <1>2, <2>0, <2>1 DEF Arm, Fragment, EntryType
  <1>3. CASE Armed(p) /\ ~Due(p, now)
    <2>1. Ticked(p, now) = p /\ p.active
      BY <1>3 DEF Ticked, Armed
    <2>2. QED
      BY <1>3, <2>1
  <1>4. CASE Due(p, now) /\ Exhausted(p)
    BY <1>4, FreeType DEF Ticked, Due, Armed
  <1>5. CASE Due(p, now) /\ ~Exhausted(p)
    <2>1. /\ Ticked(p, now) = [p EXCEPT !.retry_count = @ + 1,
                                        !.next_retry_ms = NextRetry(now, p.retry_count + 1)]
          /\ p.active
      BY <1>5 DEF Ticked, Due, Armed
    <2>2. QED
      BY <1>5, <2>1 DEF Fragment, EntryType
  <1>6. QED
    BY <1>1, <1>2, <1>3, <1>4, <1>5 DEF Due

\* The tick counts every fragment it sends again in its entry, and takes those it
\* gives up out of the table.
LEMMA TickStep ==
    ASSUME IInv, Tick
    PROVE  IInv'
  <1>1. PICK d \in 1..MaxStep :
        LET now   == (now_ms + d) % TimeMod
            due   == {e \in Entries : Due(pending_acks[e], now)}
            given == {e \in due : Exhausted(pending_acks[e])}
            again == {Fragment(pending_acks[e]) : e \in due \ given}
        IN  /\ now_ms' = now
            /\ pending_acks' = [e \in Entries |-> Ticked(pending_acks[e], now)]
            /\ sent' = sent \cup again
            /\ gaveup' = gaveup \cup {Fragment(pending_acks[e]) : e \in given}
            /\ resent' = [f \in Fragments |-> IF f \in again THEN resent[f] + 1 ELSE resent[f]]
            /\ UNCHANGED <<calls, acks, received, heard, confirmed>>
    BY DEF Tick
  <1> DEFINE now      == (now_ms + d) % TimeMod
             Again(f) == \E e \in Entries : /\ Holds(e, f) /\ Due(pending_acks[e], now)
                                            /\ ~Exhausted(pending_acks[e])
             Given(f) == \E e \in Entries : /\ Holds(e, f) /\ Due(pending_acks[e], now)
                                            /\ Exhausted(pending_acks[e])
  <1>2. now \in 0..(TimeMod - 1)
    BY ModInRange, SizeAssumption DEF IInv, TypeOK
  <1>3. \A e \in Entries :
           /\ pending_acks[e] \in EntryType
           /\ pending_acks'[e] = Ticked(pending_acks[e], now)
           /\ Due(pending_acks[e], now) => pending_acks[e].active
    BY <1>1 DEF IInv, TypeOK, Due, Armed
  <1>4. ASSUME NEW f \in Fragments
        PROVE  /\ resent'[f] = IF Again(f) THEN resent[f] + 1 ELSE resent[f]
               /\ f \in gaveup' <=> f \in gaveup \/ Given(f)
    BY <1>1, <1>3 DEF Holds
  <1>5. ASSUME NEW e \in Entries, NEW f \in Fragments, Holds(e, f)'
        PROVE  /\ Holds(e, f) /\ ~Given(f)
               /\ resent'[f] = pending_acks'[e].retry_count
    <2>1. /\ Holds(e, f)
          /\ ~Due(pending_acks[e], now)
                => pending_acks'[e].retry_count = pending_acks[e].retry_count
          /\ Due(pending_acks[e], now)
                => /\ ~Exhausted(pending_acks[e])
                   /\ pending_acks'[e].retry_count = pending_acks[e].retry_count + 1
      BY <1>2, <1>3, <1>5, TickedEntry DEF Holds
    <2>2. \A g \in Entries : Holds(g, f) => g = e
      BY <2>1 DEF IInv, Table, Unique
    <2>3. ~Given(f) /\ (Again(f) <=> Due(pending_acks[e], now))
      BY <2>1, <2>2
    <2>4. resent[f] = pending_acks[e].retry_count
      BY <2>1 DEF IInv, Table, Counted
    <2>5. QED
      BY <1>4, <2>1, <2>3, <2>4
  <1>6. ASSUME NEW f \in Fragments, Again(f)
        PROVE  resent[f] + 1 \in 0..RetryMax /\ f \notin gaveup /\ Reached(f)
    <2>1. PICK e \in Entries : Holds(e, f) /\ ~Exhausted(pending_acks[e])
      BY <1>6
    <2>2. resent[f] = pending_acks[e].retry_count /\ pending_acks[e].retry_count \in 0..RetryMax
      BY <1>3, <2>1 DEF IInv, Table, Counted, EntryType
    <2>3. f \notin gaveup /\ Reached(f)
      BY <2>1 DEF IInv, Table, Ordered, Counted
    <2>4. QED
      BY <2>1, <2>2, <2>3, SizeAssumption DEF Exhausted
  <1>7. ASSUME NEW f \in Fragments, Given(f)
        PROVE  /\ resent[f] = RetryMax /\ Reached(f)
               /\ ~Again(f)
    <2>1. PICK e \in Entries : Holds(e, f) /\ Exhausted(pending_acks[e])
      BY <1>7
    <2>2. resent[f] = pending_acks[e].retry_count /\ pending_acks[e].retry_count \in 0..RetryMax
      BY <1>3, <2>1 DEF IInv, Table, Counted, EntryType
    <2>3. resent[f] = RetryMax
      BY <2>1, <2>2, SizeAssumption DEF Exhausted
    <2>4. Reached(f) /\ \A g \in Entries : Holds(g, f) => g = e
      BY <2>1 DEF IInv, Table, Counted, Unique
    <2>5. QED
      BY <2>1, <2>3, <2>4
  <1>8. UNCHANGED calls
    BY <1>1
  <1>9. TypeOK'
    <2>1. pending_acks' \in [Entries -> EntryType]
      BY <1>1, <1>2, <1>3, TickedType
    <2>2. \A e \in Entries : pending_acks'[e].active => pending_acks'[e].msg \in Messages
      BY <1>2, <1>3, TickedEntry DEF IInv, TypeOK
    <2>3. resent' \in [Fragments -> 0..RetryMax]
      <3>1. \A f \in Fragments : resent'[f] \in 0..RetryMax
        BY <1>4, <1>6 DEF IInv, TypeOK
      <3>2. QED
        BY <1>1, <3>1
    <2>4. now_ms' \in 0..(TimeMod - 1)
      BY <1>1, <1>2
    <2>5. QED
      BY <1>8, <2>1, <2>2, <2>3, <2>4 DEF IInv, TypeOK, calls
  <1>10. Counted'
    <2>1. ASSUME NEW e \in Entries, pending_acks'[e].active
          PROVE  Fragment(pending_acks'[e]) \in Fragments
      BY <1>2, <1>3, <2>1, TickedEntry DEF IInv, Table, Counted
    <2>2. ASSUME NEW e \in Entries, NEW f \in Fragments, Holds(e, f)'
          PROVE  Reached(f)' /\ resent'[f] = pending_acks'[e].retry_count
      BY <1>5, <1>8, <2>2, CallsKept DEF IInv, Table, Counted
    <2>3. QED
      BY <2>1, <2>2 DEF Counted, Fragment
  <1>11. Unique'
    BY <1>5 DEF IInv, Table, Unique
  <1>12. Ordered'
    <2>1. ASSUME NEW f \in Fragments, ~Reached(f)'
          PROVE  resent'[f] = 0 /\ f \notin gaveup'
      <3>1. ~Reached(f)
        BY <1>8, <2>1, CallsKept
      <3>2. ~Again(f) /\ ~Given(f)
        BY <1>6, <1>7, <3>1
      <3>3. QED
        BY <1>4, <3>1, <3>2 DEF IInv, Table, Ordered
    <2>2. ASSUME NEW f \in Fragments, f \in gaveup'
          PROVE  resent'[f] = RetryMax /\ \A e \in Entries : ~Holds(e, f)'
      <3>1. CASE f \in gaveup
        <4>1. ~Again(f)
          BY <1>6, <3>1
        <4>2. QED
          BY <1>4, <1>5, <3>1, <4>1 DEF IInv, Table, Ordered
      <3>2. CASE Given(f)
        <4>1. resent'[f] = RetryMax
          BY <1>4, <1>7, <3>2
        <4>2. QED
          BY <1>5, <3>2, <4>1
      <3>3. QED
        BY <1>4, <2>2, <3>1, <3>2
    <2>3. QED
      BY <2>1, <2>2 DEF Ordered
  <1>13. Withdrawn'
    BY <1>5, <1>8, CallsKept DEF IInv, Withdrawn
  <1>14. Network'
    <2>1. sent' \subseteq Fragments
      <3>1. \A e \in Entries : Due(pending_acks[e], now) => Fragment(pending_acks[e]) \in Fragments
        BY <1>3 DEF IInv, Table, Counted
      <3>2. QED
        BY <1>1, <3>1 DEF IInv, Network
    <2>2. QED
      BY <1>1, <2>1 DEF IInv, Network
  <1>15. QED
    BY <1>9, <1>10, <1>11, <1>12, <1>13, <1>14 DEF IInv, Table

-----------------------------------------------------------------------------
(* The theorems.                                                           *)

\* Every step keeps the invariant.
LEMMA NextIInv == IInv /\ [Next]_vars => IInv'
  <1> SUFFICES ASSUME IInv, [Next]_vars PROVE IInv'
    OBVIOUS
  <1>1. ASSUME NEW m \in Messages, Call(m) PROVE IInv'
    BY <1>1, RegisterStep, RegisterFullStep, LowerSendStep, LowerSendFailsStep, WithdrawStep
       DEF Call
  <1>2. ASSUME NEW m \in Messages, NEW i \in FragIdx, FragmentArrives(m, i) PROVE IInv'
    BY <1>2, FragmentArrivesStep
  <1>3. ASSUME NEW p \in Peers, NEW s \in Broadcasts, BroadcastArrives(p, s) PROVE IInv'
    BY <1>3, BroadcastArrivesStep
  <1>4. ASSUME NEW a \in acks, AckArrives(a) PROVE IInv'
    BY <1>4, AckArrivesStep
  <1>5. CASE Tick
    BY <1>5, TickStep
  <1>6. CASE UNCHANGED vars
    <2>1. TypeOK'
      BY <1>6 DEF vars, calls, network, history, IInv, TypeOK
    <2>2. Table' /\ Withdrawn'
      <3>1. Shrinks /\ resent' = resent /\ gaveup' = gaveup /\ UNCHANGED calls
        BY <1>6 DEF vars, history, Shrinks
      <3>2. QED
        BY <3>1, CallsKept, TableKept, WithdrawnKept DEF IInv, Table
    <2>3. Network'
      BY <1>6 DEF vars, network, IInv, Network
    <2>4. QED
      BY <2>1, <2>2, <2>3 DEF IInv
  <1>7. QED
    BY <1>1, <1>2, <1>3, <1>4, <1>5, <1>6 DEF Next

\* The invariant holds throughout.
THEOREM Invariant == Spec => []IInv
  BY InitIInv, NextIInv, PTL DEF Spec

\* The table of pending acknowledgements, the clock and the calls of route_frag_send
\* have their types, and no fragment is sent again more often than allowed.
THEOREM TypeCorrect == Spec => []TypeOK
  BY Invariant, PTL DEF IInv

\* reliability_tick gives no fragment up before it made all its retries, and makes
\* no more.
THEOREM PersistentSafe == Spec => []Persistent
  <1>1. IInv => Persistent
    BY SizeAssumption DEF IInv, TypeOK, Table, Ordered, Persistent
  <1>2. QED
    BY <1>1, Invariant, PTL

\* A fragment that reliability_on_ack releases has reached its destination, or was
\* taken for a broadcast that did.
THEOREM AckSafe == Spec => []AckMeansReceived
  <1>1. Init => AckMeansReceived
    BY DEF Init, AckMeansReceived
  <1>2. ASSUME IInv, AckMeansReceived, [Next]_vars PROVE AckMeansReceived'
    <2>1. received \subseteq received' /\ heard \subseteq heard'
      BY <1>2 DEF Next, vars, Call, Register, RegisterFull, LowerSend, LowerSendFails, Withdraw,
                  FragmentArrives, BroadcastArrives, AckArrives, Tick, calls, network, history
    <2>2. CASE confirmed' = confirmed
      BY <1>2, <2>1, <2>2 DEF AckMeansReceived
    <2>3. ASSUME NEW a \in acks, AckArrives(a) PROVE AckMeansReceived'
      <3>1. ASSUME NEW e \in Entries, Clears(e, a.from, a.seq, a.idx)
            PROVE  LET f == Fragment(pending_acks[e])
                   IN  f \in received \/ (f[2] = 0 /\ <<f[1].dest, f[1].seq>> \in heard)
        <4> DEFINE p == pending_acks[e]
        <4>1. /\ p.active /\ p.msg.dest = a.from /\ p.msg.seq = a.seq /\ p.frag_idx = a.idx
              /\ p.msg \in Messages
          BY <1>2, <3>1 DEF Clears, Matches, IInv, TypeOK
        <4>2. CASE a.idx = 0 /\ <<a.from, a.seq>> \in heard
          BY <4>1, <4>2 DEF Fragment
        <4>3. ASSUME NEW f \in received,
                     f[1].dest = a.from /\ f[1].seq = a.seq /\ f[2] = a.idx
              PROVE  Fragment(p) \in received
          <5>1. f = <<f[1], f[2]>> /\ f[1] \in Messages
            BY <1>2, FragmentsType DEF IInv, Network
          <5>2. f[1] = p.msg
            BY <4>1, <4>3, <5>1, NumberAssumption
          <5>3. QED
            BY <4>1, <4>3, <5>1, <5>2 DEF Fragment
        <4>4. QED
          BY <1>2, <4>2, <4>3 DEF IInv, Network
      <3>2. QED
        BY <1>2, <2>1, <2>3, <3>1 DEF AckArrives, AckMeansReceived
    <2>4. QED
      BY <1>2, <2>2, <2>3
         DEF Next, vars, Call, Register, RegisterFull, LowerSend, LowerSendFails, Withdraw,
             FragmentArrives, BroadcastArrives, Tick, calls, network, history
  <1>3. QED
    BY <1>1, <1>2, Invariant, PTL DEF Spec

\* Once route_frag_send has returned the failure of a fragment, the tick does not
\* send that fragment again.
THEOREM FailedSafe == Spec => FailedNotResent
  <1>1. ASSUME IInv, [Next]_vars, NEW m \in Messages, pc[m] = "failed"
        PROVE  resent'[<<m, frag[m]>>] = resent[<<m, frag[m]>>]
    <2>1. PICK f \in Fragments : f = <<m, frag[m]>>
      BY <1>1, CurrentType DEF IInv
    <2>2. \A e \in Entries : ~Holds(e, f)
      BY <1>1, <2>1 DEF IInv, Withdrawn, Unregistered
    <2>3. CASE Tick
      <3>1. \A e \in Entries, now \in Int :
               Due(pending_acks[e], now) => Fragment(pending_acks[e]) # f
        BY <2>2 DEF Holds, Due, Armed
      <3>2. resent'[f] = resent[f]
        BY <1>1, <2>3, <3>1, SizeAssumption DEF Tick, IInv, TypeOK
      <3>3. QED
        BY <2>1, <3>2
    <2>4. CASE resent' = resent
      BY <2>4
    <2>5. QED
      BY <1>1, <2>3, <2>4
         DEF Next, vars, Call, Register, RegisterFull, LowerSend, LowerSendFails, Withdraw,
             FragmentArrives, BroadcastArrives, AckArrives, calls, network, history
  <1>2. IInv /\ [Next]_vars =>
           [\A m \in Messages : pc[m] = "failed" =>
               resent'[<<m, frag[m]>>] = resent[<<m, frag[m]>>]]_vars
    BY <1>1
  <1>3. QED
    BY <1>2, Invariant, PTL DEF Spec, FailedNotResent

-----------------------------------------------------------------------------
(* The pause between two transmissions.                                    *)

\* What a clock must be for the pauses: longer than the time between two ticks, and
\* twice the longest pause.  A uint32_t is, for pauses below 24 days.
Paces == MaxStep < TimeMod /\ \A k \in 0..RetryMax : Pause(k) <= TimeMod \div 2

\* The time to send the fragment of an entry again, counted from when its pause began.
Base(e) == (now_ms - waited[e] + Pause(pending_acks[e].retry_count)) % TimeMod

\* An armed entry holds that time.  When it falls on 0 the entry counts as not armed:
\* a later tick begins a pause of the first kind.
Pace(e) ==
    LET p == pending_acks[e] IN
    \/ /\ ~Armed(p)
       /\ p.retry_count > 0 => Base(e) = 0
    \/ /\ Armed(p)
       /\ p.retry_count = 0 \/ Base(e) # 0
       /\ p.next_retry_ms = Base(e)
    \/ /\ Armed(p)
       /\ p.retry_count > 0 /\ Base(e) = 0
       /\ \E v \in 0..(waited[e] - 1) : p.next_retry_ms = (now_ms - v + AckTimeout) % TimeMod

Paced ==
    /\ waited \in [Entries -> Nat]
    /\ \A e \in Entries : pending_acks[e].active => Pace(e)

\* Numbers that differ by a multiple of m have the same remainder.
LEMMA SameRemainder ==
    ASSUME NEW m \in Nat \ {0}, NEW a \in Int, NEW b \in Int, NEW k \in Int, a = b + m * k
    PROVE  a % m = b % m
  <1>1. /\ a = m * (a \div m) + (a % m) /\ (a \div m) \in Int /\ (a % m) \in 0..(m - 1)
        /\ b = m * (b \div m) + (b % m) /\ (b \div m) \in Int /\ (b % m) \in 0..(m - 1)
    OBVIOUS
  <1>2. PICK i \in Int, r \in 0..(m - 1), j \in Int, t \in 0..(m - 1) :
           r = a % m /\ t = b % m /\ a = m * i + r /\ b = m * j + t
    BY <1>1
  <1>3. PICK n \in Int : n = i - j - k
    OBVIOUS
  <1>4. m * n = t - r
    <2>1. m * n = (m * i - m * j) - m * k
      <3>1. m * ((i - j) - k) = m * (i - j) - m * k /\ m * (i - j) = m * i - m * j
        OBVIOUS
      <3>2. QED
        BY <1>3, <3>1
    <2>2. PICK x \in Int, y \in Int, z \in Int : x = m * i /\ y = m * j /\ z = m * k
      OBVIOUS
    <2>3. x + r = (y + t) + z
      BY <1>2, <2>2
    <2>4. m * n = (x - y) - z
      BY <2>1, <2>2
    <2>5. QED
      BY <2>3, <2>4
  <1>5. t - r = 0
    <2>1. n >= 1 => m * n >= m
      OBVIOUS
    <2>2. n <= -1 => m * n <= -m
      OBVIOUS
    <2>3. n = 0 => m * n = 0
      OBVIOUS
    <2>4. PICK x \in Int : x = m * n
      OBVIOUS
    <2>5. (n >= 1 => x >= m) /\ (n <= -1 => x <= -m) /\ (n = 0 => x = 0) /\ x = t - r
      BY <1>4, <2>1, <2>2, <2>3, <2>4
    <2>6. QED
      BY <2>5
  <1>6. r = t
    BY <1>5
  <1>7. QED
    BY <1>2, <1>6, Zenon

\* A remainder within a sum may be taken later.
LEMMA LaterRemainder ==
    ASSUME NEW m \in Nat \ {0}, NEW a \in Int, NEW b \in Int
    PROVE  ((a % m) + b) % m = (a + b) % m
  <1>1. /\ a = m * (a \div m) + (a % m) /\ (a \div m) \in Int /\ (a % m) \in Int
    OBVIOUS
  <1>2. PICK q \in Int, r \in Int : r = a % m /\ a = m * q + r
    BY <1>1
  <1>3. (a + b) = (r + b) + m * q
    BY <1>2
  <1>4. (a + b) % m = (r + b) % m
    <2>1. a + b \in Int /\ r + b \in Int
      OBVIOUS
    <2>2. QED
      BY <1>3, <2>1, SameRemainder
  <1>5. QED
    BY <1>2, <1>4, Zenon

\* An entry is due no sooner than its pause after its beginning, if the clock tells
\* the two apart.
LEMMA DueLate ==
    ASSUME NEW m \in Nat \ {0}, NEW n \in Int, NEW d \in Nat, NEW w \in Nat, NEW c \in Nat,
           c <= m \div 2,
           (((n + d) % m) - ((n - w + c) % m)) % m < (m + 1) \div 2
    PROVE  w + d >= c
  <1>1. PICK x \in Int : x = (n + d) % m
    OBVIOUS
  <1>2. PICK y \in Int, q \in Int : y = (n - w + c) % m /\ n - w + c = m * q + y
    <2>1. /\ n - w + c = m * ((n - w + c) \div m) + ((n - w + c) % m)
          /\ ((n - w + c) \div m) \in Int /\ ((n - w + c) % m) \in Int
      OBVIOUS
    <2>2. QED
      BY <2>1
  <1>3. (x - y) % m = (n + d - y) % m
    <2>1. (((n + d) % m) + (-y)) % m = ((n + d) + (-y)) % m
      <3>1. n + d \in Int /\ -y \in Int
        OBVIOUS
      <3>2. QED
        BY <3>1, LaterRemainder, Zenon
    <2>2. x + (-y) = x - y /\ (n + d) + (-y) = n + d - y
      OBVIOUS
    <2>3. (x + (-y)) % m = ((n + d) + (-y)) % m
      BY <1>1, <2>1, Zenon
    <2>4. QED
      BY <2>2, <2>3, Zenon
  <1>4. (n + d - y) % m = (w + d - c) % m
    <2>1. PICK x0 \in Int : x0 = m * q
      OBVIOUS
    <2>2. n - w + c = x0 + y
      BY <1>2, <2>1
    <2>3. n + d - y = (w + d - c) + x0
      BY <2>2
    <2>4. n + d - y \in Int /\ w + d - c \in Int
      OBVIOUS
    <2>5. n + d - y = (w + d - c) + m * q
      BY <2>1, <2>3, Zenon
    <2>6. QED
      BY <2>4, <2>5, SameRemainder
  <1>5. PICK z \in Int : z = w + d - c
    OBVIOUS
  <1>6. z % m < (m + 1) \div 2
    <2>1. (x - y) % m < (m + 1) \div 2
      BY <1>1, <1>2, Zenon
    <2>2. QED
      BY <1>3, <1>4, <1>5, <2>1, Zenon
  <1>7. ASSUME z < 0 PROVE FALSE
    <2>1. -m <= z
      BY <1>5
    <2>2. z % m = z + m
      BY <1>7, <2>1
    <2>3. QED
      BY <1>5, <1>6, <2>2
  <1>8. QED
    BY <1>5, <1>7

\* The pauses are those the tick adds.
LEMMA PauseAdded ==
    /\ \A k \in Nat : Pause(k) \in Nat
    /\ Pause(0) = AckTimeout
    /\ \A k \in Nat, now \in Int : NextRetry(now, k) = (now + Pause(k)) % TimeMod
  <1>1. 2^0 = 1 /\ 2^1 = 2 /\ 2^2 = 4
    OBVIOUS
  <1>2. ASSUME NEW k \in Nat
        PROVE  /\ Pause(k) = AckTimeout * (CASE k = 0 -> 1 [] k = 1 -> 2 [] k = 2 -> 4 [] OTHER -> 8)
               /\ Pause(k) \in Nat
    <2>1. k = 0 \/ k = 1 \/ k = 2 \/ ~(k < 3)
      OBVIOUS
    <2>2. CASE k = 0
      BY <1>1, <2>2, SizeAssumption DEF Pause
    <2>3. CASE k = 1
      BY <1>1, <2>3, SizeAssumption DEF Pause
    <2>4. CASE k = 2
      BY <1>1, <2>4, SizeAssumption DEF Pause
    <2>5. CASE ~(k < 3)
      BY <2>5, SizeAssumption DEF Pause
    <2>6. QED
      BY <2>1, <2>2, <2>3, <2>4, <2>5
  <1>3. Pause(0) = AckTimeout
    BY <1>1, SizeAssumption DEF Pause
  <1>4. ASSUME NEW k \in Nat, NEW now \in Int
        PROVE  NextRetry(now, k) = (now + Pause(k)) % TimeMod
    BY <1>2, Zenon DEF NextRetry
  <1>5. QED
    BY <1>2, <1>3, <1>4

\* A step in which the clock stands still and entries are cleared at most, or taken
\* for a fragment not sent before, keeps the pauses.
LEMMA PacedStill ==
    ASSUME Paced, now_ms' = now_ms, waited' \in [Entries -> Nat],
           \A e \in Entries : pending_acks'[e].active =>
              \/ pending_acks'[e] = pending_acks[e] /\ waited'[e] = waited[e]
              \/ ~Armed(pending_acks'[e]) /\ pending_acks'[e].retry_count = 0
    PROVE  Paced'
  <1> SUFFICES ASSUME NEW e \in Entries, pending_acks'[e].active
               PROVE  Pace(e)'
    BY DEF Paced
  <1>1. CASE pending_acks'[e] = pending_acks[e] /\ waited'[e] = waited[e]
    <2>1. Base(e)' = Base(e)
      BY <1>1 DEF Base
    <2>2. Armed(pending_acks[e])' <=> Armed(pending_acks[e])
      BY <1>1 DEF Armed
    <2>3. QED
      BY <1>1, <2>1, <2>2 DEF Paced, Pace
  <1>2. CASE ~Armed(pending_acks'[e]) /\ pending_acks'[e].retry_count = 0
    BY <1>2 DEF Armed, Pace
  <1>3. QED
    BY <1>1, <1>2

\* An entry that stays in use when the tick finds it not due: the pause goes on, or
\* begins.
LEMMA PacedWaits ==
    ASSUME TypeOK, Paced, NEW d \in 1..MaxStep, now_ms' = (now_ms + d) % TimeMod,
           NEW e \in Entries, pending_acks[e].active,
           ~Due(pending_acks[e], now_ms'),
           pending_acks'[e] = Ticked(pending_acks[e], now_ms'),
           waited'[e] = IF Armed(pending_acks[e]) \/ pending_acks[e].retry_count > 0
                        THEN waited[e] + d ELSE 0
    PROVE  Pace(e)'
  <1>1. PICK p \in EntryType, n \in Int, w \in Nat, k \in Nat, now \in 0..(TimeMod - 1) :
           /\ p = pending_acks[e] /\ n = now_ms /\ w = waited[e] /\ k = p.retry_count
           /\ now = now_ms'
    <2>1. /\ pending_acks[e] \in EntryType /\ now_ms \in Int /\ waited[e] \in Nat
          /\ pending_acks[e].retry_count \in Nat
      BY SizeAssumption DEF TypeOK, Paced, EntryType
    <2>2. now_ms' \in 0..(TimeMod - 1)
      BY <2>1, ModInRange, SizeAssumption
    <2>3. QED
      BY <2>1, <2>2
  <1>2. /\ Pause(k) \in Nat /\ Pause(0) = AckTimeout /\ AckTimeout \in Int
        /\ TimeMod \in Nat \ {0} /\ d \in Int /\ now = (n + d) % TimeMod
    <2>1. Pause(k) \in Nat /\ Pause(0) = AckTimeout
      BY PauseAdded, Zenon
    <2>2. AckTimeout \in Int /\ TimeMod \in Nat \ {0} /\ d \in Int
      BY SizeAssumption
    <2>3. now = (n + d) % TimeMod
      BY <1>1, Zenon
    <2>4. QED
      BY <2>1, <2>2, <2>3, Zenon
  <1>3. ASSUME NEW v \in Int, NEW c \in Int
        PROVE  (now - (v + d) + c) % TimeMod = (n - v + c) % TimeMod
    <2>1. PICK a \in Int, b \in Int : a = n + d /\ b = c - (v + d)
      BY <1>2
    <2>2. now - (v + d) + c = now + b /\ n - v + c = a + b
      BY <1>1, <1>2, <2>1
    <2>3. ((a % TimeMod) + b) % TimeMod = (a + b) % TimeMod
      BY <1>2, LaterRemainder, Zenon
    <2>4. now = a % TimeMod
      BY <1>2, <2>1, Zenon
    <2>5. (now + b) % TimeMod = (a + b) % TimeMod
      BY <2>3, <2>4, Zenon
    <2>6. QED
      BY <2>2, <2>5, Zenon
  <1>4. Pace(e)
    BY DEF Paced
  <1>5. CASE Armed(p)
    <2>1. pending_acks'[e] = p
      BY <1>1, <1>5 DEF Ticked, Armed
    <2>2. waited'[e] = w + d
      BY <1>1, <1>5
    <2>3. Base(e)' = Base(e)
      <3>1. (now - (w + d) + Pause(k)) % TimeMod = (n - w + Pause(k)) % TimeMod
        <4>1. w \in Int /\ Pause(k) \in Int
          BY <1>2
        <4>2. QED
          BY <1>3, <4>1, Zenon
      <3>2. Base(e)' = (now - (w + d) + Pause(k)) % TimeMod
        BY <1>1, <2>1, <2>2, Zenon DEF Base
      <3>3. Base(e) = (n - w + Pause(k)) % TimeMod
        BY <1>1, Zenon DEF Base
      <3>4. QED
        BY <3>1, <3>2, <3>3
    <2>4. Armed(pending_acks[e])'
      BY <1>5, <2>1 DEF Armed
    <2>5. CASE (k = 0 \/ Base(e) # 0) /\ p.next_retry_ms = Base(e)
      BY <1>1, <2>1, <2>3, <2>4, <2>5 DEF Pace
    <2>6. CASE /\ k > 0 /\ Base(e) = 0
               /\ \E v \in 0..(w - 1) : p.next_retry_ms = (n - v + AckTimeout) % TimeMod
      <3>1. PICK v \in 0..(w - 1) : p.next_retry_ms = (n - v + AckTimeout) % TimeMod
        BY <2>6
      <3>2. v + d \in 0..((w + d) - 1)
        OBVIOUS
      <3>3. p.next_retry_ms = (now - (v + d) + AckTimeout) % TimeMod
        <4>1. v \in Int
          OBVIOUS
        <4>2. (now - (v + d) + AckTimeout) % TimeMod = (n - v + AckTimeout) % TimeMod
          BY <1>2, <1>3, <4>1, Zenon
        <4>3. QED
          BY <3>1, <4>2, Zenon
      <3>4. \E u \in 0..((w + d) - 1) : p.next_retry_ms = (now - u + AckTimeout) % TimeMod
        BY <3>2, <3>3
      <3>5. QED
        BY <1>1, <2>1, <2>2, <2>3, <2>4, <2>6, <3>4 DEF Pace
    <2>7. QED
      BY <1>1, <1>4, <1>5, <2>5, <2>6 DEF Pace
  <1>6. CASE ~Armed(p)
    <2>1. /\ pending_acks'[e] = [p EXCEPT !.next_retry_ms = NextRetry(now, 0)]
          /\ NextRetry(now, 0) = (now + AckTimeout) % TimeMod
      <3>1. pending_acks'[e] = Arm(p, now)
        BY <1>1, <1>6 DEF Ticked
      <3>2. NextRetry(now, 0) = (now + Pause(0)) % TimeMod
        BY PauseAdded
      <3>3. QED
        BY <1>2, <3>1, <3>2, Zenon DEF Arm
    <2>2. /\ pending_acks'[e].active /\ pending_acks'[e].retry_count = k
          /\ pending_acks'[e].next_retry_ms = (now + AckTimeout) % TimeMod
      <3>1. /\ [p EXCEPT !.next_retry_ms = NextRetry(now, 0)].active = p.active
            /\ [p EXCEPT !.next_retry_ms = NextRetry(now, 0)].retry_count = p.retry_count
            /\ [p EXCEPT !.next_retry_ms = NextRetry(now, 0)].next_retry_ms = NextRetry(now, 0)
        BY DEF EntryType
      <3>2. QED
        BY <1>1, <2>1, <3>1, Zenon
    <2>3. PICK t \in Int : t = (now + AckTimeout) % TimeMod
      BY <1>2
    <2>4. Armed(pending_acks[e])' <=> t # 0
      BY <2>2, <2>3 DEF Armed
    <2>5. (now - 0 + AckTimeout) % TimeMod = t
      BY <1>2, <2>3
    <2>6. CASE k = 0
      <3>1. waited'[e] = 0
        BY <1>1, <1>6, <2>6
      <3>2. Base(e)' = (now - 0 + AckTimeout) % TimeMod
        BY <1>1, <1>2, <2>2, <2>6, <3>1, Zenon DEF Base
      <3>3. QED
        BY <2>2, <2>3, <2>4, <2>5, <2>6, <3>2 DEF Pace
    <2>7. CASE k > 0
      <3>1. waited'[e] = w + d
        BY <1>1, <2>7
      <3>2. Base(e)' = (now - (w + d) + Pause(k)) % TimeMod
        BY <1>1, <2>2, <3>1, Zenon DEF Base
      <3>3. Base(e) = (n - w + Pause(k)) % TimeMod
        BY <1>1, Zenon DEF Base
      <3>4. Base(e) = 0
        BY <1>1, <1>4, <1>6, <2>7 DEF Pace
      <3>5. Base(e)' = 0
        <4>1. w \in Int /\ Pause(k) \in Int
          BY <1>2
        <4>2. (now - (w + d) + Pause(k)) % TimeMod = (n - w + Pause(k)) % TimeMod
          BY <1>3, <4>1, Zenon
        <4>3. QED
          BY <3>2, <3>3, <3>4, <4>2, Zenon
      <3>6. 0 \in 0..((w + d) - 1)
        OBVIOUS
      <3>7. \E u \in 0..((w + d) - 1) : t = (now - u + AckTimeout) % TimeMod
        BY <2>5, <3>6
      <3>8. QED
        BY <1>1, <2>2, <2>3, <2>4, <2>7, <3>1, <3>5, <3>7 DEF Pace
    <2>8. QED
      BY <2>6, <2>7
  <1>7. QED
    BY <1>5, <1>6

\* An entry that stays in use when it is due has been sent again: a new pause begins.
LEMMA PacedAgain ==
    ASSUME TypeOK, NEW e \in Entries, now_ms' \in 0..(TimeMod - 1),
           Due(pending_acks[e], now_ms'), ~Exhausted(pending_acks[e]),
           pending_acks'[e] = Ticked(pending_acks[e], now_ms'), waited'[e] = 0
    PROVE  Pace(e)'
  <1>1. PICK p \in EntryType, k \in Nat, now \in 0..(TimeMod - 1) :
           p = pending_acks[e] /\ k = p.retry_count + 1 /\ now = now_ms'
    BY SizeAssumption DEF TypeOK, EntryType
  <1>2. pending_acks'[e] = [p EXCEPT !.retry_count = @ + 1, !.next_retry_ms = NextRetry(now, k)]
    BY <1>1 DEF Ticked, Due, Armed
  <1>3. NextRetry(now, k) = (now + Pause(k)) % TimeMod /\ Pause(k) \in Nat
    <2>1. now \in Int
      OBVIOUS
    <2>2. QED
      BY <2>1, PauseAdded, Zenon
  <1>4. /\ pending_acks'[e].active /\ pending_acks'[e].retry_count = k
        /\ pending_acks'[e].next_retry_ms = NextRetry(now, k)
    BY <1>1, <1>2 DEF EntryType, Due, Armed
  <1>5. Base(e)' = (now - 0 + Pause(k)) % TimeMod
    BY <1>1, <1>4, Zenon DEF Base
  <1>6. now - 0 + Pause(k) = now + Pause(k)
    BY <1>3
  <1>7. Base(e)' = NextRetry(now, k)
    BY <1>3, <1>5, <1>6, Zenon
  <1>8. QED
    BY <1>4, <1>7 DEF Pace, Armed

\* Every tick keeps the pauses.
LEMMA PacedTick ==
    ASSUME TypeOK, Paced, Tick
    PROVE  Paced'
  <1>1. PICK d \in 1..MaxStep :
        LET now   == (now_ms + d) % TimeMod
            due   == {e \in Entries : Due(pending_acks[e], now)}
        IN  /\ now_ms' = now
            /\ pending_acks' = [e \in Entries |-> Ticked(pending_acks[e], now)]
            /\ waited' = [e \in Entries |->
                  IF e \notin due /\ (Armed(pending_acks[e]) \/ pending_acks[e].retry_count > 0)
                  THEN waited[e] + d ELSE 0]
    BY DEF Tick
  <1>2. now_ms' = (now_ms + d) % TimeMod /\ now_ms' \in 0..(TimeMod - 1)
    BY <1>1, ModInRange, SizeAssumption DEF TypeOK
  <1>3. waited' \in [Entries -> Nat]
    BY <1>1, SizeAssumption DEF Paced
  <1>4. ASSUME NEW e \in Entries, pending_acks'[e].active PROVE Pace(e)'
    <2>1. pending_acks[e] \in EntryType /\ pending_acks'[e] = Ticked(pending_acks[e], now_ms')
      BY <1>1 DEF TypeOK
    <2>2. /\ pending_acks[e].active
          /\ Due(pending_acks[e], now_ms') => ~Exhausted(pending_acks[e])
      BY <1>2, <1>4, <2>1, TickedEntry
    <2>3. CASE Due(pending_acks[e], now_ms')
      <3>1. waited'[e] = 0
        BY <1>1, <2>3
      <3>2. QED
        BY <1>2, <2>1, <2>2, <2>3, <3>1, PacedAgain
    <2>4. CASE ~Due(pending_acks[e], now_ms')
      <3>1. waited'[e] = IF Armed(pending_acks[e]) \/ pending_acks[e].retry_count > 0
                         THEN waited[e] + d ELSE 0
        BY <1>1, <2>4
      <3>2. QED
        BY <1>2, <2>1, <2>2, <2>4, <3>1, PacedWaits
    <2>5. QED
      BY <2>3, <2>4
  <1>5. QED
    BY <1>3, <1>4 DEF Paced

\* Every other step leaves the pauses alone.
LEMMA PacedNext ==
    ASSUME TypeOK, Paced, [Next]_vars
    PROVE  Paced'
  <1> USE DEF calls, network, history
  <1>1. CASE Tick
    BY <1>1, PacedTick
  <1>2. ASSUME now_ms' = now_ms, waited' = waited, Shrinks PROVE Paced'
    BY <1>2, PacedStill DEF Paced, Shrinks
  <1>3. ASSUME NEW m \in Messages, Register(m) PROVE Paced'
    <2>1. PICK e \in Entries :
             /\ pending_acks' = [pending_acks EXCEPT ![e] =
                   [active |-> TRUE, msg |-> m, frag_idx |-> frag[m],
                    retry_count |-> 0, next_retry_ms |-> 0]]
             /\ waited' = [waited EXCEPT ![e] = 0]
             /\ now_ms' = now_ms
      BY <1>3 DEF Register
    <2>2. waited' \in [Entries -> Nat]
      BY <2>1 DEF Paced
    <2>3. ASSUME NEW d \in Entries
          PROVE  \/ pending_acks'[d] = pending_acks[d] /\ waited'[d] = waited[d]
                 \/ ~Armed(pending_acks'[d]) /\ pending_acks'[d].retry_count = 0
      BY <2>1 DEF TypeOK, Paced, Armed
    <2>4. QED
      BY <2>1, <2>2, <2>3, PacedStill
  <1>4. ASSUME NEW m \in Messages, RegisterFull(m) \/ LowerSend(m) \/ LowerSendFails(m)
        PROVE  Paced'
    BY <1>2, <1>4 DEF RegisterFull, LowerSend, LowerSendFails, Shrinks
  <1>5. ASSUME NEW m \in Messages, Withdraw(m) PROVE Paced'
    BY <1>2, <1>5, OnAckShrinks DEF Withdraw
  <1>6. ASSUME NEW m \in Messages, NEW i \in FragIdx, FragmentArrives(m, i) PROVE Paced'
    BY <1>2, <1>6 DEF FragmentArrives, Shrinks
  <1>7. ASSUME NEW p \in Peers, NEW s \in Broadcasts, BroadcastArrives(p, s) PROVE Paced'
    BY <1>2, <1>7 DEF BroadcastArrives, Shrinks
  <1>8. ASSUME NEW a \in acks, AckArrives(a) PROVE Paced'
    BY <1>2, <1>8, OnAckShrinks DEF AckArrives
  <1>9. CASE UNCHANGED vars
    BY <1>2, <1>9 DEF vars, Shrinks
  <1>10. QED
    BY <1>1, <1>3, <1>4, <1>5, <1>6, <1>7, <1>8, <1>9 DEF Next, Call

\* An entry that is due has waited for what it is owed.
LEMMA DuePaid ==
    ASSUME Paces, TypeOK, Paced, NEW d \in 1..MaxStep, NEW e \in Entries,
           Due(pending_acks[e], (now_ms + d) % TimeMod)
    PROVE  waited[e] + d >= Owed(e)
  <1>1. PICK p \in EntryType, n \in Int, w \in Nat, k \in 0..RetryMax, y \in Int :
           /\ p = pending_acks[e] /\ n = now_ms /\ w = waited[e] /\ k = p.retry_count
           /\ y = p.next_retry_ms
    <2>1. /\ pending_acks[e] \in EntryType /\ now_ms \in Int /\ waited[e] \in Nat
          /\ pending_acks[e].retry_count \in 0..RetryMax
          /\ pending_acks[e].next_retry_ms \in Int
      BY SizeAssumption DEF TypeOK, Paced, EntryType
    <2>2. QED
      BY <2>1
  <1>2. /\ Pause(k) \in Nat /\ Pause(0) = AckTimeout /\ k \in Nat
        /\ TimeMod \in Nat \ {0} /\ AckTimeout \in Nat /\ d \in Nat
    <2>1. /\ k \in Nat /\ TimeMod \in Nat \ {0} /\ AckTimeout \in Nat /\ d \in Nat
      BY SizeAssumption
    <2>2. QED
      BY <2>1, PauseAdded, Zenon
  <1>3. Pause(k) <= TimeMod \div 2 /\ AckTimeout <= TimeMod \div 2
    <2>1. 0 \in 0..RetryMax
      BY SizeAssumption
    <2>2. Pause(k) <= TimeMod \div 2 /\ Pause(0) <= TimeMod \div 2
      BY <2>1 DEF Paces
    <2>3. QED
      BY <1>2, <2>2
  <1>4. Armed(p) /\ ((((n + d) % TimeMod) - y) % TimeMod) < (TimeMod + 1) \div 2
    BY <1>1, Zenon DEF Due
  <1>5. ASSUME NEW v \in Nat, NEW c \in Nat, c <= TimeMod \div 2, y = (n - v + c) % TimeMod
        PROVE  v + d >= c
    <2>1. (((n + d) % TimeMod) - ((n - v + c) % TimeMod)) % TimeMod < (TimeMod + 1) \div 2
      BY <1>4, <1>5, Zenon
    <2>2. QED
      BY <1>2, <1>5, <2>1, DueLate, Zenon
  <1>6. Base(e) = (n - w + Pause(k)) % TimeMod
    BY <1>1, Zenon DEF Base
  <1>7. Owed(e) = IF k > 0 /\ Base(e) = 0 THEN AckTimeout + 1 ELSE Pause(k)
    BY <1>1, Zenon DEF Owed, Base
  <1>8. Pace(e)
    BY <1>1, <1>4 DEF Paced, Armed
  <1>9. CASE (k = 0 \/ Base(e) # 0) /\ y = Base(e)
    <2>1. w + d >= Pause(k)
      BY <1>2, <1>3, <1>5, <1>6, <1>9
    <2>2. Owed(e) = Pause(k)
      BY <1>7, <1>9
    <2>3. QED
      BY <1>1, <2>1, <2>2
  <1>10. CASE /\ k > 0 /\ Base(e) = 0
              /\ \E v \in 0..(w - 1) : y = (n - v + AckTimeout) % TimeMod
    <2>1. PICK v \in 0..(w - 1) : y = (n - v + AckTimeout) % TimeMod
      BY <1>10
    <2>2. v \in Nat /\ v + 1 <= w
      OBVIOUS
    <2>3. v + d >= AckTimeout
      BY <1>2, <1>3, <1>5, <2>1, <2>2
    <2>4. Owed(e) = AckTimeout + 1
      BY <1>7, <1>10
    <2>5. QED
      BY <1>1, <1>2, <2>2, <2>3, <2>4
  <1>11. QED
    BY <1>1, <1>4, <1>8, <1>9, <1>10 DEF Pace

\* What the step of Backoff promises for an entry.
Paid(e) ==
    LET p == pending_acks[e] IN
    p.active /\ (\/ pending_acks'[e].msg = p.msg /\ pending_acks'[e].retry_count > p.retry_count
                 \/ Fragment(p) \in gaveup' \ gaveup)
       => waited[e] + ((now_ms' - now_ms) % TimeMod) >= Owed(e)

\* The tick sends the fragment of an entry again, or gives it up, when the entry is
\* due; no other entry is for that fragment.
LEMMA TickPaid ==
    ASSUME Paces, IInv, Paced, Tick, NEW e \in Entries
    PROVE  Paid(e)
  <1> DEFINE p == pending_acks[e]
  <1> SUFFICES ASSUME p.active,
                      \/ pending_acks'[e].retry_count > p.retry_count
                      \/ Fragment(p) \in gaveup' \ gaveup
               PROVE  waited[e] + ((now_ms' - now_ms) % TimeMod) >= Owed(e)
    BY DEF Paid
  <1>1. PICK d \in 1..MaxStep :
        LET now   == (now_ms + d) % TimeMod
            due   == {i \in Entries : Due(pending_acks[i], now)}
            given == {i \in due : Exhausted(pending_acks[i])}
        IN  /\ now_ms' = now
            /\ pending_acks' = [i \in Entries |-> Ticked(pending_acks[i], now)]
            /\ gaveup' = gaveup \cup {Fragment(pending_acks[i]) : i \in given}
    BY DEF Tick
  <1>2. now_ms' = (now_ms + d) % TimeMod /\ now_ms' \in 0..(TimeMod - 1) /\ now_ms \in Int
    BY <1>1, ModInRange, SizeAssumption DEF IInv, TypeOK
  <1>3. Due(p, now_ms')
    <2>1. CASE pending_acks'[e].retry_count > p.retry_count
      <3>1. p \in EntryType /\ p.retry_count \in Nat /\ pending_acks'[e] = Ticked(p, now_ms')
        BY <1>1, SizeAssumption DEF IInv, TypeOK, EntryType
      <3>2. CASE ~Ticked(p, now_ms').active
        <4>1. Ticked(p, now_ms').retry_count = 0 \/ Due(p, now_ms')
          BY <3>1, <3>2 DEF Ticked, Arm, Armed, EntryType
        <4>2. QED
          BY <2>1, <3>1, <4>1
      <3>3. CASE Ticked(p, now_ms').active
        BY <1>2, <2>1, <3>1, <3>3, TickedEntry
      <3>4. QED
        BY <3>2, <3>3
    <2>2. CASE Fragment(p) \in gaveup' \ gaveup
      <3>1. PICK i \in Entries : Due(pending_acks[i], now_ms') /\ Fragment(pending_acks[i]) = Fragment(p)
        BY <1>1, <2>2
      <3>2. pending_acks[i].active
        BY <3>1 DEF Due, Armed
      <3>3. Fragment(p) \in Fragments
        BY DEF IInv, Table, Counted
      <3>4. i = e
        BY <3>1, <3>2, <3>3 DEF IInv, Table, Unique, Holds
      <3>5. QED
        BY <3>1, <3>4
    <2>3. QED
      BY <2>1, <2>2
  <1>4. waited[e] + d >= Owed(e)
    <2>1. Due(pending_acks[e], (now_ms + d) % TimeMod)
      BY <1>2, <1>3, Zenon
    <2>2. QED
      BY <2>1, DuePaid DEF IInv
  <1>5. (now_ms' - now_ms) % TimeMod = d
    <2>1. TimeMod \in Nat \ {0} /\ d \in Int /\ d \in 0..(TimeMod - 1)
      BY SizeAssumption DEF Paces
    <2>2. PICK a \in Int, b \in Int : a = now_ms + d /\ b = -now_ms
      BY <1>2
    <2>3. ((a % TimeMod) + b) % TimeMod = (a + b) % TimeMod
      BY <2>1, LaterRemainder, Zenon
    <2>4. now_ms' = a % TimeMod
      BY <1>2, <2>2, Zenon
    <2>5. (now_ms' + b) % TimeMod = (a + b) % TimeMod
      BY <2>3, <2>4, Zenon
    <2>6. now_ms' + b = now_ms' - now_ms /\ a + b = d
      BY <1>2, <2>2
    <2>7. d % TimeMod = d
      BY <2>1
    <2>8. QED
      BY <2>5, <2>6, <2>7, Zenon
  <1>6. QED
    BY <1>4, <1>5, Zenon

\* A step of another kind sends no fragment again and gives none up.
LEMMA StillPaid ==
    ASSUME gaveup' = gaveup, NEW e \in Entries,
           pending_acks[e].active =>
              pending_acks'[e] = pending_acks[e] \/ pending_acks'[e].retry_count = 0,
           pending_acks[e].active => pending_acks[e].retry_count \in Nat
    PROVE  Paid(e)
  BY DEF Paid

\* Every step keeps the promise.
LEMMA NextPaid ==
    ASSUME Paces, IInv, Paced, [Next]_vars, NEW e \in Entries
    PROVE  Paid(e)
  <1> USE DEF calls, network, history
  <1>1. pending_acks[e].retry_count \in Nat
    BY SizeAssumption DEF IInv, TypeOK, EntryType
  <1>2. CASE Tick
    BY <1>2, TickPaid
  <1>3. ASSUME gaveup' = gaveup, pending_acks' = pending_acks PROVE Paid(e)
    BY <1>1, <1>3, StillPaid
  <1>4. ASSUME NEW dest, NEW seq, NEW idx, OnAck(dest, seq, idx), gaveup' = gaveup
        PROVE  Paid(e)
    <2>1. pending_acks'[e] = pending_acks[e] \/ pending_acks'[e].retry_count = 0
      BY <1>4 DEF OnAck, Free
    <2>2. QED
      BY <1>1, <1>4, <2>1, StillPaid
  <1>5. ASSUME NEW m \in Messages, Register(m) PROVE Paid(e)
    <2>1. PICK i, q :
             /\ i \in Entries /\ ~pending_acks[i].active
             /\ pending_acks' = [pending_acks EXCEPT ![i] = q] /\ gaveup' = gaveup
      BY <1>5 DEF Register, FirstFree
    <2>2. pending_acks[e].active => pending_acks'[e] = pending_acks[e]
      BY <2>1 DEF IInv, TypeOK
    <2>3. QED
      BY <1>1, <2>1, <2>2, StillPaid
  <1>6. ASSUME NEW m \in Messages, RegisterFull(m) \/ LowerSend(m) \/ LowerSendFails(m)
        PROVE  Paid(e)
    BY <1>3, <1>6 DEF RegisterFull, LowerSend, LowerSendFails
  <1>7. ASSUME NEW m \in Messages, Withdraw(m) PROVE Paid(e)
    BY <1>4, <1>7 DEF Withdraw
  <1>8. ASSUME NEW m \in Messages, NEW i \in FragIdx, FragmentArrives(m, i) PROVE Paid(e)
    BY <1>3, <1>8 DEF FragmentArrives
  <1>9. ASSUME NEW p \in Peers, NEW s \in Broadcasts, BroadcastArrives(p, s) PROVE Paid(e)
    BY <1>3, <1>9 DEF BroadcastArrives
  <1>10. ASSUME NEW a \in acks, AckArrives(a) PROVE Paid(e)
    BY <1>4, <1>10 DEF AckArrives
  <1>11. CASE UNCHANGED vars
    BY <1>3, <1>11 DEF vars
  <1>12. QED
    BY <1>2, <1>5, <1>6, <1>7, <1>8, <1>9, <1>10, <1>11 DEF Next, Call

\* Between two transmissions of a fragment, and before reliability_tick gives it up,
\* the pause it is owed passes, also when the clock wraps: for any clock of at least
\* twice the longest pause that is longer than the time between two ticks.
THEOREM BackoffSafe == ASSUME Paces PROVE Spec => Backoff
  <1>1. Init => Paced
    BY DEF Init, Paced, Free
  <1>2. IInv /\ Paced /\ [Next]_vars => Paced'
    BY PacedNext DEF IInv
  <1>3. IInv /\ Paced /\ [Next]_vars => [\A e \in Entries : Paid(e)]_vars
    BY NextPaid
  <1>4. [\A e \in Entries : Paid(e)]_vars =>
           [\A e \in Entries : LET p == pending_acks[e] IN
               p.active /\ (\/ pending_acks'[e].msg = p.msg /\ pending_acks'[e].retry_count > p.retry_count
                            \/ Fragment(p) \in gaveup' \ gaveup)
                  => waited[e] + ((now_ms' - now_ms) % TimeMod) >= Owed(e)]_vars
    BY DEF Paid
  <1>5. QED
    BY <1>1, <1>2, <1>3, <1>4, Invariant, PTL DEF Spec, Backoff
=============================================================================
