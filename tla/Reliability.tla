---------------------------- MODULE Reliability ----------------------------
(***************************************************************************)
(* Fragments sent, acknowledged and sent again, sources/frag/route_frag.c: *)
(* route_frag_send, the table of pending acknowledgements of one node, its *)
(* tick, and the acknowledgements its peers return.                        *)
(*                                                                         *)
(* A message is one call of route_frag_send, made by a thread of its own.  *)
(* A fragment or acknowledgement put out may arrive any number of times,   *)
(* in any order, or never.  What happens under frag_lock is one action;    *)
(* route_frag_send calls lower_send without it.                            *)
(***************************************************************************)
EXTENDS Integers, FiniteSets

CONSTANTS
    Messages,       \* the calls: records [dest, seq, total]
    Peers,
    Broadcasts,     \* numbers of the node's broadcasts, which peers acknowledge too
    MaxPending,     \* cfg_max_pending_acks
    MaxFrags,       \* cfg_max_frags_per_msg
    AckTimeout,     \* cfg_ack_timeout_ms
    RetryMax,       \* cfg_ack_retry_max
    TimeMod,        \* values of the uint32_t clock
    MaxStep,        \* the longest time between two ticks
    None

Entries   == 0..(MaxPending - 1)
FragIdx   == 0..(MaxFrags - 1)
Fragments == {f \in Messages \X FragIdx : f[2] < f[1].total}

ASSUME SizeAssumption ==
    /\ MaxPending \in Nat /\ MaxFrags \in Nat \ {0} /\ RetryMax \in Nat
    /\ AckTimeout \in Nat \ {0} /\ TimeMod \in Nat \ {0} /\ MaxStep \in Nat \ {0}
ASSUME MessageAssumption ==
    /\ \A m \in Messages : m.dest \in Peers /\ m.seq \in Nat /\ m.total \in 1..MaxFrags
    /\ Broadcasts \subseteq Nat /\ None \notin Messages
\* A number comes round again after 256 messages: by then its fragments are gone.
ASSUME NumberAssumption ==
    \A m, n \in Messages : m.dest = n.dest /\ m.seq = n.seq => m = n

VARIABLES
    pending_acks,   \* the table
    now_ms,         \* the time of the last tick
    pc,             \* where each call of route_frag_send is
    frag,           \* its loop variable i
    rel_ok,         \* rel_rc = ROUTE_OK
    sent,           \* the fragments put out
    acks,           \* the acknowledgements put out by the peers
    received,       \* history: the fragments that reached their destination
    heard,          \* history: the broadcasts that reached a peer
    confirmed,      \* history: the fragments released by an acknowledgement
    gaveup,         \* history: the fragments given up
    resent,         \* history: how often the tick has sent each fragment
    waited          \* history: the time since each entry was armed or last resent

calls   == <<pc, frag, rel_ok>>
network == <<sent, acks, received, heard>>
history == <<confirmed, gaveup, resent, waited>>
vars    == <<pending_acks, now_ms, calls, network, history>>

\* What an inactive entry still says is never read.
Free == [active |-> FALSE, msg |-> None, frag_idx |-> 0, retry_count |-> 0, next_retry_ms |-> 0]

Init ==
    /\ pending_acks = [e \in Entries |-> Free]
    /\ now_ms = 0
    /\ pc = [m \in Messages |-> "register"]
    /\ frag = [m \in Messages |-> 0]
    /\ rel_ok = [m \in Messages |-> FALSE]
    /\ sent = {} /\ acks = {} /\ received = {} /\ heard = {}
    /\ confirmed = {} /\ gaveup = {}
    /\ resent = [f \in Fragments |-> 0]
    /\ waited = [e \in Entries |-> 0]

Fragment(p) == <<p.msg, p.frag_idx>>

-----------------------------------------------------------------------------
(* route_frag_send, one turn of its loop for each fragment.                *)

\* reliability_register takes the first free entry; next_retry_ms = 0 is "not armed".
FirstFree(e) ==
    /\ ~pending_acks[e].active
    /\ \A d \in Entries : d < e => pending_acks[d].active

Register(m) ==
    \E e \in Entries :
        /\ pc[m] = "register"
        /\ FirstFree(e)
        /\ pending_acks' = [pending_acks EXCEPT ![e] =
              [active |-> TRUE, msg |-> m, frag_idx |-> frag[m],
               retry_count |-> 0, next_retry_ms |-> 0]]
        /\ rel_ok' = [rel_ok EXCEPT ![m] = TRUE]
        /\ pc' = [pc EXCEPT ![m] = "send"]
        /\ waited' = [waited EXCEPT ![e] = 0]
        /\ UNCHANGED <<now_ms, frag, network, confirmed, gaveup, resent>>

\* The table is full: the fragment is sent all the same, once.
RegisterFull(m) ==
    /\ pc[m] = "register"
    /\ \A e \in Entries : pending_acks[e].active
    /\ rel_ok' = [rel_ok EXCEPT ![m] = FALSE]
    /\ pc' = [pc EXCEPT ![m] = "send"]
    /\ UNCHANGED <<pending_acks, now_ms, frag, network, history>>

LowerSend(m) ==
    /\ pc[m] = "send"
    /\ sent' = sent \cup {<<m, frag[m]>>}
    /\ IF frag[m] + 1 < m.total
       THEN /\ frag' = [frag EXCEPT ![m] = @ + 1]
            /\ pc' = [pc EXCEPT ![m] = "register"]
       ELSE /\ pc' = [pc EXCEPT ![m] = "ok"]
            /\ UNCHANGED frag
    /\ UNCHANGED <<pending_acks, now_ms, rel_ok, acks, received, heard, history>>

\* Mutant: the failed fragment stays in the table.
AfterFailureKept(m) == "failed"

AfterFailure(m) == IF rel_ok[m] THEN "withdraw" ELSE "failed"

\* The call fails with the fragment; those sent before it stay in the table.
LowerSendFails(m) ==
    /\ pc[m] = "send"
    /\ pc' = [pc EXCEPT ![m] = AfterFailure(m)]
    /\ UNCHANGED <<pending_acks, now_ms, frag, rel_ok, network, history>>

\* Mutant: any fragment of the message will do.
MatchesMessage(p, dest, seq, idx) == p.active /\ p.msg.dest = dest /\ p.msg.seq = seq

Matches(p, dest, seq, idx) ==
    p.active /\ p.msg.dest = dest /\ p.msg.seq = seq /\ p.frag_idx = idx

\* reliability_on_ack clears the first entry that matches, if any.
Clears(e, dest, seq, idx) ==
    /\ Matches(pending_acks[e], dest, seq, idx)
    /\ \A d \in Entries : d < e => ~Matches(pending_acks[d], dest, seq, idx)

OnAck(dest, seq, idx) ==
    pending_acks' = [e \in Entries |->
        IF Clears(e, dest, seq, idx) THEN Free ELSE pending_acks[e]]

Withdraw(m) ==
    /\ pc[m] = "withdraw"
    /\ OnAck(m.dest, m.seq, frag[m])
    /\ pc' = [pc EXCEPT ![m] = "failed"]
    /\ UNCHANGED <<now_ms, frag, rel_ok, network, history>>

-----------------------------------------------------------------------------
(* route_frag_input, at a peer and at this node.                           *)

Ack(from, seq, idx) == [from |-> from, seq |-> seq, idx |-> idx]

\* reliability_send_ack, before the fragment is reassembled and whatever comes of that.
FragmentArrives(m, i) ==
    /\ <<m, i>> \in sent
    /\ received' = received \cup {<<m, i>>}
    /\ acks' = acks \cup {Ack(m.dest, m.seq, i)}
    /\ UNCHANGED <<pending_acks, now_ms, calls, sent, heard, history>>

\* A broadcast carries a number of its own count and is acknowledged like a fragment.
BroadcastArrives(p, s) ==
    /\ heard' = heard \cup {<<p, s>>}
    /\ acks' = acks \cup {Ack(p, s, 0)}
    /\ UNCHANGED <<pending_acks, now_ms, calls, sent, received, history>>

AckArrives(a) ==
    /\ OnAck(a.from, a.seq, a.idx)
    /\ confirmed' = confirmed \cup {Fragment(pending_acks[e]) :
                                       e \in {d \in Entries : Clears(d, a.from, a.seq, a.idx)}}
    /\ UNCHANGED <<now_ms, calls, network, gaveup, resent, waited>>

-----------------------------------------------------------------------------
(* reliability_tick                                                        *)

\* Mutants: the sum is not taken modulo the clock; the pause does not grow.
NextRetryUnwrapped(now, k) == now + AckTimeout * (CASE k = 0 -> 1 [] k = 1 -> 2 [] k = 2 -> 4 [] OTHER -> 8)
NextRetryFlat(now, k) == (now + AckTimeout) % TimeMod

\* After k retries: the pause doubles three times.
NextRetry(now, k) ==
    (now + AckTimeout * (CASE k = 0 -> 1 [] k = 1 -> 2 [] k = 2 -> 4 [] OTHER -> 8)) % TimeMod

Armed(p) == p.active /\ p.next_retry_ms # 0

\* (int32_t)(now - next_retry_ms) >= 0
Due(p, now) == Armed(p) /\ (now - p.next_retry_ms) % TimeMod < (TimeMod + 1) \div 2

\* Mutant: the last retry is not made.
ExhaustedEarly(p) == p.retry_count + 1 >= RetryMax

Exhausted(p) == p.retry_count >= RetryMax

\* Mutant: the first tick does not start the pause.
ArmNot(p, now) == p

Arm(p, now) == [p EXCEPT !.next_retry_ms = NextRetry(now, 0)]

\* An entry after its turn in the loop.
Ticked(p, now) ==
    CASE ~p.active -> p
      [] p.active /\ ~Armed(p) -> Arm(p, now)
      [] Armed(p) /\ ~Due(p, now) -> p
      [] Due(p, now) /\ Exhausted(p) -> Free
      [] OTHER -> [p EXCEPT !.retry_count = @ + 1,
                            !.next_retry_ms = NextRetry(now, p.retry_count + 1)]

\* A resend that lower_send refuses counts like any other, and is one that is lost.
Tick ==
    \E d \in 1..MaxStep :
        LET now   == (now_ms + d) % TimeMod
            due   == {e \in Entries : Due(pending_acks[e], now)}
            given == {e \in due : Exhausted(pending_acks[e])}
            again == {Fragment(pending_acks[e]) : e \in due \ given}
        IN  /\ now_ms' = now
            /\ pending_acks' = [e \in Entries |-> Ticked(pending_acks[e], now)]
            /\ sent' = sent \cup again
            /\ gaveup' = gaveup \cup {Fragment(pending_acks[e]) : e \in given}
            /\ resent' = [f \in Fragments |-> IF f \in again THEN resent[f] + 1 ELSE resent[f]]
            /\ waited' = [e \in Entries |->
                  IF e \notin due /\ (Armed(pending_acks[e]) \/ pending_acks[e].retry_count > 0)
                  THEN waited[e] + d ELSE 0]
            /\ UNCHANGED <<calls, acks, received, heard, confirmed>>

Call(m) == \/ Register(m) \/ RegisterFull(m) \/ LowerSend(m)
           \/ LowerSendFails(m) \/ Withdraw(m)

Next ==
    \/ \E m \in Messages : Call(m)
    \/ \E m \in Messages, i \in FragIdx : FragmentArrives(m, i)
    \/ \E p \in Peers, s \in Broadcasts : BroadcastArrives(p, s)
    \/ \E a \in acks : AckArrives(a)
    \/ Tick

Spec == Init /\ [][Next]_vars

\* The main loop calls the tick again and again.
FairSpec == Spec /\ WF_vars(Tick)

-----------------------------------------------------------------------------
(* Properties.                                                             *)

EntryType == [active : BOOLEAN, msg : Messages \cup {None}, frag_idx : FragIdx,
              retry_count : 0..RetryMax, next_retry_ms : 0..(TimeMod - 1)]

\* The table, the clock and the calls.
TypeOK ==
    /\ pending_acks \in [Entries -> EntryType]
    /\ \A e \in Entries : pending_acks[e].active => pending_acks[e].msg \in Messages
    /\ now_ms \in 0..(TimeMod - 1)
    /\ pc \in [Messages -> {"register", "send", "withdraw", "ok", "failed"}]
    /\ frag \in [Messages -> FragIdx]
    /\ \A m \in Messages : frag[m] < m.total
    /\ rel_ok \in [Messages -> BOOLEAN]
    /\ resent \in [Fragments -> 0..RetryMax]

\* A fragment released by an acknowledgement has reached its destination, whatever
\* is lost, repeated or late: or else it is the first of a message that has the same
\* number as a broadcast which that destination has acknowledged.
AckMeansReceived ==
    \A f \in confirmed :
        f \in received \/ (f[2] = 0 /\ <<f[1].dest, f[1].seq>> \in heard)

\* No fragment is given up before all its retries were made, and none is sent more
\* often.
Persistent ==
    \A f \in Fragments : resent[f] <= RetryMax /\ (f \in gaveup => resent[f] = RetryMax)

\* Once route_frag_send has told its caller that a message failed, the tick does not
\* send the fragment that failed any more, also when it had sent it again while the
\* call was still in lower_send.  (The copy it sent then may still arrive, and may
\* complete the message.)
FailedNotResent ==
    [][\A m \in Messages : pc[m] = "failed" =>
          resent'[<<m, frag[m]>>] = resent[<<m, frag[m]>>]]_vars

\* The pause after k retries, and what the fragment of an entry gets of it: when the
\* time to send again falls on 0 the entry counts as not armed, and the next tick cuts
\* the pause to that of a first try.
Pause(k) == AckTimeout * (IF k < 3 THEN 2^k ELSE 8)
Owed(e) ==
    LET k == pending_acks[e].retry_count IN
    IF k > 0 /\ (now_ms - waited[e] + Pause(k)) % TimeMod = 0 THEN AckTimeout + 1 ELSE Pause(k)

\* Between two transmissions of a fragment, and before it is given up, the pause it
\* is owed has passed, also when the clock wraps.
Backoff ==
    [][\A e \in Entries : LET p == pending_acks[e] IN
          p.active /\ (\/ pending_acks'[e].msg = p.msg /\ pending_acks'[e].retry_count > p.retry_count
                       \/ Fragment(p) \in gaveup' \ gaveup)
             => waited[e] + ((now_ms' - now_ms) % TimeMod) >= Owed(e)]_vars

\* Every fragment is acknowledged or given up: the table drains, whatever is lost.
Drained == <>[](\A e \in Entries : ~pending_acks[e].active)
=============================================================================
