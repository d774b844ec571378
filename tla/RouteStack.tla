---------------------------- MODULE RouteStack -----------------------------
(***************************************************************************)
(* Requests, replies and broadcasts between whole stacks, as wired by      *)
(* sources/route_stack.c and used by examples/example_full_stack.c: how    *)
(* the numbers given out at one node meet the numbers expected at another. *)
(*                                                                         *)
(* A node calls the stack, its tick and its poll from one main loop, so    *)
(* that a call with all it causes in the layers below is one action.  Those*)
(* layers carry a message whole (Reassembly) along a route (Router), and in*)
(* the order of sending as long as no frame of it is lost.  A lost frame is*)
(* sent again by the tick (Reliability): the message then arrives behind   *)
(* messages sent after it, or, if only the acknowledgement was lost, twice,*)
(* or, if all retries are lost or none was registered, not at all.         *)
(***************************************************************************)
EXTENDS Integers, Sequences

CONSTANTS
    Nodes,
    Requests,       \* the requests made: records [id, src, dst]
    All,            \* ROUTE_BROADCAST_ADDR
    None,
    MaxTrans,       \* cfg_max_trans
    SeqMod,         \* values of the uint8_t counters
    Broadcasters,   \* the nodes that send broadcasts
    MaxBroadcasts,  \* bound on the broadcasts of each
    MaxFaults       \* bound on the messages lost, repeated, late or not sent

Slots == 0..(MaxTrans - 1)
Links == {l \in Nodes \X Nodes : l[1] # l[2]}

ASSUME SizeAssumption ==
    /\ MaxTrans \in Nat \ {0} /\ SeqMod \in Nat \ {0} /\ MaxFaults \in Nat
    /\ Broadcasters \subseteq Nodes /\ MaxBroadcasts \in 0..(SeqMod - 1)
ASSUME NameAssumption ==
    /\ All \notin Nodes \cup Requests /\ None \notin Requests
    /\ \A r \in Requests : <<r.src, r.dst>> \in Links

VARIABLES
    seq_counter,        \* of each node's transaction layer
    bcast_seq_counter,  \* of each node's stack
    trans_table,        \* of each node: the requests that wait for their answer
    link,               \* the messages under way from node to node
    new,                \* the requests not yet made
    answered,           \* history: <<request, what the accepted answer replied to>>
    refused,            \* history: waiting requests whose own reply was refused
    uses,               \* history: what each node's seq_counter was used for
    disturbed,          \* history: <<what happened to a message, its link>>
    faults              \* history: how many such disturbances there were

vars == <<seq_counter, bcast_seq_counter, trans_table, link, new,
          answered, refused, uses, disturbed, faults>>

Idle == [state |-> "IDLE", req |-> None, seq |-> 0]

\* route_stack_wire
Init ==
    /\ seq_counter = [n \in Nodes |-> 0]
    /\ bcast_seq_counter = [n \in Nodes |-> 0]
    /\ trans_table = [n \in Nodes |-> [i \in Slots |-> Idle]]
    /\ link = [l \in Links |-> <<>>]
    /\ new = Requests
    /\ answered = {} /\ refused = {} /\ disturbed = {}
    /\ uses = [n \in Nodes |-> {}]
    /\ faults = 0

-----------------------------------------------------------------------------
(* Sending.                                                                *)

\* Mutant: the counter does not wrap.
IncrementUnwrapped(k) == k + 1

Increment(k) == (k + 1) % SeqMod

\* stack_trans_to_frag and stack_frag_to_router; `for` is what the message is about.
Message(type, trans_id, seq, for) ==
    [type |-> type, trans_id |-> trans_id, seq |-> seq, for |-> for]

FirstIdle(n, i) ==
    /\ trans_table[n][i].state = "IDLE"
    /\ \A j \in Slots : j < i => trans_table[n][j].state # "IDLE"

\* route_stack_send_async, route_stack_send_sync
SendRequest(r) ==
    \E i \in Slots :
        /\ r \in new
        /\ FirstIdle(r.src, i)
        /\ trans_table' = [trans_table EXCEPT ![r.src][i] =
              [state |-> "WAITING", req |-> r, seq |-> seq_counter[r.src]]]
        /\ seq_counter' = [seq_counter EXCEPT ![r.src] = Increment(@)]
        /\ link' = [link EXCEPT ![<<r.src, r.dst>>] =
              Append(@, Message("REQUEST", i, seq_counter[r.src], r))]
        /\ uses' = [uses EXCEPT ![r.src] = @ \cup {<<"request", r.dst>>}]
        /\ new' = new \ {r}
        /\ UNCHANGED <<bcast_seq_counter, answered, refused, disturbed, faults>>

\* Something befalls a message of link l.
Disturb(l, how) ==
    /\ faults < MaxFaults
    /\ faults' = faults + 1
    /\ disturbed' = disturbed \cup {<<how, l>>}

\* lower_send fails: the slot is given back, the number is not.
SendFails(r) ==
    /\ r \in new
    /\ \E i \in Slots : FirstIdle(r.src, i)
    /\ seq_counter' = [seq_counter EXCEPT ![r.src] = Increment(@)]
    /\ uses' = [uses EXCEPT ![r.src] = @ \cup {<<"request", r.dst>>}]
    /\ new' = new \ {r}
    /\ Disturb(<<r.src, r.dst>>, "lost")
    /\ UNCHANGED <<bcast_seq_counter, trans_table, link, answered, refused>>

\* route_stack_broadcast has a counter of its own and goes past the layers between.
Broadcast(n) ==
    /\ bcast_seq_counter[n] < MaxBroadcasts
    /\ bcast_seq_counter' = [bcast_seq_counter EXCEPT ![n] = Increment(@)]
    /\ link' = [l \in Links |-> IF l[1] = n
                   THEN Append(link[l], Message("REQUEST", 0, bcast_seq_counter[n], All))
                   ELSE link[l]]
    /\ UNCHANGED <<seq_counter, trans_table, new, answered, refused, uses, disturbed,
                   faults>>

-----------------------------------------------------------------------------
(* Receiving.                                                              *)

\* n polls the first message of the link from m.
Polls(n, m, type) ==
    /\ <<m, n>> \in Links /\ link[<<m, n>>] # <<>>
    /\ Head(link[<<m, n>>]).type = type

Taken(n, m) == [link EXCEPT ![<<m, n>>] = Tail(@)]

\* Mutant: the counter is moved before it is read.
ReplyNumberNext(n) == Increment(seq_counter[n])

\* route_transaction_reply gives the reply a number of the replier's.
ReplyNumber(n) == seq_counter[n]

\* stack_frag_complete hands any message but a response to the application, which is
\* not told whether it was a broadcast, and replies at once (on_request).
OnRequest(n, m) ==
    LET f == Head(link[<<m, n>>]) IN
    /\ Polls(n, m, "REQUEST")
    /\ link' = [Taken(n, m) EXCEPT ![<<n, m>>] =
          Append(@, Message("RESPONSE", f.trans_id, ReplyNumber(n), f.for))]
    /\ seq_counter' = [seq_counter EXCEPT ![n] = Increment(@)]
    /\ uses' = [uses EXCEPT ![n] = @ \cup {<<"reply", IF f.for = All THEN All ELSE m>>}]
    /\ UNCHANGED <<bcast_seq_counter, trans_table, new, answered, refused, disturbed, faults>>

\* Mutant: a late reply is not told apart by its number.
MatchesAnySeq(s, m, f) == s.state = "WAITING" /\ s.req.dst = m

\* What route_transaction_on_response asks of the slot that a response names.
Matches(s, m, f) == s.state = "WAITING" /\ s.req.dst = m /\ s.seq = f.seq

Accept(n, m) ==
    LET f == Head(link[<<m, n>>])  s == trans_table[n][f.trans_id] IN
    /\ Polls(n, m, "RESPONSE")
    /\ Matches(s, m, f)
    /\ trans_table' = [trans_table EXCEPT ![n][f.trans_id] = Idle]
    /\ answered' = answered \cup {<<s.req, f.for>>}
    /\ link' = Taken(n, m)
    /\ UNCHANGED <<seq_counter, bcast_seq_counter, new, refused, uses, disturbed,
                   faults>>

Refuse(n, m) ==
    LET f == Head(link[<<m, n>>])  s == trans_table[n][f.trans_id] IN
    /\ Polls(n, m, "RESPONSE")
    /\ ~Matches(s, m, f)
    /\ refused' = IF s.state = "WAITING" /\ s.req = f.for THEN refused \cup {f.for} ELSE refused
    /\ link' = Taken(n, m)
    /\ UNCHANGED <<seq_counter, bcast_seq_counter, trans_table, new, answered, uses,
                   disturbed, faults>>

\* route_stack_tick ends a request whose time is over, at any time.
TimeOut(n, i) ==
    /\ trans_table[n][i].state = "WAITING"
    /\ trans_table' = [trans_table EXCEPT ![n][i] = Idle]
    /\ UNCHANGED <<seq_counter, bcast_seq_counter, link, new, answered, refused, uses, disturbed,
                   faults>>

-----------------------------------------------------------------------------
(* What the layers below do to the message that is next on a link.         *)

Befalls(l, how, messages) ==
    /\ link[l] # <<>>
    /\ Disturb(l, how)
    /\ link' = [link EXCEPT ![l] = messages]
    /\ UNCHANGED <<seq_counter, bcast_seq_counter, trans_table, new, answered, refused, uses>>

\* A frame of it is lost, and so are its retries, or the frame was not registered.
Lose(l) == Befalls(l, "lost", Tail(link[l]))

\* It has arrived, but its acknowledgement is lost: it is sent again.
Repeat(l) == Befalls(l, "repeated", Append(link[l], Head(link[l])))

\* The first message of q arrives when the p-th has.
Behind(q, p) ==
    [k \in 1..Len(q) |-> IF k < p THEN q[k + 1] ELSE IF k = p THEN q[1] ELSE q[k]]

\* A frame of it is lost and sent again, when others have overtaken it.
Late(l) == \E p \in 2..Len(link[l]) : Befalls(l, "late", Behind(link[l], p))

Next ==
    \/ \E r \in Requests : SendRequest(r) \/ SendFails(r)
    \/ \E n \in Broadcasters : Broadcast(n)
    \/ \E n, m \in Nodes : OnRequest(n, m) \/ Accept(n, m) \/ Refuse(n, m)
    \/ \E n \in Nodes, i \in Slots : TimeOut(n, i)
    \/ \E l \in Links : Lose(l) \/ Repeat(l) \/ Late(l)

Spec == Init /\ [][Next]_vars

-----------------------------------------------------------------------------
(* Properties.                                                             *)

\* The counters stay within their width, and the tables hold requests of their node.
TypeOK ==
    /\ seq_counter \in [Nodes -> 0..(SeqMod - 1)]
    /\ bcast_seq_counter \in [Nodes -> 0..(SeqMod - 1)]
    /\ \A n \in Nodes, i \in Slots : LET s == trans_table[n][i] IN
          /\ s.seq \in 0..(SeqMod - 1)
          /\ s = Idle \/ (s.state = "WAITING" /\ s.req \in Requests /\ s.req.src = n)

\* The sender of the link uses its counter for requests to the receiver, and the
\* receiver uses its own for the replies to these, and both for nothing else.
Exclusive(l) ==
    /\ uses[l[1]] \subseteq {<<"request", l[2]>>}
    /\ uses[l[2]] \subseteq {<<"reply", l[1]>>}

\* No message of the link arrived a second time or behind one sent after it.
InTurn(l) == {<<"repeated", l>>, <<"late", l>>} \cap disturbed = {}

\* A node that asks one node only, which answers that node only, is understood as
\* long as its requests arrive in turn and none is lost or fails to be sent: each
\* reply carries the number of its request, and none is refused while its request
\* waits, whatever happens to the replies.
InStep ==
    \A l \in Links :
        Exclusive(l) /\ InTurn(l) /\ <<"lost", l>> \notin disturbed
            => \A r \in refused : <<r.src, r.dst>> # l

\* Such a node is given no answer to a request but its own, also when requests are
\* lost and replies lost, repeated, out of turn or after the time-out, as long as its
\* requests that arrive do so in turn.
AnswersOwn ==
    \A a \in answered : LET l == <<a[1].src, a[1].dst>> IN
        Exclusive(l) /\ InTurn(l) => a[2] = a[1]

\* A reply that arrives while its request waits is accepted.
RepliesAccepted == refused = {}
=============================================================================
