# comm_route in TLA+

comm_route is a small communication stack in C for embedded nodes: static and
flooding routing, fragmentation with optional acknowledgements, and
request/response transactions, joined by a thin glue layer. This directory
models it in TLA+, model-checks the models with TLC on small instances, and
proves the main safety properties with TLAPS for all values of the constants.

`PROJECT.json` is the machine-readable index: components, runs, mutants, the map
from definitions to source lines, findings, hazards, theorems.

    tlc -workers 2 -config transaction_async.cfg MCTransaction
    tlapm TransactionProofs.tla

## The system

| Component | Source (`src/sources/`) | State | Operations |
|---|---|---|---|
| Transaction layer | `transaction/route_transaction.c` | table of requests, sequence counter, shutdown flag, one mutex | `send_async`, `send_sync`, `reply`, `on_response`, `tick`, `deinit` |
| Fragment reassembly | `frag/route_frag.c` | reassembly slots, clock, completion buffer, one optional lock | `input` (`frag_reassemble`), `tick`, `deinit` |
| Fragment sending, acknowledgements | `frag/route_frag.c` | table of unacknowledged fragments | `send`, `input` (a fragment to acknowledge, an ACK), `tick` |
| Block pool | `common/route_pool.c` | bitmap of free blocks, their bytes | `alloc`, `free` |
| Receive queue | `common/route_queue.c` | ring of cells, two indices, a count; optional lock in the router | `push`, `pop` |
| Router | `router/route_router.c` | routes, ports, table of broadcasts seen, clock, three frame buffers | `port_register`, `table_set`, `send`, `input`, `poll`, `tick` |
| Codec, checksum | `router/route_router.c`, `common/route_crc.c` | none | encode, decode |
| Stack wiring | `route_stack.c` | pointers, the broadcast counter | `wire`, `send_async`, `send_sync`, `reply`, `broadcast`, `poll`, `tick`; the callbacks between the layers |
| OS interface | `common/route_os.h` | external | mutexes, counting semaphores with a timeout |

Downwards a request goes `send_sync`/`send_async` -> `route_frag_send` ->
`route_router_send` -> the port. Upwards a frame goes `route_router_input` (a
port's thread or interrupt) -> receive queue -> `route_router_poll` ->
`router_handle_frame` -> `route_frag_input` -> `route_transaction_on_response` or
the application. `route_stack_tick` drives the three ticks. Nothing is
persisted. Every table is a fixed array and is entered under its own lock, if
the application supplies one; callbacks, `lower_send` and semaphore waits happen
outside the locks, and that is where the hard behaviour is: a slot read after
the lock was dropped, a slot freed by one thread and still used by another,
three parties concluding the same request, stale answers, tables and pools
running full, serial-number time.

What makes each component correct:

* Transaction: a request is concluded exactly once; an answer goes only to the
  request it names; response buffers and semaphores are used only while they
  exist; slots come free again; a synchronous OK means there is a response.
* Reassembly and pool: what is handed up is one whole message; no block leaks or
  is held twice; incomplete messages are given up in time.
* Sending with acknowledgements: a fragment is sent until it is acknowledged or
  its retries are used up, each after its pause, and the fragment that failed is
  not sent again once the caller was told; an acknowledgement means arrival; the
  table drains.
* Queue: a FIFO that loses, repeats and reorders nothing.
* Router: a broadcast reaches every node in range once; a unicast frame follows
  its routes; nothing circulates for ever.

* Stack: an answer is the answer to the request that gets it, and is accepted.

The list of everything hard to test, line by line, is under `hazards`.

## Modules

### Transaction, MCTransaction, TransactionProofs, CallbackProofs

`Transaction` has one action per critical section and one per unlocked step.
`trans_table`, `seq_counter` and `shutdown` are the variables of the code.
`pc`, `frame`, `waitOn` and `outcome` are the stacks of the calling threads; `rx`,
`tick` and `deinit` those of the receive, tick and deinit threads, with the
callbacks they captured under the lock and have yet to run; `live` is the set of
existing semaphores; `fired` and `answers` are history.

| Code | Actions |
|---|---|
| `send_async` | `AsyncAlloc` or `AsyncFull`; after `lower_send`: `AsyncSent` or `AsyncSendFail` |
| `send_sync` | `SyncAlloc`, `SyncNoSem` or `SyncFull`; `SyncSent`, or `SyncSendFail` then `SyncFailFree`; `SyncWait`, `SyncWake`, `SyncReap` |
| `reply` | `Reply` |
| `on_response` | `RxArrive` (checks before the lock); `RxDrop`, `RxAsync`, `RxSync` or `RxSilent`; `RxCall` (the callback) |
| `tick` | `TickStart` (shutdown check, new time); `TickScan` (the whole loop, under one lock); `TickCall` |
| `deinit` | `DeinitStart`; `DeinitSlot` and `DeinitCall` for each slot; `DeinitDone` |

A response may carry any source, transaction and sequence number: the peer
numbers its replies itself and the network repeats and delays. `lower_send` may
fail. `sem_wait` may end at any time, because its timeout runs on a clock of the
operating system; so whether a semaphore has been posted need not be modelled.
The semaphore passed to `sem_wait` is read from the slot without the lock, as in
the code. A pointer into a call (callback, buffer, semaphore) is the name of the
call. Payloads, `user_data` and statistics are left out. That a thread starts no
call after `deinit` was called is the assumption under which the layer may be
shut down at all: `send_async` and `send_sync` do not look at `shutdown`.

### Reassembly, MCReassembly, ReassemblyProofs, SlotProofs

`Reassembly` models the receiving half of `route_frag.c` with the pool inside it:
`bitmap` is the set of free blocks, `storage` the frame copied into each block in
use. `InputSingle`, `InputRefused`, `InputNoBlock`, `InputStored` and
`InputComplete` are the ways `frag_reassemble` changes the state; the ways it only
counts a drop have no action. `Complete` is the callback after the unlock,
`TickStart`/`TickExpire` the two halves of `route_frag_tick` (`current_ms` is
written before the lock is taken), `Deinit` is `route_frag_deinit`. A payload is the
frame that carried it, a length a small number. What a free block still
contains is forgotten, because nothing reads it.

### Reliability, MCReliability, ReliabilityProofs

`Reliability` models the sending half of `route_frag.c` at one node and, of its
peers, the acknowledgements. `pending_acks` is the table of the code; `pc`, `frag`
and `rel_ok` are the loop of each call of `route_frag_send`, which may run on a
thread of its own, with `lower_send` called outside the lock.

| Code | Actions |
|---|---|
| `route_frag_send`, one turn of its loop | `Register` (`reliability_register`) or `RegisterFull` (the table is full: sent once, without retry); then `LowerSend`, or `LowerSendFails` and, if the fragment was registered, `Withdraw` |
| `reliability_send_ack`, at a peer | `FragmentArrives`; `BroadcastArrives` for a broadcast, which is acknowledged too |
| `reliability_on_ack` | `AckArrives` |
| `reliability_tick` | `Tick`: the whole loop over the table |

`sent` and `acks` only grow, and anything in them may arrive at any time, again, or
never: loss, repetition and reordering need no actions of their own.
`received`, `heard`, `confirmed`, `gaveup`, `resent` and `waited` are history. What the
model brings to light, and the properties are worded for:

* A fragment is acknowledged *before* it is reassembled (`route_frag.c:341`): an
  acknowledgement means that it arrived, not that it was kept.
* Broadcasts are numbered by another counter (`route_stack.c:126`) and
  acknowledged by everyone. Such an acknowledgement releases the first fragment
  of a unicast message with the same number to the same peer.
* `next_retry_ms = 0` means "not armed". When a time to send again falls on 0 the
  next tick arms the entry afresh, with the pause of a first try (`Owed`).
* A message that fails half-way leaves the fragments before the failed one in the
  table; they are sent again although the caller was told of the failure. Only
  the failed fragment is withdrawn: the tick does not send it again
  (`FailedNotResent`), but a copy that the tick sent while the call was still in
  `lower_send` may arrive and complete the message.

### RouteStack, MCRouteStack, StackProofs

`RouteStack` composes whole stacks as `route_stack.c` wires them. A node calls the
stack, its tick and its poll from one main loop, as `example_full_stack.c` does, so
a call with everything it causes in the layers below is one action: `SendRequest`,
`Broadcast`, `OnRequest` (the application is handed a request and replies to it),
`Accept` and `Refuse` (`on_response`), `TimeOut`; `SendFails` is a request whose
`lower_send` fails, which gives back its slot and uses up a number. The layers
between are represented by what the other modules show of them: a link carries
whole messages (`Reassembly`, `Router`), in the order of sending (`RecvQueue`) as long as
no frame is lost. What the tick of `route_frag.c` then makes of a lost frame
(`Reliability`) has three outcomes: `Lose` (the retries are lost too, or the fragment
was not registered), `Repeat` (only the acknowledgement was lost), and `Late`: the
message arrives by a retry, behind messages sent after it. `faults` counts these and
`disturbed` says on which links they occurred. The module follows the
three 8-bit numbers of a message: transaction, sequence number of the
transaction layer, sequence number of a broadcast.

### BoundedFifo, RecvQueue, RecvQueueProofs

`RecvQueue` is `route_queue_push` and `route_queue_pop` one shared access at a time,
`count++` and `count--` as a load and a store, under the `queue_lock` of
`route_router_input` and `route_router_poll` or, with `Exclusion = "isr"`, with
interrupt handlers as producers that run to completion and stop the poller where
it is. `BoundedFifo` is what the queue promises, and `Fifo` in `RecvQueue` the
refinement mapping: a push takes effect when it stores the count, a pop when it
advances `head`.

### Router, Simulation, MCRouter, RouterProofs

`Router` is a network of routers. The application first builds it:
`PortRegister` and `TableSet` are `route_router_port_register` and
`route_router_table_set`, at every node in any order, until the network is one of
`Networks`. `link` is what a port has put out and the neighbour has not handled;
`seen_table` and `seen_index` are those of the code, one per node.
`SeenCheckAndAdd` is the whole of `router_seen_check_and_add`, with the entries its
loop drops on the way. `SendBroadcast`, `SendUnicast` are `route_router_send`;
`DropTtl`, `DropSeen`, `Flood`, `Receive`, `DropNoRoute` and `Forward` are the branches
of `router_handle_frame`, in the order of the code.

`Simulation` holds the four networks of `example_simulation.c` (star, chain, tree
and ring with a diagonal), with the routing tables the example gives its nodes and
the messages it sends. `MCRouter` adds a square, in which a broadcast needs its last
hop, and a triangle, whose routes to one node form a loop.

## Runs

| Run | Result | What it shows |
|---|---|---|
| `transaction_async` | holds, 548,784 states | two asynchronous requests against stale responses, timeouts with a batch of one, and shutdown: `CallbackOnce`, `DeinitDrains`, `AsyncAnswered` |
| `transaction_sync` | holds, 137,292 states | one thread with two synchronous requests and a request nobody waits for: `SyncOkMeansAnswered`, `SemaphoreAlive`, `NoSemaphoreLeak`, `SlotReleased` |
| `transaction_shared` | holds, 4,487,904 states | three threads over one slot that is freed under them, also by a deinit while a request is being sent: `BufferLifetime`, `RightAnswer` |
| `transaction_slot_theft` | **violated** | two threads over one slot: `SyncOkMeansAnswered` fails (finding 1) |
| `reassembly` | holds, 209,808 states | `PoolConservation`, `Integrity`, `SlotsConsistent`, `SlotAge` |
| `recv_queue` | holds, 6,146 states | `QueueHoldsAccepted`, and `RecvQueue` implements `BoundedFifo` under the lock |
| `recv_queue_isr` | **violated** | `QueueHoldsAccepted` fails without a lock (finding 2) |
| `router_simulation` | holds, 40,324 states | `DeliverOnce`, `GetsThrough` in the networks of the example and in the square |
| `router_overflow` | holds, 341,456 states | `SeenUnique`, `ComesToRest` with a seen table too small and routes that loop |
| `reliability` | holds, 313,012 states | a message of two fragments and one of one share a table of two: `Persistent`, `AckMeansReceived`, `FailedNotResent`, `Backoff`, `Drained` |
| `stack` | holds, 1,245,710 states | two nodes ask a third, one of them twice, the other also sends a broadcast; one message is lost, repeated, late or not sent: `InStep`, `AnswersOwn` |
| `stack_reply` | **violated** | two nodes ask a third, each once: `RepliesAccepted` fails (finding 3) |

Every property of a passing run has a mutant of the code (`mutants`) that breaks
it: a definition named `...Unwrapped`, `...Stale` and so on, directly before the
one it stands in for.

### Findings

1. *A synchronous call may return another call's result.* When the tick (or
   deinit) ends a synchronous request it posts the semaphore and makes the slot
   IDLE at once (`route_transaction.c:262`). Until the woken caller has locked
   again (line 169) another thread may take the slot; the first caller then
   returns the second's result, destroys the second's semaphore and frees its
   slot. The second clause, a destroyed semaphore in use, is `SemaphoreAlive`; it
   too holds only with one calling thread, and with `QuiescentDeinit` (below). What survives sharing is proved:
   `BufferSafe` and `AnswerSafe`.
2. *A frame accepted from an interrupt handler may be lost.* The examples call
   `route_router_input` from a UART interrupt with `queue_lock = NULL`; `count--` in
   the main loop then overwrites the handler's `count++` (`route_queue.c:27,39`).
3. *Replies are refused although their request waits.* `route_transaction_reply`
   numbers a reply with the replier's own counter (`route_transaction.c:182`), and
   the requester accepts only the number of its request (line 196). The two
   agree only while one node does nothing but ask the other and this one nothing
   but answer it. The first reply to a second client is refused, and one request
   lost, repeated or failed to be sent puts the two counters out of step: every
   later request of that client times out, until as many disturbances the other
   way, or a wrap, happen to bring them together. `InStep` says when replies are understood.

What is no finding, because nothing in the repository says otherwise, but worth
knowing: a reply to a broadcast names transaction 0, so it may be taken as the
answer to a request in slot 0 of the node that sent the broadcast, if the numbers
happen to agree. A request that is carried twice is answered twice, after
which replies of the one exchange may be taken for the other's. And a request
whose frame was lost may be overtaken by the next one before the tick sends it
again: nothing is lost or repeated in the end, but the replies are numbered in the
order of arrival, so both are refused, or, once the first has timed out, the second
request is given the reply to the first. `AnswersOwn` and `InStep` are therefore
stated for nodes that neither receive nor answer anything else (`Exclusive`) and
for requests that arrive once and in the order of sending (`InTurn`); without
`InTurn` TLC finds both false. In the same way `SemaphoreAlive` needs
`QuiescentDeinit`: when `lower_send` fails, `send_sync` destroys the semaphore
(`route_transaction.c:155`) before it takes the lock (156), and a deinit that has
the lock in between posts to it (64).

### Bounds

* Sequence numbers (`SeqMod` 1 or 2, for 256): so small that numbers are reused
  at once, which is the hard case for stale answers. With one number
  (`transaction_sync`) every response that names the right slot and node matches.
* Time (`TimeMod` 2, 4 or 6, for 2^32, `MaxStep` 1): deadlines wrap, fall on the
  sentinel 0 and lie on both sides of the sign bit. Timeouts are one or two
  ticks, below half the clock as in any sensible configuration.
* `MaxBatch` is 1 with two callbacks due, for 32 with more: the overflow happens.
* Slots: 2 and 1. One slot and three calls is where calls steal from each other.
  There the two synchronous calls are interchangeable (`SYMMETRY Callers`): they
  differ in their names only, and the run checks invariants only.
* Reassembly: two slots and three blocks for messages of 3, 2, 2 and 1
  fragments, so slots and pool both run out in the middle of a message; one
  message is beyond `MaxPayload`; one fragment has an index, one a total, out of
  range. A node does not reuse a sequence number while a fragment of the earlier
  message may still arrive: that mixture is listed as a hazard.
* Queue: three cells and two producers: the indices wrap at empty and at full.
* Acknowledgements: a table of two for three fragments, so that it runs full in
  the middle of a message; a message with the number of a broadcast; a pause of
  one tick and one retry, so that a fragment is sent twice and then given up. Two
  retries on a clock of eight were tried as well (1.8 million states); the pause
  never exceeds half the clock. `NumberAssumption`: two messages to one peer do not
  have the same number: it takes 256 messages until one is used again.
* Stack: `SeqMod` 4, for 256, with three requests, so that the requests of a node
  are told apart; two slots, so that a slot is used again after a time-out; one
  message lost, repeated, late or not sent, at any moment.
* Router: in the square two hops reach the far node exactly at the hop limit, over
  two paths. The example's networks have its hop limit of 8. `QuietTick`: transit is short against `seen_expire_ms`
  (seconds in every configuration), so time passes while no frame is in flight.
  All clocks of the network tick together. Links are never full: a full link is loss, for which the router promises
  nothing.
* `DeliverOnce` and `GetsThrough` are stated for a seen table with room for the
  broadcasts under way; the tests say themselves that beyond it copies get
  through (`tests/test_stress.c:520`). `SeenUnique` and `ComesToRest` are checked
  without that condition.
* `QuiescentDeinit`: deinit begins when no call is inside `lower_send`, except in
  `transaction_shared`, where it begins at any moment. Without it `CallbackOnce`,
  `DeinitDrains` and `SemaphoreAlive` are false.
* Deadlock is not checked in the transaction runs: once every call is made and
  the layer is shut down, nothing more happens, and that is right.

### Fairness

`AsyncAnswered` and `SlotReleased` assume that the tick is called again and again
(every user of the library drives it from its main loop) and that a thread that
is inside a function of the layer proceeds: `lower_send` returns, `sem_wait` is
bounded by its timeout, locks are fair enough. No fairness is assumed of new
calls, of responses or of a shutdown. Weak fairness is enough: between two ticks
nothing disables the next one, except a shutdown, and then deinit's own steps
carry on. `GetsThrough` and `ComesToRest` assume that every node polls its queue
again and again; none of sending or of time. `Drained` assumes that the tick is
called again and again, of the network nothing: it holds when every frame is lost.
The stack is checked for safety only.

## Proofs

| Theorem | Module | Statement | From |
|---|---|---|---|
| `TypeCorrect` | `TransactionProofs` | `Spec => []TypeOK` | one step per action |
| `BufferSafe`, `AnswerSafe` | `TransactionProofs` | `Spec => []BufferLifetime`, `Spec => []RightAnswer` | `IInv` |
| `DeinitSafe` | `TransactionProofs` | `Spec => []DeinitDrains` | `Drained`, if `QuiescentDeinit` |
| `SyncOkSafe`, `SemaphoresFreed` | `TransactionProofs` | `Spec => []...` of `SyncOkMeansAnswered`, `NoSemaphoreLeak` | `IInv` and `SInv`, if `OneCaller` |
| `SemaphoreSafe` | `TransactionProofs` | `Spec => []SemaphoreAlive` | `IInv`, `SInv` and `Drained`, if `OneCaller` and `QuiescentDeinit` |
| `CallbackSafe` | `CallbackProofs` | `Spec => []CallbackOnce` | `CInv` and `SInv`, if `OneCaller` and `QuiescentDeinit` |
| `PoolSafe` | `ReassemblyProofs` | `Spec => []PoolConservation` | `Inv` |
| `TypeCorrect`, `SlotsSafe` | `SlotProofs` | `Spec => []...` of `TypeOK`, `SlotsConsistent` | `Inv` and the property |
| `AgeSafe` | `SlotProofs` | `Spec => []SlotAge` | `Young`, if `Wide` |
| `MessagesWhole` | `SlotProofs` | `Spec => []Integrity` | `Inv`, `SlotsConsistent` and `Whole`, if `Numbered` |
| `TypeCorrect`, `PersistentSafe`, `AckSafe` | `ReliabilityProofs` | `Spec => []...` of `TypeOK`, `Persistent`, `AckMeansReceived` | `IInv` |
| `FailedSafe` | `ReliabilityProofs` | `Spec => FailedNotResent` | `IInv` |
| `BackoffSafe` | `ReliabilityProofs` | `Spec => Backoff` | `IInv` and `Paced`, if `Paces` |
| `TypeCorrect`, `QueueSafe` | `RecvQueueProofs` | `Spec => []...` of `TypeOK`, `QueueHoldsAccepted` | `Inv`, if `Exclusion = "lock"` |
| `FifoImplemented` | `RecvQueueProofs` | `Spec => Fifo!Spec`, `Fifo` being `BoundedFifo` under the mapping | `Inv`, if `Exclusion = "lock"` |
| `TypeCorrect`, `SeenSafe` | `RouterProofs` | `Spec => []...` of `TypeOK`, `SeenUnique` | `IInv` |
| `OnceWithRoom` | `RouterProofs` | `Spec /\ [][KeepsLive]_vars => []DeliverOnce` | `IInv` and `DInv`, if `NoSelfSend` and `QuietTick` |
| `RoomForAll`, `DeliveredOnce` | `RouterProofs` | `Spec => [][KeepsLive]_vars`, `Spec => []DeliverOnce` | the same and `FromSends`, if also `MaxSends <= SeenSize` |
| `TypeCorrect`, `RepliesInStep` | `StackProofs` | `Spec => []...` of `TypeOK`, `InStep` | `StackType`, `Routed`, `Ordered` |
| `OwnAnswers` | `StackProofs` | `Spec => []AnswersOwn` | the same, if `FewRequests` |

They hold for any number of calls, threads, slots, nodes, blocks, frames,
messages and entries, any clock, pause and timeout, from the named assumptions of
the modules (sizes are positive, the sets of names are disjoint from `None`,
message numbers are not reused in `Reliability`) and, where the table says so,
from the premises given there.

*Transaction.* Neither `BufferLifetime` nor `RightAnswer` is inductive. When the
tick has freed a slot, two calls hold it, and either may overwrite its state; so
nothing can be said of who is WAITING. What does hold is ownership of the
*fields*: the semaphore in a slot was put there by a call that is still inside
`send_sync` and whose index, destination and number are those in the slot
(`SemaphoreOwner`), because every call clears the field on its way out, its own
or its successor's; and the callback in a slot is that of the last asynchronous call
that took it (`CallbackOwner`), because each taker overwrites it. With `Fresh` (a
call not begun has no answers) and `RightAnswer` this is `Ownership`, and
`IInv == TypeOK /\ Ownership` is inductive. The lemmas `OwnersKept` (a step without a
new owner), `OwnSlotStep` (a call's own slot) and `NewOwner` (a slot taken) carry
the cases; `AnswersKept`, `AnswersAtStart`, `AnswersAccepted` the history.

*Shutting down.* `Drained` says that after `shutdown` is set no call is in
`lower_send`, and that the slots deinit has passed are IDLE. Every step that takes
a slot needs `shutdown` unset. The premise `QuiescentDeinit` is needed because
`lower_send` runs outside the lock: a call that comes back from it sets the slot to
WAITING although deinit has been there.

*One calling thread.* `OneCaller` says that the synchronous calls share their thread
with every other call; the receiving thread, the tick, deinit and the network
still interleave with it freely. While such a call is inside `send_sync` no other
call is (`Alone`), so nobody takes its slot even after the tick has freed it, and
`OwnSlot` holds to the end of the call: the semaphore and the buffer in the slot are its
own, the semaphore exists until the call destroys it, the result is ROUTE_OK only
if the call has an answer. `SemaphoreAlive` speaks also of a call whose sending fails,
whose semaphore is destroyed while its slot is still SENDING: that deinit does not
meet such a slot is `Drained`, so `SemaphoreSafe` has the premise `QuiescentDeinit` too.
The premise `OneCaller` is as weak as the code allows: with two threads
`transaction_slot_theft` shows the violation (finding 1). An application that makes no
synchronous call satisfies it, however many threads it has.

*Reassembly.* `Conserved(slots, free)` is stated for any table and any free list,
so that an action that opens a slot, stores into it and releases it is three
applications of `ConservedOpen`, `ConservedStore` and `ConservedRelease`. `Inv` adds
the types of the slots, the free list and the clock; the contents of the blocks
and the receive thread play no part. `SlotsConsistent` is inductive together with
`Inv`, which provides that a block just taken is new to the slot, so that the count
stays the number of blocks held (`HeldStored`). `SlotAge` is not inductive, because
between the new time and the lock a slot may be older: `Young` allows for one
pause between two ticks there. It speaks of the time since the slot was opened
(`Since`), which is its signed 32-bit age as long as the timeout and one pause are at
most half of the clock (`Wide`, `AgeSince`); beyond that an old slot would count as
young. `MessagesWhole` adds (`Whole`) that a slot holds, at each place of its bitmap, the fragment
of that place of the one message with the slot's source and number, so that the
fragment that completes the count completes the message. That it is no longer than
`MaxPayload` is the check of the code: for a message in fragments the sum over the
blocks, for a single frame its length. The premise `Numbered` says
what the code relies on: while fragments of a message may arrive, no other message
of that source has its number, and they agree on their total.

*Callbacks.* `CInv` says that the callback of a call is in one hand at a time: in a
slot in use, with the receiving thread, in the batch of the tick, with deinit, or
spent; and that while `lower_send` runs the slot is the caller's own, so that a
callback taken back by a failed send was never handed out. Both premises are
needed. A synchronous request of another thread may free a slot that was taken
from it (finding 1), and a deinit during `lower_send` runs the callback of a
request whose sender may still report an error. That a synchronous call of the only
thread frees no slot but its own is `SInv` again (`SyncSlotKeeps`).

*Acknowledgements.* That a fragment is given up only after all its retries is not
inductive: the entry must count what was sent (`Counted`), one fragment must not
have two entries (`Unique`), a fragment must have no past before it is registered
and no entry after it was given up (`Ordered`). `Unique` holds because the loop of
`route_frag_send` comes to each fragment once (`Reached`) and a slot is free when it is
taken. `FailedNotResent` is an action property: `Withdrawn` says that the failed
fragment has no entry, whatever the tick and the acknowledgements did while the
call was in `lower_send`, because an entry is withdrawn by message and index, not by
its place; with `Unique` there is no second. `Network` says where every
acknowledgement under way comes from; `AckMeansReceived` follows from it since a
message is known by its peer and number (`NumberAssumption`).

*Pauses.* `Paced` says what the stored time to send again means: it is the
beginning of the pause plus its length (`Base`), modulo the clock. When that sum is
0 the entry counts as not armed and a later tick begins the pause of a first try,
so an entry may also hold a beginning that is later than that of its pause, by at
least one tick, which is why such a fragment is owed `AckTimeout + 1`. `DueLate` is the
arithmetic: an entry whose pause has not passed is not due, as long as the pause is
at most half the clock (`Paces`); for a uint32_t of milliseconds that is 24 days. With
pauses beyond it (four on a clock of five) TLC finds a fragment sent again too soon.

*Queue.* `Inv` adds who holds the lock (`Locked`), that `tail` is as many cells after
`head` as there are frames (`Indices`), that these cells hold the accepted frames
(`Contents`), and what each step inside a call has established (`Stages`), in
particular that the count loaded is still the count when it is stored, which is
what fails without the lock. `Cell(h, k)` is the cell k places after h, and `CellFacts`
the arithmetic of the ring, without a remainder. In the refinement a push takes
effect in `PushStore` (`PushStorePuts`), a pop in `PopAdvance` (`PopAdvanceTakes`), `Handle`
ends the handling, and all other steps stutter.

*Router.* `SeenUnique` is inductive together with the types. A broadcast is entered only
when no unexpired entry is for it, and by then the loop has dropped every expired
one, also that of the same broadcast (`PurgedFacts`); so wherever the new entry
goes, free place or index, it is the only one (`SeenKept`).

*Delivery.* `DeliverOnce` needs to know of every frame in flight what it is a copy of
(`Copies`), that a unicast message has one copy (`OneCopy`), and that, while a copy of a
broadcast is in flight, its sender and everyone who delivered it remember it
(`Remembered`); together with the property this is `DInv`. It is lost when a full table
writes over an entry that has not expired, which the code does on purpose; so
`OnceWithRoom` is proved of the behaviours in which no step does that
(`[][KeepsLive]_vars`). `RoomForAll` shows that they are all the behaviours when the
table has an entry for each message sent: every valid entry stands for a broadcast
that was sent (`FromSends`), no two for the same (`SeenUnique`), so a full table already
has the one looked at. `router_simulation` satisfies all three premises. `NoSelfSend`: a
node of the example has routes to itself, which is harmless as long as it does not
use them; a message it sends itself would come back from the neighbour and be
delivered to its sender. `QuietTick`: if frames may
be in flight longer than `seen_expire_ms`, the entry that should stop a copy expires first.

*Stack.* That two nodes keep their counters in step speaks of remainders, while the
reason is an order: the requests of a node are numbered by a function `num` that counts
them, and the messages on the link and in the slots carry those numbers modulo
`SeqMod` (`Numbers`, `Waiting`, `InOrder`). `num` is not part of the state, so `Ordered` says that
there is one. A message that was sent later has a greater number, also after the
counter has wrapped. `Ordered` speaks of links whose requests arrive in turn (`InTurn`):
a request behind a later one would be counted, and answered, as the later one. The
replies need no order, since each carries the number of its request; they may be
repeated or late. From this `InStep` follows without a premise. For `AnswersOwn` a late
reply must not be taken for that of a request a whole turn of the counter later:
hence `FewRequests`. The code has no guard against that, and 256 requests is where it
could happen.

Only model-checked: the liveness properties `AsyncAnswered`, `SlotReleased`, `GetsThrough`,
`ComesToRest` and `Drained`, since TLAPS does not reason about fairness. Every invariant
and every action property of the runs is proved, for the parameters that satisfy
the premises in the table; the runs of `DeliverOnce` and `AnswersOwn` stay
within them too.

## Not modelled

* The codec and the checksum: pure functions of bytes. A corrupted frame is one
  that does not arrive, which the models of the layers above allow.
* Statistics: counted, never read by the code. Printing and the OS stubs of the
  examples. The parameter checks of the `init` functions.
* Threads that send at the same node at the same time: they share
  `send_frame_buf` and the seen table without a lock, a data race in every build,
  after which nothing is defined. One thread sends at each node, as in the
  examples; the transaction layer and `route_frag_send` above it are modelled with
  several.
* What the transaction layer does after `deinit` has destroyed its mutex
  (`route_transaction.c:77`): a caller that was woken by deinit locks it again, or,
  once the pointer is NULL, does without. The model keeps every section one action
  to the end, as if the mutex lived until the callers have returned.
* Stacks without a fragment or a transaction layer: they leave out calls that the
  complete stack makes. Synchronous requests between whole stacks, which need a
  second thread: `Transaction` has them.
* The test programs: users of the library, read for what they expect of it.

## Plan

What is left, in the order of its importance:

1. What is left of a request that deinit cancels while it is sent: it becomes
   WAITING again afterwards and is never concluded. `BufferLifetime` and
   `RightAnswer` are checked and proved for that case; `CallbackOnce` and
   `DeinitDrains` do not hold in it.
2. Proofs: `AnswersOwn` for more requests than numbers, when no reply is late by a
   whole turn of the counter; the safety half of the liveness properties, such as
   that an entry of the pending table is due after a bounded number of ticks.
3. Timers across a full wrap of the clock while a node is idle: the signed age of
   an entry of the seen table.
4. The codec as a pair of inverse functions on headers.
