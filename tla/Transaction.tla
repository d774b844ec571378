---------------------------- MODULE Transaction ----------------------------
(***************************************************************************)
(* The request/response layer, sources/transaction/route_transaction.c.    *)
(*                                                                         *)
(* A call is one invocation of route_transaction_send_async or             *)
(* route_transaction_send_sync by an application thread; a thread runs one *)
(* call at a time.  Beside the callers run a receive thread                *)
(* (route_transaction_on_response), a tick thread (route_transaction_tick) *)
(* and possibly a thread in route_transaction_deinit.  What the code does  *)
(* between trans_lock and trans_unlock is one action; what it does outside *)
(* the lock (the shutdown checks, lower_send, sem_wait, the callbacks, the *)
(* sem_destroy of a failed send) is a step of its own.                     *)
(*                                                                         *)
(* Pointers are names: the callback and user_data of a call, its response  *)
(* buffer and the semaphore it creates are all the name of the call.       *)
(***************************************************************************)
EXTENDS Integers, FiniteSets

CONSTANTS
    AsyncCalls,         \* invocations of route_transaction_send_async
    SyncCalls,          \* invocations of route_transaction_send_sync
    SilentCalls,        \* the asynchronous calls whose cb argument is NULL
    Thread,             \* the application thread that makes each call
    Nodes,              \* the peers requests are addressed to
    None,               \* NULL
    MaxTrans,           \* cfg_max_concurrent_trans
    SeqMod,             \* values of the uint8_t seq_counter, 256 in the code
    TimeMod,            \* values of the uint32_t clock, 2^32 in the code
    DefaultTimeout,     \* cfg_default_timeout_ms
    SyncTimeouts,       \* timeout_ms arguments of send_sync
    MaxBatch,           \* TRANS_TICK_MAX_BATCH, 32 in the code
    MaxStep,            \* the longest time between two ticks
    CanDeinit,          \* whether route_transaction_deinit is ever called
    QuiescentDeinit     \* whether it waits until no call is being sent

Calls == AsyncCalls \cup SyncCalls
Slots == 0..(MaxTrans - 1)
Seqs  == 0..(SeqMod - 1)
Times == 0..(TimeMod - 1)

ASSUME CallsAssumption ==
    /\ AsyncCalls \cap SyncCalls = {}
    /\ SilentCalls \subseteq AsyncCalls
    /\ None \notin Calls
    /\ None \notin Nodes
ASSUME SizeAssumption ==
    /\ MaxTrans \in Nat \ {0}
    /\ SeqMod \in Nat \ {0}
    /\ TimeMod \in Nat \ {0, 1}
    /\ MaxBatch \in Nat
    /\ MaxStep \in Nat \ {0}
ASSUME TimeoutAssumption ==
    /\ DefaultTimeout \in Nat
    /\ SyncTimeouts \subseteq Nat
ASSUME SwitchAssumption ==
    /\ CanDeinit \in BOOLEAN
    /\ QuiescentDeinit \in BOOLEAN

VARIABLES
    trans_table,    \* the slots, an array of transaction_t
    seq_counter,
    shutdown,
    now,            \* the now_ms of the last tick
    pc,             \* where each call stands
    frame,          \* locals of each call: its slot, destination, sequence number
    waitOn,         \* the semaphore each synchronous call is blocked on
    outcome,        \* what each synchronous call returned
    live,           \* semaphores created and not destroyed
    rx,             \* the receive thread
    tick,           \* the tick thread
    deinit,         \* the thread in route_transaction_deinit
    fired,          \* history: how often the callback of each call has run
    answers         \* history: the responses accepted for each call

callVars   == <<pc, frame, waitOn, outcome>>
threadVars == <<rx, tick, deinit>>
history    == <<fired, answers>>
vars == <<trans_table, seq_counter, shutdown, now, live, callVars, threadVars,
          history>>

-----------------------------------------------------------------------------
(* The slot record.                                                        *)

Slot == [state            : {"IDLE", "SENDING", "WAITING"},
         dest_id          : Nodes \cup {None},
         expected_seq     : Seqs,
         timeout_ms       : Times,
         timeout_duration : Nat,
         callback         : AsyncCalls \cup {None},
         sync_sem         : SyncCalls \cup {None},
         result           : {"OK", "TIMEOUT"},
         resp_buf         : SyncCalls \cup {None}]

ZeroSlot == [state |-> "IDLE", dest_id |-> None, expected_seq |-> 0,
             timeout_ms |-> 0, timeout_duration |-> 0, callback |-> None,
             sync_sem |-> None, result |-> "OK", resp_buf |-> None]

Frame == [idx : Slots, dest : Nodes \cup {None}, seq : Seqs]

\* The program counters of the two kinds of call.
AsyncPcs == {"new", "sending", "accepted", "failed"}
SyncPcs  == {"new", "sending", "destroyed", "sent", "waiting", "woken", "done"}

\* A synchronous call in one of these is still inside route_transaction_send_sync:
\* its stack frame, and with it the caller's response buffer, is still there.
InSendSync == {"sending", "destroyed", "sent", "waiting", "woken"}

RxIdle == [pc |-> "idle", src |-> None, tid |-> 0, seq |-> 0, cb |-> None]

Init ==
    /\ trans_table = [i \in Slots |-> ZeroSlot]
    /\ seq_counter = 0
    /\ shutdown = FALSE
    /\ now = 0
    /\ pc = [c \in Calls |-> "new"]
    /\ frame = [c \in Calls |-> [idx |-> 0, dest |-> None, seq |-> 0]]
    /\ waitOn = [c \in SyncCalls |-> None]
    /\ outcome = [c \in SyncCalls |-> "none"]
    /\ live = {}
    /\ rx = RxIdle
    /\ tick = [pc |-> "idle", cbs |-> {}]
    /\ deinit = [pc |-> "off", i |-> 0, cb |-> None]
    /\ fired = [c \in AsyncCalls |-> 0]
    /\ answers = [c \in Calls |-> {}]

-----------------------------------------------------------------------------
(* Helpers.                                                                *)

\* What alloc_transaction returns: the lowest slot whose state is IDLE.
Allocates(i) ==
    /\ trans_table[i].state = "IDLE"
    /\ \A j \in Slots : j < i => trans_table[j].state # "IDLE"

TableFull == \A i \in Slots : trans_table[i].state # "IDLE"

\* Mutant: the counter does not wrap.
NextSeqUnwrapped == seq_counter + 1

\* seq_counter++ on a uint8_t.
NextSeq == IF seq_counter = SeqMod - 1 THEN 0 ELSE seq_counter + 1

\* A thread starts a call when it is in no other.  The application starts none
\* once it has called route_transaction_deinit.
CanStart(c) ==
    /\ pc[c] = "new"
    /\ ~shutdown
    /\ \A d \in Calls : Thread[d] = Thread[c]
                          => pc[d] \in {"new", "accepted", "failed", "done"}

\* The deadline the tick computes; 0 means "not armed" and is moved to 1.
Deadline(t, duration) ==
    IF (t + duration) % TimeMod = 0 THEN 1 ELSE (t + duration) % TimeMod

\* (int32_t)(t - deadline) >= 0
Elapsed(t, deadline) == (t - deadline) % TimeMod < TimeMod \div 2

SetSlot(i, slot) == trans_table' = [trans_table EXCEPT ![i] = slot]
Goto(c, label)   == pc' = [pc EXCEPT ![c] = label]

-----------------------------------------------------------------------------
(* route_transaction_send_async                                            *)

\* The slot an asynchronous call fills in; the fields of an earlier synchronous
\* use (result, resp_buf) stay as they are.
AsyncSlot(old, c, dest) ==
    [old EXCEPT !.state = "SENDING",
                !.dest_id = dest,
                !.callback = IF c \in SilentCalls THEN None ELSE c,
                !.timeout_ms = 0,
                !.timeout_duration = DefaultTimeout,
                !.sync_sem = None,
                !.expected_seq = seq_counter]

AsyncAlloc(c) ==
    /\ CanStart(c)
    /\ \E i \in Slots, dest \in Nodes :
          /\ Allocates(i)
          /\ SetSlot(i, AsyncSlot(trans_table[i], c, dest))
          /\ frame' = [frame EXCEPT ![c] =
                          [idx |-> i, dest |-> dest, seq |-> seq_counter]]
    /\ seq_counter' = NextSeq
    /\ Goto(c, "sending")
    /\ UNCHANGED <<shutdown, now, live, waitOn, outcome, threadVars, history>>

AsyncFull(c) ==
    /\ CanStart(c)
    /\ TableFull
    /\ Goto(c, "failed")
    /\ UNCHANGED <<trans_table, seq_counter, shutdown, now, live, frame, waitOn,
                   outcome, threadVars, history>>

\* lower_send returned ROUTE_OK.
AsyncSent(c) ==
    /\ pc[c] = "sending"
    /\ SetSlot(frame[c].idx, [trans_table[frame[c].idx] EXCEPT !.state = "WAITING"])
    /\ Goto(c, "accepted")
    /\ UNCHANGED <<seq_counter, shutdown, now, live, frame, waitOn, outcome,
                   threadVars, history>>

\* lower_send failed: the slot is given back and the error returned.
AsyncSendFail(c) ==
    /\ pc[c] = "sending"
    /\ SetSlot(frame[c].idx, [trans_table[frame[c].idx] EXCEPT !.state = "IDLE"])
    /\ Goto(c, "failed")
    /\ UNCHANGED <<seq_counter, shutdown, now, live, frame, waitOn, outcome,
                   threadVars, history>>

-----------------------------------------------------------------------------
(* route_transaction_send_sync                                             *)

\* Mutant: the result of the slot's last user is left in place.
SyncSlotStale(old, c, dest, timeout) ==
    [old EXCEPT !.state = "SENDING",
                !.dest_id = dest,
                !.callback = None,
                !.resp_buf = c,
                !.timeout_ms = 0,
                !.timeout_duration = timeout,
                !.sync_sem = c,
                !.expected_seq = seq_counter]

\* The slot a synchronous call fills in.
SyncSlot(old, c, dest, timeout) ==
    [old EXCEPT !.state = "SENDING",
                !.dest_id = dest,
                !.callback = None,
                !.resp_buf = c,
                !.result = "TIMEOUT",
                !.timeout_ms = 0,
                !.timeout_duration = timeout,
                !.sync_sem = c,
                !.expected_seq = seq_counter]

\* The slot when sem_create returned NULL: no sequence number was taken.
NoSemSlot(old, c, dest, timeout) ==
    [SyncSlot(old, c, dest, timeout) EXCEPT !.state = "IDLE",
                                            !.sync_sem = None,
                                            !.expected_seq = old.expected_seq]

SyncAlloc(c) ==
    /\ CanStart(c)
    /\ \E i \in Slots, dest \in Nodes, timeout \in SyncTimeouts :
          /\ Allocates(i)
          /\ SetSlot(i, SyncSlot(trans_table[i], c, dest, timeout))
          /\ frame' = [frame EXCEPT ![c] =
                          [idx |-> i, dest |-> dest, seq |-> seq_counter]]
    /\ live' = live \cup {c}
    /\ seq_counter' = NextSeq
    /\ Goto(c, "sending")
    /\ UNCHANGED <<shutdown, now, waitOn, outcome, threadVars, history>>

SyncNoSem(c) ==
    /\ CanStart(c)
    /\ \E i \in Slots, dest \in Nodes, timeout \in SyncTimeouts :
          /\ Allocates(i)
          /\ SetSlot(i, NoSemSlot(trans_table[i], c, dest, timeout))
    /\ Goto(c, "done")
    /\ outcome' = [outcome EXCEPT ![c] = "NO_MEM"]
    /\ UNCHANGED <<seq_counter, shutdown, now, live, frame, waitOn, threadVars,
                   history>>

SyncFull(c) ==
    /\ CanStart(c)
    /\ TableFull
    /\ Goto(c, "done")
    /\ outcome' = [outcome EXCEPT ![c] = "FULL"]
    /\ UNCHANGED <<trans_table, seq_counter, shutdown, now, live, frame, waitOn,
                   threadVars, history>>

\* lower_send failed: the semaphore is destroyed before the lock is taken ...
SyncSendFail(c) ==
    /\ pc[c] = "sending"
    /\ live' = live \ {trans_table[frame[c].idx].sync_sem}
    /\ Goto(c, "destroyed")
    /\ UNCHANGED <<trans_table, seq_counter, shutdown, now, frame, waitOn, outcome,
                   threadVars, history>>

\* Mutant: the semaphore is destroyed but stays in the slot.
ReapedKeepsSem(old) == [old EXCEPT !.state = "IDLE"]

\* The slot a synchronous call leaves behind.
Reaped(old) == [old EXCEPT !.sync_sem = None, !.state = "IDLE"]

\* ... and the slot released under it.
SyncFailFree(c) ==
    /\ pc[c] = "destroyed"
    /\ SetSlot(frame[c].idx, Reaped(trans_table[frame[c].idx]))
    /\ Goto(c, "done")
    /\ outcome' = [outcome EXCEPT ![c] = "SEND_FAILED"]
    /\ UNCHANGED <<seq_counter, shutdown, now, live, frame, waitOn, threadVars,
                   history>>

SyncSent(c) ==
    /\ pc[c] = "sending"
    /\ SetSlot(frame[c].idx, [trans_table[frame[c].idx] EXCEPT !.state = "WAITING"])
    /\ Goto(c, "sent")
    /\ UNCHANGED <<seq_counter, shutdown, now, live, frame, waitOn, outcome,
                   threadVars, history>>

\* t->sync_sem is read for sem_wait without the lock.
SyncWait(c) ==
    /\ pc[c] = "sent"
    /\ waitOn' = [waitOn EXCEPT ![c] = trans_table[frame[c].idx].sync_sem]
    /\ Goto(c, "waiting")
    /\ UNCHANGED <<trans_table, seq_counter, shutdown, now, live, frame, outcome,
                   threadVars, history>>

\* sem_wait returns: somebody posted, or the operating system's own timeout,
\* which runs on a clock of its own, ended the wait.
SyncWake(c) ==
    /\ pc[c] = "waiting"
    /\ waitOn' = [waitOn EXCEPT ![c] = None]
    /\ Goto(c, "woken")
    /\ UNCHANGED <<trans_table, seq_counter, shutdown, now, live, frame, outcome,
                   threadVars, history>>

SyncReap(c) ==
    /\ pc[c] = "woken"
    /\ LET t == trans_table[frame[c].idx] IN
          /\ outcome' = [outcome EXCEPT ![c] = t.result]
          /\ live' = live \ {t.sync_sem}
          /\ SetSlot(frame[c].idx, Reaped(t))
    /\ Goto(c, "done")
    /\ UNCHANGED <<seq_counter, shutdown, now, frame, waitOn, threadVars, history>>

-----------------------------------------------------------------------------
(* route_transaction_reply: all it does to the layer's state is to take a  *)
(* sequence number of the replier's own.                                   *)

Reply ==
    /\ seq_counter' = NextSeq
    /\ UNCHANGED <<trans_table, shutdown, now, live, callVars, threadVars, history>>

-----------------------------------------------------------------------------
(* route_transaction_on_response, run by the receive thread.  A response   *)
(* may carry any source, transaction and sequence number: the peer numbers *)
(* its replies itself, and the network may delay or repeat them.           *)

\* The checks made before the lock is taken.
RxArrive ==
    /\ rx.pc = "idle"
    /\ ~shutdown
    /\ \E src \in Nodes, tid \in Slots, seq \in Seqs :
          rx' = [pc |-> "arrived", src |-> src, tid |-> tid, seq |-> seq, cb |-> None]
    /\ UNCHANGED <<trans_table, seq_counter, shutdown, now, live, callVars, tick,
                   deinit, history>>

\* Mutants: the state, or the sequence number, is not compared.
MatchesAnyState(t, src, seq) == t.dest_id = src /\ t.expected_seq = seq
MatchesAnySeq(t, src, seq) == t.state = "WAITING" /\ t.dest_id = src

\* The condition under which a response is taken for an answer.
Matches(t, src, seq) ==
    /\ t.state = "WAITING"
    /\ t.dest_id = src
    /\ t.expected_seq = seq

Accept(c) == answers' = [answers EXCEPT ![c] = @ \cup {<<rx.src, rx.tid, rx.seq>>}]

RxDrop ==
    /\ rx.pc = "arrived"
    /\ ~Matches(trans_table[rx.tid], rx.src, rx.seq)
    /\ rx' = RxIdle
    /\ UNCHANGED <<trans_table, seq_counter, shutdown, now, live, callVars, tick,
                   deinit, history>>

\* An asynchronous request: the slot is released, the callback runs unlocked.
RxAsync ==
    LET t == trans_table[rx.tid] IN
    /\ rx.pc = "arrived"
    /\ Matches(t, rx.src, rx.seq)
    /\ t.callback # None
    /\ SetSlot(rx.tid, [t EXCEPT !.state = "IDLE"])
    /\ rx' = [RxIdle EXCEPT !.pc = "call", !.cb = t.callback]
    /\ Accept(t.callback)
    /\ UNCHANGED <<seq_counter, shutdown, now, live, callVars, tick, deinit, fired>>

\* A synchronous request: the data goes to the caller's buffer, the caller is
\* woken and releases the slot itself.
RxSync ==
    LET t == trans_table[rx.tid] IN
    /\ rx.pc = "arrived"
    /\ Matches(t, rx.src, rx.seq)
    /\ t.callback = None
    /\ t.sync_sem # None
    /\ SetSlot(rx.tid, [t EXCEPT !.result = "OK"])
    /\ Accept(t.resp_buf)
    /\ rx' = RxIdle
    /\ UNCHANGED <<seq_counter, shutdown, now, live, callVars, tick, deinit, fired>>

\* Nobody to tell.
RxSilent ==
    LET t == trans_table[rx.tid] IN
    /\ rx.pc = "arrived"
    /\ Matches(t, rx.src, rx.seq)
    /\ t.callback = None
    /\ t.sync_sem = None
    /\ SetSlot(rx.tid, [t EXCEPT !.state = "IDLE"])
    /\ rx' = RxIdle
    /\ UNCHANGED <<seq_counter, shutdown, now, live, callVars, tick, deinit, history>>

RxCall ==
    /\ rx.pc = "call"
    /\ fired' = [fired EXCEPT ![rx.cb] = @ + 1]
    /\ rx' = RxIdle
    /\ UNCHANGED <<trans_table, seq_counter, shutdown, now, live, callVars, tick,
                   deinit, answers>>

-----------------------------------------------------------------------------
(* route_transaction_tick                                                  *)

\* The shutdown check, made before the lock is taken, at a later time than the
\* last tick.
TickStart ==
    /\ tick.pc = "idle"
    /\ tick.cbs = {}
    /\ ~shutdown
    /\ \E d \in 1..MaxStep : now' = (now + d) % TimeMod
    /\ tick' = [tick EXCEPT !.pc = "scan"]
    /\ UNCHANGED <<trans_table, seq_counter, shutdown, live, callVars, rx, deinit,
                   history>>

\* Mutant: only requests with a callback are armed.
ArmingCallback(t) ==
    t.state = "WAITING" /\ t.timeout_ms = 0 /\ t.timeout_duration > 0 /\ t.callback # None

\* A request that waits is armed by the first tick that sees it.
Arming(t) == t.state = "WAITING" /\ t.timeout_ms = 0 /\ t.timeout_duration > 0

Due(t) == t.state = "WAITING" /\ t.timeout_ms # 0 /\ Elapsed(now, t.timeout_ms)

DueCallbacks == {i \in Slots : Due(trans_table[i]) /\ trans_table[i].callback # None}

\* Mutant: the last place of timeout_cbs is not used.
BatchShort == {i \in DueCallbacks : Cardinality({j \in DueCallbacks : j < i}) < MaxBatch - 1}

\* The slots whose callback still finds room in timeout_cbs.
Batch == {i \in DueCallbacks : Cardinality({j \in DueCallbacks : j < i}) < MaxBatch}

\* Mutant: the semaphore is dropped from the slot as it is posted.
TimedOutDropsSem(t) ==
    [t EXCEPT !.result = "TIMEOUT", !.state = "IDLE", !.sync_sem = None]

\* A synchronous request whose time is over: its caller is woken.
TimedOut(t) == [t EXCEPT !.result = "TIMEOUT", !.state = "IDLE"]

\* What one pass of the loop makes of slot i.
Scanned(i) ==
    LET t == trans_table[i] IN
    CASE Arming(t) -> [t EXCEPT !.timeout_ms = Deadline(now, t.timeout_duration)]
      [] Due(t) /\ t.callback # None ->
            IF i \in Batch THEN [t EXCEPT !.state = "IDLE"] ELSE t
      [] Due(t) /\ t.callback = None /\ t.sync_sem # None -> TimedOut(t)
      [] Due(t) /\ t.callback = None /\ t.sync_sem = None ->
            [t EXCEPT !.state = "IDLE"]
      [] OTHER -> t

TickScan ==
    /\ tick.pc = "scan"
    /\ trans_table' = [i \in Slots |-> Scanned(i)]
    /\ tick' = [pc |-> "idle", cbs |-> {trans_table[i].callback : i \in Batch}]
    /\ UNCHANGED <<seq_counter, shutdown, now, live, callVars, rx, deinit, history>>

\* The captured callbacks run after the unlock.
TickCall ==
    \E c \in tick.cbs :
        /\ fired' = [fired EXCEPT ![c] = @ + 1]
        /\ tick' = [tick EXCEPT !.cbs = @ \ {c}]
        /\ UNCHANGED <<trans_table, seq_counter, shutdown, now, live, callVars, rx,
                       deinit, answers>>

-----------------------------------------------------------------------------
(* route_transaction_deinit                                                *)

DeinitStart ==
    /\ CanDeinit
    /\ deinit.pc = "off"
    /\ QuiescentDeinit => \A c \in Calls : pc[c] \notin {"sending", "destroyed"}
    /\ shutdown' = TRUE
    /\ deinit' = [deinit EXCEPT !.pc = "scan"]
    /\ UNCHANGED <<trans_table, seq_counter, now, live, callVars, rx, tick, history>>

\* Mutants: only requests the tick has armed are cancelled; the semaphore is
\* dropped from the slot.
CancelledArmed(t) == IF t.timeout_ms = 0 THEN t ELSE [t EXCEPT !.state = "IDLE"]
CancelledDropsSem(t) ==
    IF t.state = "IDLE" THEN t
    ELSE [t EXCEPT !.state = "IDLE", !.result = "TIMEOUT", !.sync_sem = None]

\* What deinit makes of a slot.
Cancelled(t) ==
    IF t.state = "IDLE" THEN t
    ELSE [t EXCEPT !.state = "IDLE",
                   !.result = IF t.callback = None /\ t.sync_sem # None
                                 THEN "TIMEOUT" ELSE @]

\* One turn of the loop, up to the unlock.
DeinitSlot ==
    LET t == trans_table[deinit.i] IN
    /\ deinit.pc = "scan"
    /\ deinit.cb = None
    /\ deinit.i \in Slots
    /\ SetSlot(deinit.i, Cancelled(t))
    /\ deinit' = [deinit EXCEPT !.i = @ + 1,
                                !.cb = IF t.state = "IDLE" THEN None ELSE t.callback]
    /\ UNCHANGED <<seq_counter, shutdown, now, live, callVars, rx, tick, history>>

DeinitCall ==
    /\ deinit.cb # None
    /\ fired' = [fired EXCEPT ![deinit.cb] = @ + 1]
    /\ deinit' = [deinit EXCEPT !.cb = None]
    /\ UNCHANGED <<trans_table, seq_counter, shutdown, now, live, callVars, rx, tick,
                   answers>>

DeinitDone ==
    /\ deinit.pc = "scan"
    /\ deinit.cb = None
    /\ deinit.i = MaxTrans
    /\ deinit' = [deinit EXCEPT !.pc = "done"]
    /\ UNCHANGED <<trans_table, seq_counter, shutdown, now, live, callVars, rx, tick,
                   history>>

-----------------------------------------------------------------------------
(* The specification.                                                      *)

AsyncStep(c) == AsyncAlloc(c) \/ AsyncFull(c) \/ AsyncSent(c) \/ AsyncSendFail(c)

SyncStep(c) ==
    \/ SyncAlloc(c) \/ SyncNoSem(c) \/ SyncFull(c)
    \/ SyncSendFail(c) \/ SyncFailFree(c)
    \/ SyncSent(c) \/ SyncWait(c) \/ SyncWake(c) \/ SyncReap(c)

RxStep == RxArrive \/ RxDrop \/ RxAsync \/ RxSync \/ RxSilent \/ RxCall

TickStep == TickStart \/ TickScan \/ TickCall

DeinitStep == DeinitStart \/ DeinitSlot \/ DeinitCall \/ DeinitDone

Next ==
    \/ \E c \in AsyncCalls : AsyncStep(c)
    \/ \E c \in SyncCalls : SyncStep(c)
    \/ Reply
    \/ RxStep
    \/ TickStep
    \/ DeinitStep

Spec == Init /\ [][Next]_vars

\* The tick is called periodically; a thread inside the layer gets to run
\* (lower_send returns, sem_wait is bounded by its timeout).  Nobody is obliged
\* to start a call, to send a response or to shut the layer down.
Fairness ==
    /\ WF_vars(TickStart)
    /\ WF_vars(TickScan)
    /\ WF_vars(TickCall)
    /\ WF_vars(RxDrop \/ RxAsync \/ RxSync \/ RxSilent \/ RxCall)
    /\ WF_vars(DeinitSlot \/ DeinitCall \/ DeinitDone)
    /\ \A c \in AsyncCalls : WF_vars(AsyncSent(c) \/ AsyncSendFail(c))
    /\ \A c \in SyncCalls : WF_vars(\/ SyncSendFail(c) \/ SyncFailFree(c)
                                    \/ SyncSent(c) \/ SyncWait(c)
                                    \/ SyncWake(c) \/ SyncReap(c))

FairSpec == Spec /\ Fairness

-----------------------------------------------------------------------------
(* Properties.                                                             *)

\* Every variable holds a value the C type allows.
TypeOK ==
    /\ trans_table \in [Slots -> Slot]
    /\ seq_counter \in Seqs
    /\ shutdown \in BOOLEAN
    /\ now \in Times
    /\ pc \in [Calls -> AsyncPcs \cup SyncPcs]
    /\ frame \in [Calls -> Frame]
    /\ waitOn \in [SyncCalls -> SyncCalls \cup {None}]
    /\ outcome \in [SyncCalls -> {"none", "OK", "TIMEOUT", "FULL", "NO_MEM",
                                  "SEND_FAILED"}]
    /\ live \subseteq SyncCalls
    /\ rx \in [pc : {"idle", "arrived", "call"}, src : Nodes \cup {None},
               tid : Slots, seq : Seqs, cb : AsyncCalls \cup {None}]
    /\ tick \in [pc : {"idle", "scan"}, cbs : SUBSET AsyncCalls]
    /\ deinit \in [pc : {"off", "scan", "done"}, i : 0..MaxTrans,
                   cb : AsyncCalls \cup {None}]
    /\ fired \in [AsyncCalls -> Nat]
    /\ answers \in [Calls -> SUBSET ((Nodes \cup {None}) \X Slots \X Seqs)]

\* on_response writes through resp_buf only into the frame of a caller that is
\* still inside send_sync: whatever slot it finds waiting with a semaphore, the
\* buffer it would write belongs to a call that has not returned, even when the
\* slot has been released by the tick or by deinit and taken by another call.
BufferLifetime ==
    \A i \in Slots :
        LET t == trans_table[i] IN
        t.state = "WAITING" /\ t.callback = None /\ t.sync_sem # None
            => t.resp_buf \in SyncCalls /\ pc[t.resp_buf] \in InSendSync

\* A response is given only to the call it names: it comes from the node the
\* call addressed, for the slot and with the sequence number of that call,
\* whatever became of the slot in between.
RightAnswer ==
    \A c \in Calls : \A a \in answers[c] :
        a = <<frame[c].dest, frame[c].idx, frame[c].seq>>

\* Why the two hold.  The semaphore in a slot was created by a call that is still
\* inside send_sync and holds this slot; the other fields are that call's.  The
\* callback in a slot is that of the last asynchronous call that took the slot.
\* A call that has not begun has no answer yet.
SemaphoreOwner ==
    \A i \in Slots :
        LET t == trans_table[i] IN
        t.sync_sem # None =>
            /\ pc[t.sync_sem] \in InSendSync
            /\ t.resp_buf = t.sync_sem
            /\ frame[t.sync_sem] = [idx |-> i, dest |-> t.dest_id, seq |-> t.expected_seq]

CallbackOwner ==
    \A i \in Slots :
        LET t == trans_table[i] IN
        t.callback # None =>
            /\ pc[t.callback] # "new"
            /\ frame[t.callback] = [idx |-> i, dest |-> t.dest_id, seq |-> t.expected_seq]

Fresh == \A c \in Calls : pc[c] = "new" => answers[c] = {}

Ownership == SemaphoreOwner /\ CallbackOwner /\ Fresh /\ RightAnswer

\* The callback of an asynchronous request runs at most once, and not at all
\* when send_async reported an error: the response, the timeout and the
\* shutdown, which race for it, hand it out only once.
CallbackOnce ==
    \A c \in AsyncCalls :
        /\ fired[c] <= 1
        /\ pc[c] \in {"new", "failed"} => fired[c] = 0

\* A request that send_async accepted is always concluded by a callback: by the
\* response, by the timeout (also of the requests that found no room in the
\* tick's batch), or by deinit.
AsyncAnswered ==
    \A c \in AsyncCalls \ SilentCalls : pc[c] = "accepted" ~> fired[c] = 1

\* No slot is lost: a slot in use is released again.
SlotReleased ==
    \A i \in Slots : trans_table[i].state # "IDLE" ~> trans_table[i].state = "IDLE"

\* A synchronous call that reports ROUTE_OK has its response in its buffer.
SyncOkMeansAnswered ==
    \A c \in SyncCalls : pc[c] = "done" /\ outcome[c] = "OK" => answers[c] # {}

\* Nobody posts to, waits on or destroys a semaphore that is already destroyed: a
\* response and the tick post to that of a slot that waits, a running deinit also to
\* that of a slot whose request is still being sent, and send_sync destroys or waits
\* on that of its slot, also when lower_send has failed.  Stated for QuiescentDeinit:
\* a deinit between the sem_destroy of a failed send and the lock that follows it
\* posts to the destroyed semaphore.
SemaphoreAlive ==
    /\ \A i \in Slots :
          LET t == trans_table[i] IN
          (/\ t.state = "WAITING" \/ (t.state = "SENDING" /\ deinit.pc = "scan")
           /\ t.callback = None /\ t.sync_sem # None)
             => t.sync_sem \in live
    /\ \A c \in SyncCalls : pc[c] = "waiting" => waitOn[c] \in live
    /\ \A c \in SyncCalls :
          pc[c] \in {"sending", "sent", "woken"} => trans_table[frame[c].idx].sync_sem \in live

\* Every semaphore is destroyed by the time its call has returned.
NoSemaphoreLeak == \A c \in live : pc[c] \in InSendSync

\* When deinit returns no slot is in use: every request has been concluded.
DeinitDrains ==
    deinit.pc = "done" => \A i \in Slots : trans_table[i].state = "IDLE"
=============================================================================
