-------------------------- MODULE CallbackProofs ---------------------------
(***************************************************************************)
(* The callback of an asynchronous request runs at most once, in an        *)
(* application that calls route_transaction_deinit when no request is      *)
(* being sent and in which synchronous calls, if there are any, share      *)
(* their thread with all others: for any number of requests and slots, any *)
(* batch and any clock, and without synchronous calls any number of        *)
(* threads.                                                                *)
(***************************************************************************)
EXTENDS TransactionProofs

-----------------------------------------------------------------------------
(* The invariant: a callback is in one hand at a time.                     *)

\* A slot in use holds the callback of c.
Holds(c) == \E i \in Slots : trans_table[i].state # "IDLE" /\ trans_table[i].callback = c

\* A thread has taken the callback of c from its slot and has yet to run it.
Captured(c) == rx.cb = c \/ c \in tick.cbs \/ deinit.cb = c

Untouched(c) == fired[c] = 0 /\ ~Captured(c)

\* While lower_send runs, the slot is the caller's own.
SendingOwns ==
    \A c \in AsyncCalls : pc[c] = "sending" =>
        /\ ~shutdown
        /\ trans_table[frame[c].idx].state = "SENDING"
        /\ \A d \in AsyncCalls : pc[d] = "sending" /\ frame[d].idx = frame[c].idx => d = c

\* A callback not yet handed over, still in a slot or taken back has not been touched.
Unspent ==
    \A c \in AsyncCalls :
        /\ pc[c] \in {"new", "sending", "failed"} \/ Holds(c) => Untouched(c)
        /\ Holds(c) => pc[c] # "failed"

\* A callback that was taken from its slot was taken by one thread, and did not run.
CapturedOnce ==
    \A c \in AsyncCalls :
        /\ fired[c] <= 1
        /\ Captured(c) => fired[c] = 0
        /\ rx.cb = c => c \notin tick.cbs /\ deinit.cb # c
        /\ c \in tick.cbs => deinit.cb # c

\* The batch is empty when the tick scans; deinit runs after shutdown is set.
Threads ==
    /\ tick.pc = "scan" => tick.cbs = {}
    /\ deinit.pc = "off" <=> ~shutdown

CInv == SendingOwns /\ Unspent /\ CapturedOnce /\ Threads

-----------------------------------------------------------------------------
(* Facts.                                                                  *)

\* The callback in a slot is that of the call that took it last: no other slot has
\* it, and if the slot waits, send_async has accepted the call.
LEMMA CallbackOfSlot ==
    ASSUME IInv, CInv, NEW i \in Slots, trans_table[i].callback # None
    PROVE  LET c == trans_table[i].callback IN
           /\ c \in AsyncCalls /\ frame[c].idx = i /\ pc[c] # "new"
           /\ \A j \in Slots : trans_table[j].callback = c => j = i
           /\ trans_table[i].state # "IDLE" => Untouched(c) /\ pc[c] # "failed"
           /\ trans_table[i].state = "WAITING" => pc[c] # "sending"
           /\ shutdown => pc[c] # "sending"
  <1> DEFINE c == trans_table[i].callback
  <1>1. c \in AsyncCalls
    BY DEF IInv, TypeOK, Slot
  <1>a. ASSUME NEW j \in Slots, trans_table[j].callback = c
        PROVE  frame[c].idx = j /\ pc[c] # "new"
    <2>1. /\ pc[c] # "new"
          /\ frame[c] = [idx |-> j, dest |-> trans_table[j].dest_id,
                         seq |-> trans_table[j].expected_seq]
      BY <1>a DEF IInv, Ownership, CallbackOwner
    <2> HIDE DEF c
    <2>2. frame[c].idx = j
      BY <2>1
    <2>3. QED
      BY <2>1, <2>2
  <1>2. frame[c].idx = i /\ pc[c] # "new"
    BY <1>a
  <1>3. \A j \in Slots : trans_table[j].callback = c => j = i
    BY <1>a, <1>2
  <1>4. trans_table[i].state # "IDLE" => Untouched(c) /\ pc[c] # "failed"
    BY <1>1 DEF CInv, Unspent, Holds
  <1>5. /\ trans_table[i].state = "WAITING" => pc[c] # "sending"
        /\ shutdown => pc[c] # "sending"
    BY <1>1, <1>2 DEF CInv, SendingOwns
  <1>6. QED
    BY <1>1, <1>2, <1>3, <1>4, <1>5

\* A captured callback has not run, and its slot is released.
LEMMA CallbackCaptured ==
    ASSUME CInv, NEW c \in AsyncCalls, Captured(c)
    PROVE  fired[c] = 0 /\ pc[c] \notin {"new", "sending", "failed"} /\ ~Holds(c)
  BY DEF CInv, CapturedOnce, Unspent, Untouched

\* Nothing is in anybody's hands at the start.
LEMMA InitCallbacks == Init => CInv
  BY CallsAssumption DEF Init, CInv, SendingOwns, Unspent, CapturedOnce, Threads, Untouched,
     Captured, Holds, ZeroSlot, RxIdle, Calls

\* A step that takes no callback and starts no call, and leaves the slots of those
\* who are sending alone.
LEMMA NothingTaken ==
    ASSUME IInv, CInv, UNCHANGED <<fired, frame, shutdown, pc>>,
           \A i \in Slots : /\ trans_table'[i].callback = trans_table[i].callback
                            /\ trans_table[i].state \in {"IDLE", "SENDING"}
                                  => trans_table'[i].state = trans_table[i].state,
           \A c \in AsyncCalls : /\ rx'.cb = c => rx.cb = c
                                 /\ c \in tick'.cbs => c \in tick.cbs
                                 /\ deinit'.cb = c => deinit.cb = c,
           Threads'
    PROVE  CInv'
  <1>1. \A c \in AsyncCalls : (Captured(c)' => Captured(c)) /\ (Holds(c)' => Holds(c))
    BY DEF Captured, Holds
  <1>2. SendingOwns'
    <2>1. \A c \in AsyncCalls : frame[c].idx \in Slots
      BY OwnSlotType DEF IInv, Calls
    <2>2. QED
      BY <2>1 DEF CInv, SendingOwns
  <1>3. Unspent' /\ CapturedOnce'
    BY <1>1 DEF CInv, Unspent, CapturedOnce, Untouched
  <1>4. QED
    BY <1>2, <1>3 DEF CInv

-----------------------------------------------------------------------------
(* The steps.                                                              *)

\* A request takes a slot.
LEMMA AllocKeeps ==
    ASSUME IInv, CInv, NEW c \in AsyncCalls, AsyncAlloc(c)
    PROVE  CInv'
  <1>1. PICK i \in Slots, dest \in Nodes :
           /\ Allocates(i)
           /\ trans_table' = [trans_table EXCEPT ![i] = AsyncSlot(trans_table[i], c, dest)]
           /\ frame' = [frame EXCEPT ![c] = [idx |-> i, dest |-> dest, seq |-> seq_counter]]
    BY DEF AsyncAlloc, SetSlot
  <1>2. /\ c \in Calls /\ pc[c] = "new" /\ ~shutdown /\ pc' = [pc EXCEPT ![c] = "sending"]
        /\ UNCHANGED <<shutdown, rx, tick, deinit, fired>>
    BY DEF AsyncAlloc, CanStart, Goto, threadVars, history, Calls
  <1>3. trans_table[i].state = "IDLE" /\ trans_table[i] \in Slot
    BY <1>1 DEF Allocates, IInv, TypeOK
  <1>4. /\ trans_table'[i].state = "SENDING" /\ trans_table'[i].callback \in {None, c}
        /\ \A j \in Slots : j # i => trans_table'[j] = trans_table[j]
    BY <1>1, <1>3 DEF IInv, TypeOK, AsyncSlot, Slot
  <1>5. /\ pc'[c] = "sending" /\ frame'[c].idx = i
        /\ \A d \in AsyncCalls : d # c => pc'[d] = pc[d] /\ frame'[d] = frame[d]
        /\ \A d \in AsyncCalls : frame[d].idx \in Slots
    BY <1>1, <1>2, OwnSlotType DEF IInv, TypeOK, Calls
  <1>6. SendingOwns'
    BY <1>2, <1>3, <1>4, <1>5 DEF CInv, SendingOwns
  <1>7. \A d \in AsyncCalls : /\ Captured(d)' <=> Captured(d)
                              /\ Untouched(d)' <=> Untouched(d)
                              /\ d # c /\ Holds(d)' => Holds(d)
    <2> TAKE d \in AsyncCalls
    <2>1. (Captured(d)' <=> Captured(d)) /\ (Untouched(d)' <=> Untouched(d))
      BY <1>2 DEF Captured, Untouched
    <2>2. d # None
      BY CallsAssumption DEF Calls
    <2>3. d # c /\ Holds(d)' => Holds(d)
      BY <1>4, <2>2 DEF Holds
    <2>4. QED
      BY <2>1, <2>3
  <1>8. Unspent'
    BY <1>2, <1>5, <1>7 DEF CInv, Unspent
  <1>9. CapturedOnce' /\ Threads'
    BY <1>2, <1>7 DEF CInv, CapturedOnce, Threads
  <1>10. QED
    BY <1>6, <1>8, <1>9 DEF CInv

\* A request finds no slot.
LEMMA FullKeeps ==
    ASSUME IInv, CInv, NEW c \in AsyncCalls, AsyncFull(c)
    PROVE  CInv'
  <1>1. /\ c \in Calls /\ pc[c] = "new" /\ pc' = [pc EXCEPT ![c] = "failed"]
        /\ UNCHANGED <<trans_table, frame, shutdown, rx, tick, deinit, fired>>
    BY DEF AsyncFull, CanStart, Goto, threadVars, history, Calls
  <1>2. pc'[c] = "failed" /\ \A d \in AsyncCalls : d # c => pc'[d] = pc[d]
    BY <1>1 DEF IInv, TypeOK, Calls
  <1>3. ~Holds(c)
    BY <1>1, CallbackOfSlot, CallsAssumption DEF Holds, Calls
  <1>4. \A d \in AsyncCalls : /\ Captured(d)' <=> Captured(d)
                              /\ Untouched(d)' <=> Untouched(d)
                              /\ Holds(d)' <=> Holds(d)
    BY <1>1 DEF Captured, Untouched, Holds
  <1>5. SendingOwns'
    BY <1>1, <1>2 DEF CInv, SendingOwns
  <1>6. Unspent'
    BY <1>1, <1>2, <1>3, <1>4 DEF CInv, Unspent
  <1>7. CapturedOnce' /\ Threads'
    BY <1>1, <1>4 DEF CInv, CapturedOnce, Threads
  <1>8. QED
    BY <1>5, <1>6, <1>7 DEF CInv

\* lower_send has returned: the slot waits or is given back.
LEMMA SentKeeps ==
    ASSUME IInv, CInv, NEW c \in AsyncCalls, AsyncSent(c) \/ AsyncSendFail(c)
    PROVE  CInv'
  <1> DEFINE i == frame[c].idx
  <1>1. PICK s \in {"IDLE", "WAITING"}, label \in {"failed", "accepted"} :
           /\ trans_table' = [trans_table EXCEPT ![i] = [trans_table[i] EXCEPT !.state = s]]
           /\ pc' = [pc EXCEPT ![c] = label] /\ (label = "failed" => s = "IDLE")
    BY DEF AsyncSent, AsyncSendFail, SetSlot, Goto
  <1>2. c \in Calls /\ pc[c] = "sending" /\ UNCHANGED <<frame, shutdown, rx, tick, deinit, fired>>
    BY DEF AsyncSent, AsyncSendFail, threadVars, history, Calls
  <1>3. /\ i \in Slots /\ trans_table[i] \in Slot /\ trans_table[i].state = "SENDING"
        /\ \A d \in AsyncCalls : frame[d].idx \in Slots
    BY <1>2, OwnSlotType DEF IInv, CInv, SendingOwns, Calls
  <1> HIDE DEF i
  <1>4. /\ trans_table'[i].state = s /\ trans_table'[i].callback = trans_table[i].callback
        /\ \A j \in Slots : j # i => trans_table'[j] = trans_table[j]
    BY <1>1, <1>3 DEF IInv, TypeOK, Slot
  <1>5. pc'[c] = label /\ \A d \in AsyncCalls : d # c => pc'[d] = pc[d]
    BY <1>1, <1>2 DEF IInv, TypeOK, Calls
  <1>6. SendingOwns'
    <2> SUFFICES ASSUME NEW d \in AsyncCalls, pc'[d] = "sending"
                 PROVE  /\ ~shutdown' /\ trans_table'[frame'[d].idx].state = "SENDING"
                        /\ \A e \in AsyncCalls :
                              pc'[e] = "sending" /\ frame'[e].idx = frame'[d].idx => e = d
      BY DEF SendingOwns
    <2>1. d # c /\ pc[d] = "sending"
      BY <1>5
    <2>2. frame[d].idx # i
      BY <1>2, <2>1 DEF CInv, SendingOwns, i
    <2>3. QED
      BY <1>2, <1>3, <1>4, <1>5, <2>1, <2>2 DEF CInv, SendingOwns
  <1>7. \A d \in AsyncCalls : /\ Captured(d)' <=> Captured(d)
                              /\ Untouched(d)' <=> Untouched(d)
                              /\ Holds(d)' => Holds(d)
    BY <1>2, <1>3, <1>4 DEF Captured, Untouched, Holds
  <1>8. Untouched(c)
    BY <1>2 DEF CInv, Unspent
  <1>9. label = "failed" => ~Holds(c)'
    <2> SUFFICES ASSUME label = "failed", NEW j \in Slots, trans_table'[j].state # "IDLE",
                        trans_table'[j].callback = c
                 PROVE  FALSE
      BY DEF Holds
    <2>1. j # i /\ trans_table[j].callback = c
      BY <1>1, <1>4
    <2>2. frame[c].idx = j
      BY <1>2, <2>1, CallbackOfSlot, CallsAssumption
    <2>3. QED
      BY <2>1, <2>2 DEF i
  <1>10. Unspent'
    BY <1>5, <1>7, <1>8, <1>9 DEF CInv, Unspent
  <1>11. CapturedOnce' /\ Threads'
    BY <1>2, <1>7 DEF CInv, CapturedOnce, Threads
  <1>12. QED
    BY <1>6, <1>10, <1>11 DEF CInv

\* The callbacks of some slots that wait, or after shutdown of any, are taken by a
\* thread as the slots are released.
LEMMA TakenKeeps ==
    ASSUME IInv, CInv, UNCHANGED <<fired, frame, shutdown, pc>>, Threads',
           NEW S \in SUBSET Slots,
           \A i \in S : trans_table[i].state # "IDLE" /\ trans_table[i].callback # None,
           \A i \in S : trans_table[i].state = "WAITING" \/ shutdown,
           \A i \in Slots : /\ trans_table'[i].callback = trans_table[i].callback
                            /\ trans_table[i].state = "IDLE" => trans_table'[i].state = "IDLE"
                            /\ i \in S => trans_table'[i].state = "IDLE",
           \A i \in Slots : trans_table[i].state = "SENDING" /\ ~shutdown
                               => trans_table'[i].state = "SENDING",
           NEW T, T = {trans_table[i].callback : i \in S},
           \A c \in AsyncCalls :
              /\ rx'.cb = c => rx.cb = c \/ (c \in T /\ tick' = tick /\ deinit' = deinit)
              /\ c \in tick'.cbs => c \in tick.cbs \/ (c \in T /\ rx' = rx /\ deinit' = deinit)
              /\ deinit'.cb = c => deinit.cb = c \/ (c \in T /\ rx' = rx /\ tick' = tick)
    PROVE  CInv'
  <1>1. \A c \in AsyncCalls : c \in T => Untouched(c) /\ ~Holds(c)'
                                         /\ pc[c] \notin {"new", "sending", "failed"}
    <2> SUFFICES ASSUME NEW c \in AsyncCalls, NEW i \in S, c = trans_table[i].callback
                 PROVE  Untouched(c) /\ ~Holds(c)' /\ pc[c] \notin {"new", "sending", "failed"}
      OBVIOUS
    <2>1. /\ Untouched(c) /\ pc[c] \notin {"new", "sending", "failed"}
          /\ \A j \in Slots : trans_table[j].callback = c => j = i
      BY CallbackOfSlot
    <2>2. ~Holds(c)'
      BY <2>1 DEF Holds
    <2>3. QED
      BY <2>1, <2>2
  <1>2. \A c \in AsyncCalls : Holds(c)' => Holds(c)
    BY DEF Holds
  <1>3. Unspent'
    <2>1. \A c \in AsyncCalls : c \notin T /\ Captured(c)' => Captured(c)
      BY DEF Captured
    <2>2. QED
      BY <1>1, <1>2, <2>1 DEF CInv, Unspent, Untouched
  <1>4. CapturedOnce'
    <2> SUFFICES ASSUME NEW c \in AsyncCalls
                 PROVE  /\ fired'[c] <= 1
                        /\ Captured(c)' => fired'[c] = 0
                        /\ rx'.cb = c => c \notin tick'.cbs /\ deinit'.cb # c
                        /\ c \in tick'.cbs => deinit'.cb # c
      BY DEF CapturedOnce
    <2>1. CASE c \in T
      <3>1. fired[c] = 0 /\ rx.cb # c /\ c \notin tick.cbs /\ deinit.cb # c
        BY <1>1, <2>1 DEF Untouched, Captured
      <3>2. fired'[c] = 0
        BY <3>1
      <3>3. rx'.cb = c => c \notin tick'.cbs /\ deinit'.cb # c
        BY <3>1
      <3>4. c \in tick'.cbs => deinit'.cb # c
        BY <3>1
      <3>5. QED
        BY <3>2, <3>3, <3>4
    <2>2. CASE c \notin T
      BY <2>2 DEF CInv, CapturedOnce, Captured
    <2>3. QED
      BY <2>1, <2>2
  <1>5. SendingOwns'
    <2>1. \A c \in AsyncCalls : frame[c].idx \in Slots
      BY OwnSlotType DEF IInv, Calls
    <2>2. QED
      BY <2>1 DEF CInv, SendingOwns
  <1>6. QED
    BY <1>3, <1>4, <1>5 DEF CInv

\* A response: on_response takes the callback of the slot it matches.
LEMMA RxKeeps ==
    ASSUME IInv, CInv, RxArrive \/ RxDrop \/ RxAsync \/ RxSync \/ RxSilent
    PROVE  CInv'
  <1> DEFINE t == trans_table[rx.tid]
  <1>1. UNCHANGED <<fired, frame, shutdown, pc, tick, deinit>>
    BY DEF RxArrive, RxDrop, RxAsync, RxSync, RxSilent, callVars, history
  <1>2. Threads'
    BY <1>1 DEF CInv, Threads
  <1>3. rx.tid \in Slots /\ t \in Slot /\ trans_table \in [Slots -> Slot]
    BY DEF IInv, TypeOK
  <1>4. CASE RxArrive \/ RxDrop
    <2>1. trans_table' = trans_table /\ rx'.cb = None
      BY <1>4 DEF RxArrive, RxDrop, RxIdle
    <2>2. \A c \in AsyncCalls : c # None
      BY CallsAssumption DEF Calls
    <2>3. QED
      BY <1>1, <1>2, <2>1, <2>2, NothingTaken
  <1>5. CASE RxSync \/ RxSilent
    <2>1. rx'.cb = None /\ t.state = "WAITING"
      BY <1>5 DEF RxSync, RxSilent, RxIdle, Matches
    <2>2. \A c \in AsyncCalls : c # None
      BY CallsAssumption DEF Calls
    <2>3. PICK u \in {[t EXCEPT !.result = "OK"], [t EXCEPT !.state = "IDLE"]} :
             trans_table' = [trans_table EXCEPT ![rx.tid] = u]
      BY <1>5 DEF RxSync, RxSilent, SetSlot
    <2>4. u.callback = t.callback
      BY <1>3, <2>3 DEF Slot
    <2>5. \A i \in Slots : /\ trans_table'[i].callback = trans_table[i].callback
                           /\ trans_table[i].state \in {"IDLE", "SENDING"}
                                 => trans_table'[i].state = trans_table[i].state
      BY <1>3, <2>1, <2>3, <2>4
    <2>6. QED
      BY <1>1, <1>2, <2>1, <2>2, <2>5, NothingTaken
  <1>6. CASE RxAsync
    <2>1. /\ t.state = "WAITING" /\ t.callback # None /\ rx'.cb = t.callback
          /\ trans_table' = [trans_table EXCEPT ![rx.tid] = [t EXCEPT !.state = "IDLE"]]
      BY <1>6 DEF RxAsync, RxIdle, SetSlot, Matches
    <2>2. [t EXCEPT !.state = "IDLE"].callback = t.callback
          /\ [t EXCEPT !.state = "IDLE"].state = "IDLE"
      BY <1>3 DEF Slot
    <2>3. \A i \in Slots : /\ trans_table'[i].callback = trans_table[i].callback
                           /\ trans_table'[i].state = IF i = rx.tid THEN "IDLE"
                                                      ELSE trans_table[i].state
      BY <1>3, <2>1, <2>2
    <2> DEFINE S == {rx.tid}
               T == {trans_table[i].callback : i \in S}
    <2>4. S \in SUBSET Slots /\ rx'.cb \in T
      BY <1>3, <2>1
    <2>5. \A i \in S : /\ trans_table[i].state = "WAITING" /\ trans_table[i].callback # None
                       /\ trans_table'[i].state = "IDLE"
      BY <1>3, <2>1, <2>3
    <2> HIDE DEF S, t
    <2>6. \A i \in Slots : /\ trans_table[i].state = "IDLE" => trans_table'[i].state = "IDLE"
                           /\ i \in S => trans_table'[i].state = "IDLE"
                           /\ trans_table[i].state = "SENDING" => trans_table'[i].state = "SENDING"
      BY <2>1, <2>3, <2>5 DEF t
    <2>7. \A c \in AsyncCalls : rx'.cb = c => c \in T
      BY <2>4
    <2> HIDE DEF T
    <2>8. QED
      BY <1>1, <1>2, <2>3, <2>4, <2>5, <2>6, <2>7, TakenKeeps DEF T
  <1>7. QED
    BY <1>4, <1>5, <1>6

\* A captured callback runs, and is in nobody's hands any more.
LEMMA RanKeeps ==
    ASSUME IInv, CInv, NEW c \in AsyncCalls, Captured(c),
           fired' = [fired EXCEPT ![c] = @ + 1],
           UNCHANGED <<trans_table, frame, shutdown, pc>>, Threads',
           \A d \in AsyncCalls : /\ rx'.cb = d => rx.cb = d
                                 /\ d \in tick'.cbs => d \in tick.cbs
                                 /\ deinit'.cb = d => deinit.cb = d,
           ~Captured(c)'
    PROVE  CInv'
  <1>1. fired[c] = 0 /\ pc[c] \notin {"new", "sending", "failed"} /\ ~Holds(c)
    BY CallbackCaptured
  <1>2. fired'[c] = 1 /\ \A d \in AsyncCalls : d # c => fired'[d] = fired[d]
    BY <1>1 DEF IInv, TypeOK
  <1>3. \A d \in AsyncCalls : (Holds(d)' <=> Holds(d)) /\ (Captured(d)' => Captured(d))
    BY DEF Holds, Captured
  <1>4. SendingOwns'
    BY DEF CInv, SendingOwns
  <1>5. Unspent'
    BY <1>1, <1>2, <1>3 DEF CInv, Unspent, Untouched
  <1>6. CapturedOnce'
    BY <1>2, <1>3 DEF CInv, CapturedOnce
  <1>7. QED
    BY <1>4, <1>5, <1>6 DEF CInv

\* The receive thread runs the callback it has taken.
LEMMA RxCallKeeps ==
    ASSUME IInv, CInv, RxCall
    PROVE  CInv'
  <1>1. /\ fired' = [fired EXCEPT ![rx.cb] = @ + 1] /\ rx'.cb = None
        /\ UNCHANGED <<trans_table, frame, shutdown, pc, tick, deinit>>
    BY DEF RxCall, RxIdle, callVars
  <1>2. Threads' /\ \A c \in AsyncCalls : c # None
    BY <1>1, CallsAssumption DEF CInv, Threads, Calls
  <1>3. CASE rx.cb \in AsyncCalls
    <2>1. Captured(rx.cb) /\ rx.cb \notin tick.cbs /\ deinit.cb # rx.cb
      BY <1>3 DEF Captured, CInv, CapturedOnce
    <2>2. ~(rx'.cb = rx.cb \/ rx.cb \in tick'.cbs \/ deinit'.cb = rx.cb)
      BY <1>1, <1>2, <1>3, <2>1
    <2>3. PICK d \in AsyncCalls : d = rx.cb
      BY <1>3
    <2>4. ~Captured(d)'
      BY <2>2, <2>3 DEF Captured
    <2>5. QED
      BY <1>1, <1>2, <2>1, <2>3, <2>4, RanKeeps
  <1>4. CASE rx.cb \notin AsyncCalls
    <2>1. fired' = fired
      BY <1>1, <1>4 DEF IInv, TypeOK
    <2>2. QED
      BY <1>1, <1>2, <2>1, NothingTaken
  <1>5. QED
    BY <1>3, <1>4

\* The tick runs a callback it has taken.
LEMMA TickCallKeeps ==
    ASSUME IInv, CInv, TickCall
    PROVE  CInv'
  <1>1. PICK c \in tick.cbs : /\ fired' = [fired EXCEPT ![c] = @ + 1]
                              /\ tick' = [tick EXCEPT !.cbs = @ \ {c}]
    BY DEF TickCall
  <1>2. c \in AsyncCalls /\ tick'.cbs = tick.cbs \ {c} /\ tick'.pc = tick.pc
    BY <1>1 DEF IInv, TypeOK
  <1>3. UNCHANGED <<trans_table, frame, shutdown, pc, rx, deinit>>
    BY DEF TickCall, callVars
  <1>4. Threads'
    BY <1>1, <1>2, <1>3 DEF CInv, Threads
  <1>5. Captured(c) /\ rx.cb # c /\ deinit.cb # c
    BY <1>1, <1>2 DEF Captured, CInv, CapturedOnce
  <1>6. ~Captured(c)'
    BY <1>2, <1>3, <1>5 DEF Captured
  <1>7. QED
    BY <1>1, <1>2, <1>3, <1>4, <1>5, <1>6, RanKeeps

\* deinit runs the callback it has taken.
LEMMA DeinitCallKeeps ==
    ASSUME IInv, CInv, DeinitCall
    PROVE  CInv'
  <1>1. /\ fired' = [fired EXCEPT ![deinit.cb] = @ + 1] /\ deinit.cb # None
        /\ deinit' = [deinit EXCEPT !.cb = None]
        /\ UNCHANGED <<trans_table, frame, shutdown, pc, rx, tick>>
    BY DEF DeinitCall, callVars
  <1>2. PICK c \in AsyncCalls : c = deinit.cb
    BY <1>1 DEF IInv, TypeOK
  <1>3. c # None /\ deinit'.cb = None /\ deinit'.pc = deinit.pc
    BY <1>1, <1>2 DEF IInv, TypeOK
  <1>4. Threads' /\ \A d \in AsyncCalls : d # None
    BY <1>1, <1>3, CallsAssumption DEF CInv, Threads, Calls
  <1>5. Captured(c) /\ rx.cb # c /\ c \notin tick.cbs
    BY <1>2 DEF Captured, CInv, CapturedOnce
  <1>6. ~Captured(c)'
    BY <1>1, <1>3, <1>5 DEF Captured
  <1>7. QED
    BY <1>1, <1>2, <1>3, <1>4, <1>5, <1>6, RanKeeps

\* The tick takes the callbacks of its batch.
LEMMA TickScanKeeps ==
    ASSUME IInv, CInv, TickScan
    PROVE  CInv'
  <1>1. /\ trans_table' = [i \in Slots |-> Scanned(i)] /\ tick.pc = "scan"
        /\ tick' = [pc |-> "idle", cbs |-> {trans_table[i].callback : i \in Batch}]
        /\ UNCHANGED <<fired, frame, shutdown, pc, rx, deinit>>
    BY DEF TickScan, callVars, history
  <1>2. Threads'
    BY <1>1 DEF CInv, Threads
  <1>3. \A i \in Batch : /\ i \in Slots /\ trans_table[i].state = "WAITING"
                         /\ trans_table[i].callback # None /\ Due(trans_table[i])
    BY DEF Batch, DueCallbacks, Due
  <1>4. \A i \in Slots : trans_table[i] \in Slot
    BY DEF IInv, TypeOK
  <1>5. \A i \in Slots :
           /\ Scanned(i).callback = trans_table[i].callback
           /\ trans_table[i].state # "WAITING" => Scanned(i) = trans_table[i]
           /\ i \in Batch => Scanned(i).state = "IDLE"
    <2> TAKE i \in Slots
    <2> DEFINE t == trans_table[i]
    <2>1. /\ [t EXCEPT !.state = "IDLE"].callback = t.callback
          /\ [t EXCEPT !.state = "IDLE"].state = "IDLE"
          /\ TimedOut(t).callback = t.callback
          /\ \A x : [t EXCEPT !.timeout_ms = x].callback = t.callback
      BY <1>4 DEF TimedOut, Slot
    <2>2. t.state # "WAITING" => Scanned(i) = t
      BY DEF Scanned, Arming, Due
    <2>3. i \in Batch => Scanned(i) = [t EXCEPT !.state = "IDLE"]
      BY <1>3 DEF Scanned, Arming, Due
    <2>4. Scanned(i).callback = t.callback
      BY <2>1 DEF Scanned
    <2>5. QED
      BY <2>1, <2>2, <2>3, <2>4
  <1>6. \A i \in Slots :
           /\ trans_table'[i].callback = trans_table[i].callback
           /\ trans_table[i].state # "WAITING" => trans_table'[i].state = trans_table[i].state
           /\ i \in Batch => trans_table'[i].state = "IDLE"
    BY <1>1, <1>5
  <1> DEFINE T == {trans_table[i].callback : i \in Batch}
  <1>7. tick'.cbs = T
    BY <1>1
  <1>8. Batch \in SUBSET Slots
    BY <1>3
  <1> HIDE DEF T
  <1>9. QED
    BY <1>1, <1>2, <1>3, <1>6, <1>7, <1>8, TakenKeeps DEF T

\* deinit cancels the request of one slot.
LEMMA DeinitSlotKeeps ==
    ASSUME IInv, CInv, DeinitSlot
    PROVE  CInv'
  <1> DEFINE t == trans_table[deinit.i]
  <1>1. /\ trans_table' = [trans_table EXCEPT ![deinit.i] = Cancelled(t)]
        /\ deinit.pc = "scan" /\ deinit.i \in Slots
        /\ deinit' = [deinit EXCEPT !.i = @ + 1,
                                    !.cb = IF t.state = "IDLE" THEN None ELSE t.callback]
        /\ UNCHANGED <<fired, frame, shutdown, pc, rx, tick>>
    BY DEF DeinitSlot, SetSlot, callVars, history
  <1>2. /\ deinit'.cb = (IF t.state = "IDLE" THEN None ELSE t.callback)
        /\ deinit'.pc = "scan" /\ t \in Slot /\ trans_table \in [Slots -> Slot]
    BY <1>1 DEF IInv, TypeOK
  <1>3. Threads' /\ shutdown /\ \A d \in AsyncCalls : d # None
    BY <1>1, <1>2, CallsAssumption DEF CInv, Threads, Calls
  <1>4. /\ Cancelled(t).callback = t.callback /\ Cancelled(t).state = "IDLE"
        /\ t.state = "IDLE" => Cancelled(t) = t
    BY <1>2 DEF Cancelled, Slot
  <1>5. \A i \in Slots : /\ trans_table'[i].callback = trans_table[i].callback
                         /\ trans_table'[i].state = IF i = deinit.i THEN "IDLE"
                                                    ELSE trans_table[i].state
    BY <1>1, <1>2, <1>4
  <1> DEFINE S == {i \in {deinit.i} : t.state # "IDLE" /\ t.callback # None}
             T == {trans_table[i].callback : i \in S}
  <1>6. /\ S \in SUBSET Slots
        /\ \A i \in S : trans_table[i].state # "IDLE" /\ trans_table[i].callback # None
        /\ \A i \in S : i = deinit.i
    BY <1>1
  <1>7. \A c \in AsyncCalls : deinit'.cb = c => c \in T
    BY <1>2, <1>3
  <1> HIDE DEF S, T, t
  <1>8. \A i \in Slots : /\ trans_table[i].state = "IDLE" => trans_table'[i].state = "IDLE"
                         /\ i \in S => trans_table'[i].state = "IDLE"
    BY <1>5, <1>6
  <1>9. QED
    BY <1>1, <1>3, <1>5, <1>6, <1>7, <1>8, TakenKeeps DEF T

\* A synchronous call writes a slot that is free or its own, and leaves no callback
\* in it.
LEMMA SyncSlotKeeps ==
    ASSUME IInv, CInv, NEW c \in SyncCalls, NEW label, Goto(c, label),
           NEW i \in Slots, NEW t, SetSlot(i, t), t.callback = None,
           \A d \in AsyncCalls : /\ pc[d] = "sending" => frame[d].idx # i
                                 /\ frame'[d] = frame[d],
           UNCHANGED <<fired, shutdown, rx, tick, deinit>>
    PROVE  CInv'
  <1>1. c \in Calls /\ \A d \in AsyncCalls : d \in Calls /\ d # c /\ d # None
    BY CallsAssumption DEF Calls
  <1>2. \A d \in AsyncCalls : pc'[d] = pc[d] /\ frame'[d] = frame[d] /\ frame[d].idx \in Slots
    BY <1>1, OwnSlotType DEF Goto, IInv, TypeOK
  <1>3. trans_table'[i] = t /\ \A j \in Slots : j # i => trans_table'[j] = trans_table[j]
    BY DEF SetSlot, IInv, TypeOK
  <1>4. \A d \in AsyncCalls : /\ Captured(d)' <=> Captured(d)
                              /\ Untouched(d)' <=> Untouched(d)
                              /\ Holds(d)' => Holds(d)
    <2> TAKE d \in AsyncCalls
    <2>1. (Captured(d)' <=> Captured(d)) /\ (Untouched(d)' <=> Untouched(d))
      BY DEF Captured, Untouched
    <2>2. Holds(d)' => Holds(d)
      BY <1>1, <1>3 DEF Holds
    <2>3. QED
      BY <2>1, <2>2
  <1>5. SendingOwns'
    BY <1>2, <1>3 DEF CInv, SendingOwns
  <1>6. Unspent'
    BY <1>2, <1>4 DEF CInv, Unspent
  <1>7. CapturedOnce' /\ Threads'
    BY <1>4 DEF CInv, CapturedOnce, Threads
  <1>8. QED
    BY <1>5, <1>6, <1>7 DEF CInv

\* A synchronous call on the application's one thread takes no callback.
LEMMA SyncKeeps ==
    ASSUME IInv, SInv, CInv, NEW c \in SyncCalls, SyncStep(c)
    PROVE  CInv'
  <1> USE DEF callVars, threadVars, history
  <1>1. c \in Calls /\ \A d \in AsyncCalls : d \in Calls /\ d # c
    BY CallsAssumption DEF Calls
  <1>2. CASE SyncAlloc(c)
    <2>1. PICK i \in Slots, dest \in Nodes, timeout \in SyncTimeouts :
             /\ Allocates(i) /\ SetSlot(i, SyncSlot(trans_table[i], c, dest, timeout))
             /\ frame' = [frame EXCEPT ![c] =
                             [idx |-> i, dest |-> dest, seq |-> seq_counter]]
      BY <1>2 DEF SyncAlloc
    <2>2. SyncSlot(trans_table[i], c, dest, timeout).callback = None
      BY DEF SyncSlot, IInv, TypeOK, Slot
    <2>3. \A d \in AsyncCalls : /\ pc[d] = "sending" => frame[d].idx # i
                                /\ frame'[d] = frame[d]
      BY <1>1, <2>1 DEF CInv, SendingOwns, Allocates, IInv, TypeOK
    <2>4. Goto(c, "sending") /\ UNCHANGED <<fired, shutdown, rx, tick, deinit>>
      BY <1>2 DEF SyncAlloc
    <2>5. QED
      BY <2>1, <2>2, <2>3, <2>4, SyncSlotKeeps
  <1>3. CASE SyncNoSem(c)
    <2>1. PICK i \in Slots, dest \in Nodes, timeout \in SyncTimeouts :
             Allocates(i) /\ SetSlot(i, NoSemSlot(trans_table[i], c, dest, timeout))
      BY <1>3 DEF SyncNoSem
    <2>2. NoSemSlot(trans_table[i], c, dest, timeout).callback = None
      BY DEF NoSemSlot, SyncSlot, IInv, TypeOK, Slot
    <2>3. \A d \in AsyncCalls : pc[d] = "sending" => frame[d].idx # i
      BY <2>1 DEF CInv, SendingOwns, Allocates
    <2>4. Goto(c, "done") /\ UNCHANGED <<fired, frame, shutdown, rx, tick, deinit>>
      BY <1>3 DEF SyncNoSem
    <2>5. QED
      BY <2>1, <2>2, <2>3, <2>4, SyncSlotKeeps
  <1>4. CASE SyncSent(c) \/ SyncFailFree(c) \/ SyncReap(c)
    <2> DEFINE i == frame[c].idx
               t == trans_table[i]
    <2>1. PICK label \in {"sent", "done"},
               u \in {[t EXCEPT !.state = "WAITING"], Reaped(t)} :
             Goto(c, label) /\ SetSlot(i, u)
      BY <1>4 DEF SyncSent, SyncFailFree, SyncReap
    <2>2. i \in Slots /\ t \in Slot /\ pc[c] \in InSendSync
      BY <1>1, <1>4, OwnSlotType DEF IInv, SyncSent, SyncFailFree, SyncReap, InSendSync
    <2>3. t.callback = None /\ \A d \in AsyncCalls : pc[d] # "sending"
      BY <1>1, <2>2 DEF SInv, OwnSlot, Alone, InSendSync
    <2>4. u.callback = None
      BY <2>1, <2>2, <2>3 DEF Reaped, Slot
    <2>5. UNCHANGED <<fired, frame, shutdown, rx, tick, deinit>>
      BY <1>4 DEF SyncSent, SyncFailFree, SyncReap
    <2> HIDE DEF i, t
    <2>6. QED
      BY <2>1, <2>2, <2>3, <2>4, <2>5, SyncSlotKeeps
  <1>5. CASE SyncFull(c) \/ SyncSendFail(c) \/ SyncWait(c) \/ SyncWake(c)
    <2>1. /\ UNCHANGED <<trans_table, fired, frame, shutdown, rx, tick, deinit>>
          /\ \E label : Goto(c, label)
      BY <1>5 DEF SyncFull, SyncSendFail, SyncWait, SyncWake
    <2>2. \A d \in AsyncCalls : pc'[d] = pc[d]
      BY <1>1, <2>1 DEF Goto, IInv, TypeOK
    <2>3. \A d \in AsyncCalls : /\ Captured(d)' <=> Captured(d)
                                /\ Untouched(d)' <=> Untouched(d)
                                /\ Holds(d)' <=> Holds(d)
      BY <2>1 DEF Captured, Untouched, Holds
    <2>4. SendingOwns' /\ Unspent' /\ CapturedOnce' /\ Threads'
      BY <2>1, <2>2, <2>3 DEF CInv, SendingOwns, Unspent, CapturedOnce, Threads
    <2>5. QED
      BY <2>4 DEF CInv
  <1>6. QED
    BY <1>2, <1>3, <1>4, <1>5 DEF SyncStep

\* The steps that touch neither slots nor callbacks.
LEMMA QuietKeeps ==
    ASSUME IInv, CInv, QuiescentDeinit,
           Reply \/ TickStart \/ DeinitStart \/ DeinitDone \/ UNCHANGED vars
    PROVE  CInv'
  <1>1. CASE DeinitStart
    <2>1. /\ deinit.pc = "off" /\ \A c \in Calls : pc[c] # "sending"
          /\ shutdown' = TRUE /\ deinit' = [deinit EXCEPT !.pc = "scan"]
          /\ UNCHANGED <<trans_table, fired, frame, pc, rx, tick>>
      BY <1>1 DEF DeinitStart, callVars, history
    <2>2. deinit'.pc = "scan" /\ deinit'.cb = deinit.cb
      BY <2>1 DEF IInv, TypeOK
    <2>3. SendingOwns' /\ Threads'
      BY <2>1, <2>2 DEF CInv, SendingOwns, Threads, Calls
    <2>4. \A c \in AsyncCalls : /\ Captured(c)' <=> Captured(c)
                                /\ Holds(c)' <=> Holds(c)
      BY <2>1, <2>2 DEF Captured, Holds
    <2>5. Unspent' /\ CapturedOnce'
      BY <2>1, <2>2, <2>4 DEF CInv, Unspent, CapturedOnce, Untouched
    <2>6. QED
      BY <2>3, <2>5 DEF CInv
  <1>2. CASE Reply \/ TickStart \/ DeinitDone \/ UNCHANGED vars
    <2>1. UNCHANGED <<trans_table, fired, frame, shutdown, pc, rx>>
      BY <1>2 DEF Reply, TickStart, DeinitDone, vars, callVars, threadVars, history
    <2>2. /\ tick'.cbs = tick.cbs /\ deinit'.cb = deinit.cb
          /\ tick'.pc = "scan" => tick'.cbs = {}
          /\ deinit'.pc = "off" <=> deinit.pc = "off"
      BY <1>2 DEF Reply, TickStart, DeinitDone, vars, callVars, threadVars, history,
                  IInv, TypeOK, CInv, Threads
    <2>3. Threads'
      BY <2>1, <2>2 DEF CInv, Threads
    <2>4. QED
      BY <2>1, <2>2, <2>3, NothingTaken
  <1>3. QED
    BY <1>1, <1>2

-----------------------------------------------------------------------------
(* The theorem.                                                            *)

\* One step of an application whose synchronous calls share the one thread.
LEMMA NextCallbacks ==
    ASSUME QuiescentDeinit, IInv, SInv, CInv, [Next]_vars
    PROVE  CInv'
  <1>1. ASSUME NEW c \in AsyncCalls, AsyncStep(c) PROVE CInv'
    BY <1>1, AllocKeeps, FullKeeps, SentKeeps DEF AsyncStep
  <1>2. ASSUME NEW c \in SyncCalls, SyncStep(c) PROVE CInv'
    BY <1>2, SyncKeeps
  <1>3. CASE RxStep
    BY <1>3, RxKeeps, RxCallKeeps DEF RxStep
  <1>4. CASE TickStep
    BY <1>4, QuietKeeps, TickScanKeeps, TickCallKeeps DEF TickStep
  <1>5. CASE DeinitStep
    BY <1>5, QuietKeeps, DeinitSlotKeeps, DeinitCallKeeps DEF DeinitStep
  <1>6. CASE Reply \/ UNCHANGED vars
    BY <1>6, QuietKeeps
  <1>7. QED
    BY <1>1, <1>2, <1>3, <1>4, <1>5, <1>6 DEF Next

\* The response, the timeout and deinit race for a callback, and it runs once: not
\* at all if send_async reported an error.
THEOREM CallbackSafe ==
    ASSUME OneCaller, QuiescentDeinit
    PROVE  Spec => []CallbackOnce
  <1>1. IInv /\ SInv /\ CInv /\ [Next]_vars => CInv'
    BY NextCallbacks
  <1>2. CInv => CallbackOnce
    BY DEF CInv, CapturedOnce, Unspent, Untouched, CallbackOnce
  <1>3. QED
    BY <1>1, <1>2, InitCallbacks, OneCallerInvariant, PTL DEF Spec
=============================================================================
