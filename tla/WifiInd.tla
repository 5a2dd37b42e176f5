------------------------------ MODULE WifiInd -------------------------------
(* The registration and the indication of one event, a statement at a time:  *)
(* component/common/api/wifi/wifi_ind.c, with the worker thread of           *)
(* component/os/os_dep/osdep_service.c. Nothing is locked.                   *)
EXTENDS Naturals, Sequences, FiniteSetsExt, Functions

CONSTANTS
  Writers,   \* tasks that register and unregister
  Handlers,  \* functions they register; user_data of a handler is the handler
  Uses,      \* the handlers that each task registers and unregisters
  Resident,  \* handlers that are registered at the start and never taken away
  OneShot,   \* handlers that unregister themselves, as wifi_scan_done_hdl does
  None,      \* NULL
  Builds,    \* values of CONFIG_WIFI_IND_USE_THREAD: "direct" and "thread"
  Faults,    \* pvPortMalloc may fail
  MaxRow,    \* WIFI_EVENT_MAX_ROW
  QueueSize, \* WIFI_MANAGER_Q_SZ
  MaxEvents, \* bound: indications
  MaxOps     \* bound: registrations and unregistrations by the tasks

Rows     == 1 .. MaxRow
Maybe(S) == S \cup {None}
Buffers  == (1 .. MaxEvents) \X Rows
Messages == [fn : Maybe(Handlers), d : Maybe(Handlers), n : 1 .. MaxEvents, buf : Maybe(Buffers)]

ASSUME IndAssumption ==
  /\ None \notin Handlers \cup Buffers \cup Messages
  /\ Uses \in [Writers -> SUBSET (Handlers \ Resident)]
  /\ Resident \subseteq Handlers /\ IsFiniteSet(Resident) /\ OneShot \subseteq Handlers \ Resident
  /\ Builds \subseteq {"direct", "thread"} /\ Faults \in BOOLEAN
  /\ {MaxRow, QueueSize, MaxEvents} \subseteq Nat \ {0} /\ Cardinality(Resident) <= MaxRow
  /\ MaxOps \in Nat

VARIABLES
  build,   \* which build this is
  handler, \* event_callback_list[event][..].handler
  data,    \* event_callback_list[event][..].handler_user_data
  op,      \* each task: what it is about to do, with which handler and row
  ops,     \* how many calls they have made
  snd,     \* the driver's thread in wifi_indication: its row, event and message
  queue,   \* wifi_worker_thread.event_queue
  call,    \* the handler call being made: a message, or None
  heap,    \* the copies of event buffers that are allocated
  sent,    \* indications made so far: each is named by its number
  seen,    \* history: the last event that each handler was called for
  missed,  \* history: no memory for a copy, or no room in the queue
  raced,   \* history: two updates of the table have overlapped
  torn     \* history: a row has changed while the driver's thread was reading it

tableVars == <<handler, data, torn>>
vars == <<build, handler, data, op, ops, snd, queue, call, heap, sent, seen, missed, raced, torn>>

(* The same table with atomic updates, as WifiConnect and WifiScan have it.  *)
Table == INSTANCE EventTable WITH Events <- {"event"}, NoHandler <- None
AsTable(rows) == [e \in {"event"} |-> rows]

(* They are in the last rows: those before have been given up.               *)
Start == CHOOSE f \in Injection(Resident, Rows) :
           \A h \in Resident : f[h] > MaxRow - Cardinality(Resident)
AtRow(f, i) == IF \E h \in Resident : f[h] = i THEN CHOOSE h \in Resident : f[h] = i ELSE None

NoOp == [pc |-> "idle", h |-> None, i |-> 1]
Idle == [pc |-> "idle", i |-> 1, n |-> 1, full |-> FALSE, fn |-> None, buf |-> None]

Init ==
  /\ build \in Builds
  /\ handler = [i \in Rows |-> AtRow(Start, i)] /\ data = handler
  /\ op = [w \in Writers |-> NoOp] /\ ops = 0
  /\ snd = Idle
  /\ queue = <<>> /\ call = None /\ heap = {}
  /\ sent = 0 /\ seen = [h \in Handlers |-> 0]
  /\ missed = FALSE /\ raced = FALSE /\ torn = FALSE

-----------------------------------------------------------------------------
(* wifi_reg_event_handler and wifi_unreg_event_handler.                      *)

RowsOf(h) == {i \in Rows : handler[i] = h}

Busy(ws) == \E w \in ws : op[w].pc # "idle"
Reads(i) == snd.pc \in {"load", "push", "call"} /\ snd.i = i

SetHandler(i, h) ==
  /\ handler' = [handler EXCEPT ![i] = h]
  /\ torn' = (torn \/ Reads(i))

SetData(i, d) ==
  /\ data' = [data EXCEPT ![i] = d]
  /\ torn' = (torn \/ Reads(i))

Begin(w, pc, h, i) ==
  /\ op[w].pc = "idle" /\ ops < MaxOps
  /\ ops' = ops + 1
  /\ op' = [op EXCEPT ![w] = [pc |-> pc, h |-> h, i |-> i]]
  /\ raced' = (raced \/ Busy(Writers \ {w}))
  /\ UNCHANGED <<build, tableVars, snd, queue, call, heap, sent, seen, missed>>

Then(w, pc) ==
  /\ op' = [op EXCEPT ![w] = IF pc = "idle" THEN NoOp ELSE [@ EXCEPT !.pc = pc]]
  /\ UNCHANGED <<build, ops, snd, queue, call, heap, sent, seen, missed, raced>>

(* Mutant: the row is not tested for being free.                             *)
RegisterOver(w, h) == RowsOf(h) = {} /\ Begin(w, "setHandler", h, 1)

(* The first free row, if the handler is in none; else the call returns.     *)
Register(w, h) ==
  /\ RowsOf(None) # {} /\ RowsOf(h) = {}
  /\ Begin(w, "setHandler", h, Min(RowsOf(None)))

StoreHandler(w) ==
  /\ op[w].pc = "setHandler"
  /\ SetHandler(op[w].i, op[w].h) /\ Then(w, "setData")
  /\ UNCHANGED data

StoreData(w) ==
  /\ op[w].pc = "setData"
  /\ SetData(op[w].i, op[w].h) /\ Then(w, "idle")
  /\ UNCHANGED handler

(* The first row that has the handler.                                       *)
Unregister(w, h) == RowsOf(h) # {} /\ Begin(w, "clearHandler", h, Min(RowsOf(h)))

ClearHandler(w) ==
  /\ op[w].pc = "clearHandler"
  /\ SetHandler(op[w].i, None) /\ Then(w, "clearData")
  /\ UNCHANGED data

(* Mutant: the row keeps its user_data.                                      *)
ClearDataKeeps(w) ==
  /\ op[w].pc = "clearData"
  /\ Then(w, "idle")
  /\ UNCHANGED tableVars

ClearData(w) ==
  /\ op[w].pc = "clearData"
  /\ SetData(op[w].i, None) /\ Then(w, "idle")
  /\ UNCHANGED handler

Write(w) ==
  \/ \E h \in Uses[w] : Register(w, h) \/ Unregister(w, h)
  \/ StoreHandler(w) \/ StoreData(w) \/ ClearHandler(w) \/ ClearData(w)

-----------------------------------------------------------------------------
(* wifi_indication in the driver's thread: rtw_indicate_event_handle or      *)
(* rtw_send_event_to_worker.                                                 *)

Sender(s) ==
  /\ snd' = s
  /\ UNCHANGED <<build, tableVars, op, ops, seen, raced>>

NextRow == IF snd.i = MaxRow THEN Idle
           ELSE [snd EXCEPT !.pc = "look", !.i = @ + 1, !.fn = None, !.buf = None]

Indicate ==
  /\ snd.pc = "idle" /\ sent < MaxEvents
  /\ sent' = sent + 1
  /\ \E full \in BOOLEAN : Sender([Idle EXCEPT !.pc = "look", !.n = sent', !.full = full])
  /\ UNCHANGED <<queue, call, heap, missed>>

(* Mutant: the first free row ends the loop.                                 *)
LookStops ==
  /\ snd.pc = "look"
  /\ LET h == handler[snd.i]
     IN Sender(IF h = None THEN Idle
               ELSE IF build = "thread" THEN [snd EXCEPT !.pc = "load"]
               ELSE [snd EXCEPT !.pc = "call", !.fn = h])
  /\ UNCHANGED <<queue, call, heap, sent, missed>>

(* handler == NULL: continue. Without the thread, the handler that was       *)
(* tested is the one that is called.                                         *)
Look ==
  /\ snd.pc = "look"
  /\ LET h == handler[snd.i]
     IN Sender(IF h = None THEN NextRow
               ELSE IF build = "thread" THEN [snd EXCEPT !.pc = "load"]
               ELSE [snd EXCEPT !.pc = "call", !.fn = h])
  /\ UNCHANGED <<queue, call, heap, sent, missed>>

(* The user_data is read when the call is made.                              *)
Call ==
  /\ snd.pc = "call"
  /\ call' = [fn |-> snd.fn, d |-> data[snd.i], n |-> snd.n, buf |-> None]
  /\ Sender([snd EXCEPT !.pc = "in"])
  /\ UNCHANGED <<queue, heap, sent, missed>>

(* With the thread, the handler is read again for the message, and a copy is *)
(* made of an event that has a buffer.                                       *)
Load ==
  /\ snd.pc = "load"
  /\ LET b == IF snd.full THEN <<snd.n, snd.i>> ELSE None
     IN /\ heap' = IF snd.full THEN heap \cup {b} ELSE heap
        /\ Sender([snd EXCEPT !.pc = "push", !.fn = handler[snd.i], !.buf = b])
  /\ UNCHANGED <<queue, call, sent, missed>>

(* RTW_NOMEM from the middle of the rows.                                    *)
LoadFails ==
  /\ snd.pc = "load" /\ snd.full /\ Faults
  /\ missed' = TRUE
  /\ Sender(Idle)
  /\ UNCHANGED <<queue, call, heap, sent>>

Message == [fn |-> snd.fn, d |-> data[snd.i], n |-> snd.n, buf |-> snd.buf]

(* Mutant: the result of the push is not looked at.                          *)
PushAnyhow ==
  /\ snd.pc = "push"
  /\ queue' = Append(queue, Message)
  /\ Sender(NextRow)
  /\ UNCHANGED <<call, heap, sent, missed>>

(* rtw_push_to_xqueue with no time-out.                                      *)
Push ==
  /\ snd.pc = "push" /\ Len(queue) < QueueSize
  /\ queue' = Append(queue, Message)
  /\ Sender(NextRow)
  /\ UNCHANGED <<call, heap, sent, missed>>

(* Mutant: the copy is kept when the queue is full.                          *)
PushFailsKeeps ==
  /\ snd.pc = "push" /\ Len(queue) = QueueSize
  /\ missed' = TRUE
  /\ Sender(Idle)
  /\ UNCHANGED <<queue, call, heap, sent>>

(* The queue is full: the copy is freed, and the rows that follow get        *)
(* nothing either.                                                           *)
PushFails ==
  /\ snd.pc = "push" /\ Len(queue) = QueueSize
  /\ heap' = heap \ {snd.buf} /\ missed' = TRUE
  /\ Sender(Idle)
  /\ UNCHANGED <<queue, call, sent>>

SenderStep == Look \/ Call \/ Load \/ LoadFails \/ Push \/ PushFails

-----------------------------------------------------------------------------
(* worker_thread_main, and the handlers.                                     *)

(* Mutant: the newest message first.                                         *)
PopLast ==
  /\ build = "thread" /\ call = None /\ queue # <<>>
  /\ call' = queue[Len(queue)] /\ queue' = SubSeq(queue, 1, Len(queue) - 1)
  /\ UNCHANGED <<build, tableVars, op, ops, snd, heap, sent, seen, missed, raced>>

Pop ==
  /\ build = "thread" /\ call = None /\ queue # <<>>
  /\ call' = Head(queue) /\ queue' = Tail(queue)
  /\ UNCHANGED <<build, tableVars, op, ops, snd, heap, sent, seen, missed, raced>>

(* A one-shot handler unregisters itself while it runs. (It does so by the   *)
(* same statements; what overlaps them is what overlaps those of the tasks.) *)
Leaves(h) ==
  IF h \in OneShot /\ RowsOf(h) # {}
  THEN LET i == Min(RowsOf(h))
       IN /\ handler' = [handler EXCEPT ![i] = None] /\ data' = [data EXCEPT ![i] = None]
          /\ torn' = (torn \/ Reads(i)) /\ raced' = (raced \/ Busy(Writers))
  ELSE UNCHANGED <<tableVars, raced>>

(* The handler runs and returns; the worker frees its copy. A NULL function  *)
(* never returns.                                                            *)
Handle ==
  /\ call # None /\ call.fn # None
  /\ seen' = [seen EXCEPT ![call.fn] = call.n]
  /\ Leaves(call.fn)
  /\ heap' = heap \ {call.buf}
  /\ call' = None
  /\ snd' = IF build = "direct" THEN NextRow ELSE snd
  /\ UNCHANGED <<build, op, ops, queue, sent, missed>>

-----------------------------------------------------------------------------
Next == (\E w \in Writers : Write(w)) \/ Indicate \/ SenderStep \/ Pop \/ Handle

Spec == Init /\ [][Next]_vars

(* The driver's and the worker's threads are scheduled, and handlers return. *)
Fairness == WF_vars(SenderStep) /\ WF_vars(Pop) /\ WF_vars(Handle)
FairSpec == Spec /\ Fairness

-----------------------------------------------------------------------------
(* Properties.                                                               *)

TypeOK ==
  /\ build \in {"direct", "thread"}
  /\ handler \in [Rows -> Maybe(Handlers)] /\ data \in [Rows -> Maybe(Handlers)]
  /\ op \in [Writers -> [pc : {"idle", "setHandler", "setData", "clearHandler", "clearData"},
                         h : Maybe(Handlers), i : Rows]]
  /\ ops \in 0 .. MaxOps
  /\ snd \in [pc : {"idle", "look", "load", "push", "call", "in"}, i : Rows, n : 1 .. MaxEvents,
              full : BOOLEAN, fn : Maybe(Handlers), buf : Maybe(Buffers)]
  /\ queue \in Seq(Messages) /\ Len(queue) <= QueueSize
  /\ call \in Maybe(Messages) /\ heap \subseteq Buffers
  /\ sent \in 0 .. MaxEvents /\ seen \in [Handlers -> 0 .. MaxEvents]
  /\ missed \in BOOLEAN /\ raced \in BOOLEAN /\ torn \in BOOLEAN

Made == Range(queue) \cup (IF call = None THEN {} ELSE {call})

(* Every copy of an event's buffer has exactly one owner, who frees it: the  *)
(* driver's thread, a message in the queue or the worker. None is kept when  *)
(* memory or the queue is short, none is freed under a handler.              *)
BuffersOwned ==
  /\ heap = ({m.buf : m \in Made} \cup {snd.buf}) \ {None}
  /\ \A m \in Made : m.buf # None => m.buf # snd.buf
  /\ \A m, k \in Made : m # k /\ m.buf # None => m.buf # k.buf

(* A handler is called with its own user_data, or with NULL when its row was *)
(* being written, never with another's, and nobody calls through NULL -      *)
(* unless two tasks have updated the table at once, or one of them overtook  *)
(* the driver's thread in the middle of the row.                             *)
OwnData == \A m \in Made : raced \/ torn \/ (m.fn # None /\ m.d \in {m.fn, None})

(* As long as no two updates overlap, whatever the driver's thread sees of   *)
(* the handlers is a table that whole calls of wifi_reg_event_handler and    *)
(* wifi_unreg_event_handler have made.                                       *)
TableAtomic ==
  [][ raced' \/ handler' = handler
      \/ \E h \in Handlers :
           AsTable(handler') \in {Table!Reg(AsTable(handler), "event", h),
                                  Table!Unreg(AsTable(handler), "event", h)} ]_vars

(* No handler hears an event after a later one, whatever races there are.    *)
Order == INSTANCE InOrder
OrderSpec == Order!Spec

(* A handler that nobody takes away hears of every event, once and without a *)
(* gap: of event n only after event n - 1, whatever is done to the rows      *)
(* around its own meanwhile, until memory or the queue has been short.       *)
NoneSkipped ==
  [][ \A h \in Resident : seen'[h] # seen[h] => missed \/ seen'[h] = seen[h] + 1 ]_vars

(* A handler that nobody takes away is called for every event, whatever is   *)
(* done to the rows around its own meanwhile, unless memory or the queue was *)
(* short; or the worker has been made to call through NULL.                  *)
ResidentHears ==
  \A h \in Resident, n \in 1 .. MaxEvents :
    sent = n ~> (seen[h] >= n \/ missed \/ (call # None /\ call.fn = None))
=============================================================================
