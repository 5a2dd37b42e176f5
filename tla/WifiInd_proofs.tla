--------------------------- MODULE WifiInd_proofs ---------------------------
(* Proofs about WifiInd: the registration and the indication of an event,    *)
(* for any number of tasks, handlers, rows and events and any queue.         *)
EXTENDS WifiInd, SequenceFacts, TLAPS

-----------------------------------------------------------------------------
(* The first of some rows.                                                   *)

LEMMA FirstRow ==
  ASSUME IndAssumption, NEW h, RowsOf(h) # {}
  PROVE  Min(RowsOf(h)) \in Rows /\ handler[Min(RowsOf(h))] = h
<1>1. RowsOf(h) \in SUBSET Nat
  BY DEF RowsOf, Rows
<1>2. Min(RowsOf(h)) \in RowsOf(h)
  BY <1>1, MinIsFirst
<1> QED
  BY <1>2 DEF RowsOf

-----------------------------------------------------------------------------
(* Types.                                                                    *)

OpPcs   == {"idle", "setHandler", "setData", "clearHandler", "clearData"}
Ops     == [pc : OpPcs, h : Maybe(Handlers), i : Rows]
Senders == [pc : {"idle", "look", "load", "push", "call", "in"}, i : Rows, n : 1 .. MaxEvents,
            full : BOOLEAN, fn : Maybe(Handlers), buf : Maybe(Buffers)]

TableTypes  == handler \in [Rows -> Maybe(Handlers)] /\ data \in [Rows -> Maybe(Handlers)] /\ torn \in BOOLEAN
WriterTypes == op \in [Writers -> Ops] /\ ops \in 0 .. MaxOps /\ raced \in BOOLEAN
SenderTypes == build \in {"direct", "thread"} /\ snd \in Senders /\ sent \in 0 .. MaxEvents
QueueTypes  == /\ queue \in Seq(Messages) /\ Len(queue) <= QueueSize /\ call \in Maybe(Messages)
               /\ heap \subseteq Buffers /\ missed \in BOOLEAN
SeenTypes   == seen \in [Handlers -> 0 .. MaxEvents]

Types == TableTypes /\ WriterTypes /\ SenderTypes /\ QueueTypes /\ SeenTypes

LEMMA TypesAreTypeOK == Types <=> TypeOK
BY DEF Types, TableTypes, WriterTypes, SenderTypes, QueueTypes, SeenTypes, TypeOK, OpPcs, Ops, Senders

LEMMA Constants ==
  ASSUME IndAssumption
  PROVE  /\ MaxRow \in Nat \ {0} /\ QueueSize \in Nat \ {0} /\ MaxEvents \in Nat \ {0} /\ MaxOps \in Nat
         /\ None \notin Handlers /\ None \notin Buffers /\ None \notin Messages
         /\ 1 \in Rows /\ Rows \subseteq Nat
BY DEF IndAssumption, Rows

(* The driver's thread.                                                      *)
LEMMA SenderFields ==
  ASSUME IndAssumption
  PROVE  /\ Idle \in Senders /\ Idle.pc = "idle" /\ Idle.buf = None /\ Idle.i = 1
         /\ snd \in Senders => /\ snd.i \in Rows /\ snd.n \in 1 .. MaxEvents /\ snd.full \in BOOLEAN
                               /\ snd.fn \in Maybe(Handlers) /\ snd.buf \in Maybe(Buffers)
BY Constants DEF Idle, Senders, Maybe

LEMMA NextRowFields ==
  ASSUME IndAssumption, snd \in Senders
  PROVE  /\ NextRow \in Senders
         /\ \/ NextRow = Idle
            \/ /\ NextRow.pc = "look" /\ NextRow.i = snd.i + 1 /\ NextRow.n = snd.n /\ NextRow.buf = None
<1>1. snd.i \in 1 .. MaxRow /\ MaxRow \in Nat
  BY SenderFields, Constants DEF Rows
<1>2. CASE snd.i = MaxRow
  BY <1>2, SenderFields DEF NextRow
<1>3. CASE snd.i # MaxRow
  <2>1. snd.i + 1 \in Rows
    BY <1>1, <1>3 DEF Rows
  <2>2. NextRow = [snd EXCEPT !.pc = "look", !.i = snd.i + 1, !.fn = None, !.buf = None]
    BY <1>3 DEF NextRow
  <2> QED
    BY <2>1, <2>2 DEF Senders, Maybe
<1> QED
  BY <1>2, <1>3

LEMMA InitTypes ==
  ASSUME IndAssumption, Init
  PROVE  Types
<1>1. handler \in [Rows -> Maybe(Handlers)] /\ data = handler
  <2>1. \A f, i : AtRow(f, i) \in Maybe(Handlers)
    BY DEF AtRow, Maybe, IndAssumption
  <2> QED
    BY <2>1 DEF Init
<1>2. op \in [Writers -> Ops]
  BY Constants DEF Init, NoOp, Ops, OpPcs, Maybe
<1>3. /\ build \in Builds /\ ops = 0 /\ snd = Idle /\ queue = << >> /\ call = None /\ heap = {} /\ sent = 0
      /\ seen = [h \in Handlers |-> 0] /\ missed = FALSE /\ raced = FALSE /\ torn = FALSE
  BY DEF Init
<1>4. TableTypes
  BY <1>1, <1>3 DEF TableTypes
<1>5. WriterTypes
  <2>1. MaxOps \in Nat
    BY Constants
  <2>2. ops \in 0 .. MaxOps
    BY <1>3, <2>1
  <2>3. raced \in BOOLEAN
    BY <1>3
  <2> QED
    BY <1>2, <2>2, <2>3 DEF WriterTypes
<1>6. SenderTypes
  BY <1>3, Constants, SenderFields DEF SenderTypes, IndAssumption
<1>7. QueueTypes
  <2>1. queue \in Seq(Messages) /\ Len(queue) = 0
    BY <1>3
  <2> QED
    <3>1. Len(queue) <= QueueSize
      BY <2>1, Constants
    <3>2. call \in Maybe(Messages) /\ heap \subseteq Buffers
      BY <1>3 DEF Maybe
    <3>3. missed \in BOOLEAN
      BY <1>3
    <3> QED
      BY <2>1, <3>1, <3>2, <3>3 DEF QueueTypes
<1>8. SeenTypes
  BY <1>3, Constants DEF SeenTypes
<1> QED
  BY <1>4, <1>5, <1>6, <1>7, <1>8 DEF Types

(* The tasks.                                                                *)
LEMMA BeginFields ==
  ASSUME IndAssumption, Types, NEW w \in Writers, NEW pc \in OpPcs, NEW h \in Handlers, NEW i \in Rows,
         Begin(w, pc, h, i)
  PROVE  /\ WriterTypes'
         /\ op'[w].pc = pc /\ op'[w].h = h /\ op'[w].i = i
         /\ \A v \in Writers \ {w} : op'[v] = op[v]
         /\ UNCHANGED <<build, tableVars, snd, queue, call, heap, sent, seen, missed>>
<1>1. [pc |-> pc, h |-> h, i |-> i] \in Ops
  BY DEF Ops, Maybe
<1>2. op' = [op EXCEPT ![w] = [pc |-> pc, h |-> h, i |-> i]] /\ op \in [Writers -> Ops]
  BY DEF Begin, Types, WriterTypes
<1>3. op'[w] = [pc |-> pc, h |-> h, i |-> i] /\ op' \in [Writers -> Ops] /\ \A v \in Writers \ {w} : op'[v] = op[v]
  BY <1>1, <1>2
<1>4. raced' \in BOOLEAN /\ ops' \in 0 .. MaxOps
  BY Constants DEF Begin, Types, WriterTypes, Busy
<1> QED
  BY <1>3, <1>4 DEF Begin, WriterTypes

LEMMA ThenFields ==
  ASSUME IndAssumption, Types, NEW w \in Writers, NEW pc \in OpPcs, Then(w, pc)
  PROVE  /\ WriterTypes'
         /\ op'[w].pc = pc /\ (pc # "idle" => op'[w].h = op[w].h /\ op'[w].i = op[w].i)
         /\ \A v \in Writers \ {w} : op'[v] = op[v]
         /\ UNCHANGED <<build, ops, snd, queue, call, heap, sent, seen, missed, raced>>
<1> DEFINE o == IF pc = "idle" THEN NoOp ELSE [op[w] EXCEPT !.pc = pc]
<1>1. o \in Ops /\ o.pc = pc /\ (pc # "idle" => o.h = op[w].h /\ o.i = op[w].i)
  <2>1. op[w] \in Ops
    BY DEF Types, WriterTypes
  <2> QED
    BY <2>1, Constants DEF Ops, NoOp, Maybe, OpPcs
<1>2. op' = [op EXCEPT ![w] = o] /\ op \in [Writers -> Ops]
  BY DEF Then, Types, WriterTypes
<1> HIDE DEF o
<1>3. op'[w] = o /\ op' \in [Writers -> Ops] /\ \A v \in Writers \ {w} : op'[v] = op[v]
  BY <1>1, <1>2
<1> QED
  BY <1>1, <1>3 DEF Then, Types, WriterTypes

LEMMA OpFields ==
  ASSUME Types, NEW w \in Writers
  PROVE  op[w].pc \in OpPcs /\ op[w].h \in Maybe(Handlers) /\ op[w].i \in Rows
BY DEF Types, WriterTypes, Ops

LEMMA WriteTypes ==
  ASSUME IndAssumption, Types, NEW w \in Writers, Write(w)
  PROVE  Types'
<1>1. Uses[w] \subseteq Handlers
  BY DEF IndAssumption
<1>2. ASSUME WriterTypes', TableTypes',
             UNCHANGED <<build, snd, queue, call, heap, sent, seen, missed>>
      PROVE  Types'
  BY <1>2 DEF Types, SenderTypes, QueueTypes, SeenTypes
<1>3. ASSUME NEW pc \in OpPcs, NEW h \in Handlers, NEW i \in Rows, Begin(w, pc, h, i) PROVE Types'
  <2>1. TableTypes'
    BY <1>3, BeginFields DEF Types, TableTypes, tableVars
  <2> QED
    BY <1>2, <1>3, <2>1, BeginFields
<1>4. ASSUME NEW h \in Uses[w], Register(w, h) \/ Unregister(w, h) PROVE Types'
  BY <1>1, <1>3, <1>4, FirstRow DEF Register, Unregister, OpPcs
<1>5. ASSUME NEW pc \in OpPcs, Then(w, pc), TableTypes' PROVE Types'
  BY <1>2, <1>5, ThenFields
<1>6. CASE StoreHandler(w) \/ StoreData(w) \/ ClearHandler(w) \/ ClearData(w)
  <2>1. TableTypes'
    BY <1>6, OpFields DEF StoreHandler, StoreData, ClearHandler, ClearData, SetHandler, SetData, Types,
                          TableTypes, Maybe, Reads
  <2> QED
    BY <1>5, <1>6, <2>1 DEF StoreHandler, StoreData, ClearHandler, ClearData, OpPcs
<1> QED
  BY <1>4, <1>6 DEF Write

(* The driver's thread and the worker.                                       *)
LEMMA SenderTypesStep ==
  ASSUME IndAssumption, Types, NEW s \in Senders, Sender(s), sent' \in 0 .. MaxEvents, QueueTypes'
  PROVE  Types'
BY DEF Types, TableTypes, WriterTypes, SenderTypes, SeenTypes, Sender, tableVars

LEMMA MessageFields ==
  ASSUME IndAssumption, Types
  PROVE  /\ Message \in Messages
         /\ Message.fn = snd.fn /\ Message.d = data[snd.i] /\ Message.n = snd.n /\ Message.buf = snd.buf
BY SenderFields DEF Message, Messages, Types, TableTypes, SenderTypes

LEMMA LookTypes ==
  ASSUME IndAssumption, Types, Look
  PROVE  Types'
<1>1. QueueTypes' /\ sent' \in 0 .. MaxEvents
  BY DEF Look, Types, QueueTypes, SenderTypes
<1>2. handler[snd.i] \in Maybe(Handlers) /\ snd \in Senders
  BY SenderFields DEF Types, TableTypes, SenderTypes
<1>3. /\ NextRow \in Senders /\ [snd EXCEPT !.pc = "load"] \in Senders
      /\ [snd EXCEPT !.pc = "call", !.fn = handler[snd.i]] \in Senders
  BY <1>2, NextRowFields DEF Senders
<1>4. PICK s \in Senders : Sender(s)
  BY <1>3 DEF Look
<1> QED
  BY <1>1, <1>4, SenderTypesStep

LEMMA IndicateTypes ==
  ASSUME IndAssumption, Types, Indicate
  PROVE  Types'
<1>1. sent \in 0 .. MaxEvents /\ sent < MaxEvents /\ sent' = sent + 1 /\ MaxEvents \in Nat
  BY Constants DEF Indicate, Types, SenderTypes
<1>2. sent' \in 1 .. MaxEvents /\ sent' \in 0 .. MaxEvents
  BY <1>1
<1>3. QueueTypes'
  BY <1>2 DEF Indicate, Types, QueueTypes, Sender
<1>4. PICK full \in BOOLEAN : Sender([Idle EXCEPT !.pc = "look", !.n = sent', !.full = full])
  BY DEF Indicate
<1> DEFINE s == [Idle EXCEPT !.pc = "look", !.n = sent', !.full = full]
<1>5. s \in Senders
  BY <1>2, SenderFields DEF Senders
<1> HIDE DEF s
<1> QED
  BY <1>2, <1>3, <1>4, <1>5, SenderTypesStep DEF s

LEMMA CallTypes ==
  ASSUME IndAssumption, Types, Call
  PROVE  Types'
<1>1. snd \in Senders /\ data[snd.i] \in Maybe(Handlers)
  BY SenderFields DEF Types, TableTypes, SenderTypes
<1>2. [snd EXCEPT !.pc = "in"] \in Senders
  BY <1>1 DEF Senders
<1>3. call' \in Messages
  BY <1>1, SenderFields DEF Call, Messages, Maybe
<1>4. QueueTypes' /\ sent' \in 0 .. MaxEvents
  BY <1>3 DEF Call, Types, QueueTypes, SenderTypes, Maybe
<1> QED
  BY <1>2, <1>4, SenderTypesStep DEF Call

LEMMA LoadTypes ==
  ASSUME IndAssumption, Types, Load \/ LoadFails
  PROVE  Types'
<1>1. snd \in Senders /\ handler[snd.i] \in Maybe(Handlers) /\ sent \in 0 .. MaxEvents
  BY SenderFields DEF Types, TableTypes, SenderTypes
<1>2. CASE Load
  <2> DEFINE b == IF snd.full THEN <<snd.n, snd.i>> ELSE None
             s == [snd EXCEPT !.pc = "push", !.fn = handler[snd.i], !.buf = b]
  <2>1. b \in Maybe(Buffers) /\ (snd.full => b \in Buffers)
    BY <1>1, SenderFields DEF Buffers, Maybe
  <2>2. /\ heap' = (IF snd.full THEN heap \cup {b} ELSE heap) /\ Sender(s)
        /\ UNCHANGED <<queue, call, sent, missed>>
    BY <1>2 DEF Load
  <2> HIDE DEF b
  <2>3. s \in Senders
    BY <1>1, <2>1 DEF Senders
  <2>4. QueueTypes'
    BY <2>1, <2>2 DEF Types, QueueTypes
  <2> QED
    BY <1>1, <2>2, <2>3, <2>4, SenderTypesStep
<1>3. CASE LoadFails
  <2>1. QueueTypes'
    BY <1>3 DEF LoadFails, Types, QueueTypes
  <2> QED
    BY <1>1, <1>3, <2>1, SenderFields, SenderTypesStep DEF LoadFails
<1> QED
  BY <1>2, <1>3

LEMMA PushTypes ==
  ASSUME IndAssumption, Types, Push \/ PushFails
  PROVE  Types'
<1>1. snd \in Senders /\ sent \in 0 .. MaxEvents /\ queue \in Seq(Messages)
  BY DEF Types, QueueTypes, SenderTypes
<1>2. CASE Push
  <2>1. queue' = Append(queue, Message) /\ Len(queue) < QueueSize
    BY <1>2 DEF Push
  <2>2. queue' \in Seq(Messages) /\ Len(queue') <= QueueSize
    BY <1>1, <2>1, Queued, MessageFields, Constants
  <2>3. QueueTypes'
    BY <1>2, <2>2 DEF Push, Types, QueueTypes
  <2> QED
    BY <1>1, <1>2, <2>3, NextRowFields, SenderTypesStep DEF Push
<1>3. CASE PushFails
  <2>1. QueueTypes'
    BY <1>3 DEF PushFails, Types, QueueTypes
  <2> QED
    BY <1>1, <1>3, <2>1, SenderFields, SenderTypesStep DEF PushFails
<1> QED
  BY <1>2, <1>3

LEMMA PopTypes ==
  ASSUME IndAssumption, Types, Pop
  PROVE  Types'
<1>1. queue \in Seq(Messages) /\ Len(queue) <= QueueSize /\ queue # << >> /\ QueueSize \in Nat
  BY Constants DEF Types, QueueTypes, Pop
<1>2. call' = Head(queue) /\ queue' = Tail(queue)
  BY DEF Pop
<1>3. queue' \in Seq(Messages) /\ Len(queue') <= QueueSize /\ call' \in Messages
  BY <1>1, <1>2, Unqueued
<1>4. QueueTypes'
  BY <1>3 DEF Pop, Types, QueueTypes, Maybe
<1> QED
  BY <1>4 DEF Pop, Types, TableTypes, WriterTypes, SenderTypes, SeenTypes, tableVars

LEMMA CallFields ==
  ASSUME IndAssumption, Types, call # None
  PROVE  /\ call \in Messages /\ call.n \in 1 .. MaxEvents
         /\ call.fn \in Maybe(Handlers) /\ call.d \in Maybe(Handlers) /\ call.buf \in Maybe(Buffers)
<1>1. call \in Messages
  BY DEF Types, QueueTypes, Maybe
<1> QED
  BY <1>1 DEF Messages

LEMMA LeavesTypes ==
  ASSUME IndAssumption, Types, NEW h \in Handlers, Leaves(h)
  PROVE  TableTypes' /\ raced' \in BOOLEAN
<1>1. CASE h \in OneShot /\ RowsOf(h) # {}
  <2>1. Min(RowsOf(h)) \in Rows
    BY <1>1, FirstRow
  <2> QED
    BY <1>1, <2>1 DEF Leaves, Types, TableTypes, WriterTypes, Maybe, Reads, Busy
<1>2. CASE ~(h \in OneShot /\ RowsOf(h) # {})
  BY <1>2 DEF Leaves, Types, TableTypes, WriterTypes, tableVars
<1> QED
  BY <1>1, <1>2

LEMMA HandleTypes ==
  ASSUME IndAssumption, Types, Handle
  PROVE  Types'
<1>1. call # None /\ call.fn \in Handlers /\ call.n \in 1 .. MaxEvents
  BY CallFields DEF Handle, Maybe
<1>2. TableTypes' /\ raced' \in BOOLEAN
  BY <1>1, LeavesTypes DEF Handle
<1>3. WriterTypes'
  BY <1>2 DEF Handle, Types, WriterTypes
<1>4. SenderTypes'
  BY NextRowFields DEF Handle, Types, SenderTypes
<1>5. QueueTypes'
  BY DEF Handle, Types, QueueTypes, Maybe
<1>6. SeenTypes'
  BY <1>1 DEF Handle, Types, SeenTypes
<1> QED
  BY <1>2, <1>3, <1>4, <1>5, <1>6 DEF Types

LEMMA TypesStep ==
  ASSUME IndAssumption, Types, [Next]_vars
  PROVE  Types'
<1>1. CASE UNCHANGED vars
  BY <1>1 DEF vars, tableVars, Types, TableTypes, WriterTypes, SenderTypes, QueueTypes, SeenTypes
<1> QED
  BY <1>1, WriteTypes, IndicateTypes, LookTypes, CallTypes, LoadTypes, PushTypes, PopTypes, HandleTypes
     DEF Next, SenderStep

(* wifi_ind.c, the event loop and the worker's queue keep the types of what  *)
(* they hold; the queue never exceeds WIFI_MANAGER_Q_SZ.                     *)
THEOREM TypeCorrect ==
  ASSUME IndAssumption
  PROVE  Spec => []TypeOK
<1>1. Init => Types
  BY InitTypes
<1>2. Types /\ [Next]_vars => Types'
  BY TypesStep
<1>3. Types => TypeOK
  BY TypesAreTypeOK
<1> QED
  BY <1>1, <1>2, <1>3, PTL DEF Spec

-----------------------------------------------------------------------------
(* The driver's thread and the worker: which of them calls handlers, where   *)
(* the driver's thread can be, and that the event it is at is the last one.  *)

Threads ==
  /\ build = "direct" => queue = << >> /\ snd.pc \notin {"load", "push"} /\ (call # None <=> snd.pc = "in")
  /\ build = "thread" => snd.pc \notin {"call", "in"}
  /\ snd.buf # None => snd.pc = "push" /\ snd.buf = <<snd.n, snd.i>>
  /\ snd.pc # "idle" => snd.n = sent

(* The tasks leave the threads alone.                                        *)
LEMMA WriteKeeps ==
  ASSUME IndAssumption, Types, NEW w \in Writers, Write(w)
  PROVE  UNCHANGED <<build, snd, queue, call, heap, sent, seen, missed>>
BY DEF Write, Register, Unregister, Begin, StoreHandler, StoreData, ClearHandler, ClearData, Then

LEMMA ThreadsStep ==
  ASSUME IndAssumption, Types, Threads, [Next]_vars
  PROVE  Threads'
<1> USE DEF Threads
<1>1. build' = build
  <2>1. ASSUME NEW w \in Writers, Write(w) PROVE build' = build
    BY <2>1, WriteKeeps
  <2> QED
    BY <2>1 DEF Next, SenderStep, Indicate, Look, Call, Load, LoadFails, Push, PushFails, Pop, Handle, Sender, vars
<1>2. /\ build \in {"direct", "thread"} /\ snd \in Senders /\ sent \in Nat
      /\ queue \in Seq(Messages) /\ snd.full \in BOOLEAN
  BY SenderFields DEF Types, SenderTypes, QueueTypes
<1>3. ASSUME NEW w \in Writers, Write(w) PROVE Threads'
  BY <1>3, WriteKeeps
<1>4. CASE Indicate
  BY <1>2, <1>4, SenderFields DEF Indicate, Sender, Idle
<1>5. CASE Look
  BY <1>1, <1>2, <1>5, NextRowFields, SenderFields DEF Look, Sender, Senders
<1>6. CASE Call
  <2>1. call' # None
    BY <1>6, CallTypes, Constants, SenderFields DEF Call, Messages, Maybe, Types, TableTypes, SenderTypes
  <2> QED
    BY <1>1, <1>2, <1>6, <2>1 DEF Call, Sender, Senders
<1>7. CASE Load
  BY <1>1, <1>2, <1>7 DEF Load, Sender, Senders
<1>8. CASE LoadFails
  BY <1>1, <1>2, <1>8, SenderFields DEF LoadFails, Sender
<1>9. CASE Push
  BY <1>1, <1>2, <1>9, NextRowFields, SenderFields DEF Push, Sender
<1>10. CASE PushFails
  BY <1>1, <1>2, <1>10, SenderFields DEF PushFails, Sender
<1>11. CASE Pop
  BY <1>11 DEF Pop
<1>12. CASE Handle
  BY <1>1, <1>2, <1>12, NextRowFields, SenderFields DEF Handle
<1>13. CASE UNCHANGED vars
  BY <1>13 DEF vars
<1> QED
  BY <1>3, <1>4, <1>5, <1>6, <1>7, <1>8, <1>9, <1>10, <1>11, <1>12, <1>13 DEF Next, SenderStep

-----------------------------------------------------------------------------
(* Events reach a handler in the order of their numbers: those it has heard  *)
(* come before the one it is being called for, that one before those in the  *)
(* queue, and these before the last one sent.                                *)

InQueue ==
  /\ \A i \in DOMAIN queue : queue[i].n <= sent /\ (call # None => call.n <= queue[i].n)
  /\ \A i, j \in DOMAIN queue : i < j => queue[i].n <= queue[j].n
HeardBefore ==
  /\ \A h \in Handlers : seen[h] <= sent /\ (call # None => seen[h] <= call.n)
  /\ \A h \in Handlers, i \in DOMAIN queue : seen[h] <= queue[i].n
  /\ call # None => call.n <= sent

InTurn == InQueue /\ HeardBefore

LEMMA OrderTypes ==
  ASSUME IndAssumption, Types
  PROVE  /\ sent \in Nat /\ snd.n \in Nat /\ \A h \in Handlers : seen[h] \in Nat
         /\ queue \in Seq(Messages) /\ Len(queue) \in Nat /\ DOMAIN queue = 1 .. Len(queue)
         /\ \A i \in DOMAIN queue : queue[i] \in Messages /\ queue[i].n \in Nat
         /\ call # None => call.n \in Nat
<1>1. queue \in Seq(Messages)
  BY DEF Types, QueueTypes
<1>2. \A i \in DOMAIN queue : queue[i] \in Messages
  BY <1>1
<1>3. \A m \in Messages : m.n \in Nat
  BY DEF Messages
<1> QED
  BY <1>1, <1>2, <1>3, Constants, SenderFields, CallFields DEF Types, SenderTypes, SeenTypes

LEMMA PushInTurn ==
  ASSUME IndAssumption, Types, Threads, InTurn, Push
  PROVE  InTurn'
<1> DEFINE l == Len(queue)
<1>1. snd.n = sent /\ queue' = Append(queue, Message) /\ UNCHANGED <<call, sent, seen>>
  BY DEF Push, Sender, Threads
<1>2. /\ DOMAIN queue' = 1 .. l + 1 /\ DOMAIN queue = 1 .. l /\ l \in Nat
      /\ queue'[l + 1] = Message /\ \A i \in 1 .. l : queue'[i] = queue[i]
  BY <1>1, Queued, MessageFields, OrderTypes
<1>3. Message.n = sent
  BY <1>1, MessageFields
<1> HIDE DEF l
<1>4. \A i \in DOMAIN queue' : queue'[i].n = sent \/ (i \in DOMAIN queue /\ queue'[i] = queue[i])
  BY <1>2, <1>3
<1>5. InQueue'
  <2>1. \A i \in DOMAIN queue' : queue'[i].n <= sent' /\ (call' # None => call'.n <= queue'[i].n)
    BY <1>1, <1>4, OrderTypes DEF InTurn, InQueue, HeardBefore
  <2>2. ASSUME NEW i \in DOMAIN queue', NEW j \in DOMAIN queue', i < j PROVE queue'[i].n <= queue'[j].n
    <3>1. i \in DOMAIN queue /\ queue'[i] = queue[i]
      BY <1>2, <2>2
    <3>2. CASE j = l + 1
      BY <1>2, <1>3, <3>1, <3>2 DEF InTurn, InQueue
    <3>3. CASE j # l + 1
      <4>1. j \in DOMAIN queue /\ queue'[j] = queue[j]
        BY <1>2, <3>3
      <4> QED
        BY <2>2, <3>1, <4>1 DEF InTurn, InQueue
    <3> QED
      BY <3>2, <3>3
  <2> QED
    BY <2>1, <2>2 DEF InQueue
<1>6. HeardBefore'
  BY <1>1, <1>4, OrderTypes DEF InTurn, HeardBefore
<1> QED
  BY <1>5, <1>6 DEF InTurn

LEMMA PopInTurn ==
  ASSUME IndAssumption, Types, InTurn, Pop
  PROVE  InTurn'
<1> DEFINE l == Len(queue)
<1>1. call' = Head(queue) /\ queue' = Tail(queue) /\ queue # << >> /\ UNCHANGED <<sent, seen>>
  BY DEF Pop
<1>2. /\ DOMAIN queue' = 1 .. l - 1 /\ DOMAIN queue = 1 .. l /\ l \in Nat \ {0} /\ call' = queue[1]
      /\ \A i \in 1 .. l - 1 : queue'[i] = queue[i + 1]
  BY <1>1, Unqueued, OrderTypes
<1> HIDE DEF l
<1>3. 1 \in DOMAIN queue /\ \A i \in DOMAIN queue' : i + 1 \in DOMAIN queue /\ 1 < i + 1 /\ queue'[i] = queue[i + 1]
  BY <1>2
<1>4. InQueue'
  <2>1. \A i \in DOMAIN queue' : queue'[i].n <= sent' /\ (call' # None => call'.n <= queue'[i].n)
    BY <1>1, <1>2, <1>3 DEF InTurn, InQueue
  <2>2. \A i, j \in DOMAIN queue' : i < j => i + 1 < j + 1
    BY <1>2
  <2>3. \A i, j \in DOMAIN queue' : i < j => queue'[i].n <= queue'[j].n
    BY <1>3, <2>2 DEF InTurn, InQueue
  <2> QED
    BY <2>1, <2>3 DEF InQueue
<1>5. HeardBefore'
  BY <1>1, <1>2, <1>3 DEF InTurn, HeardBefore, InQueue
<1> QED
  BY <1>4, <1>5 DEF InTurn

LEMMA HandleInTurn ==
  ASSUME IndAssumption, Types, InTurn, Handle
  PROVE  /\ InTurn' /\ sent' = sent
         /\ \E h \in Handlers : \E n \in 1 .. sent : n >= seen[h] /\ seen' = [seen EXCEPT ![h] = n]
<1>1. /\ call # None /\ call.fn \in Handlers /\ call.n \in 1 .. MaxEvents /\ MaxEvents \in Nat
      /\ seen' = [seen EXCEPT ![call.fn] = call.n] /\ call' = None
      /\ UNCHANGED <<queue, sent>>
  BY CallFields, Constants DEF Handle, Maybe
<1>2. call.n <= sent /\ call.n >= seen[call.fn] /\ call.n \in 1 .. sent
  BY <1>1, OrderTypes DEF InTurn, HeardBefore
<1>3. \A h \in Handlers : seen'[h] = seen[h] \/ seen'[h] = call.n
  BY <1>1 DEF Types, SeenTypes
<1>4. HeardBefore'
  BY <1>1, <1>2, <1>3 DEF InTurn, InQueue, HeardBefore
<1>5. InQueue'
  BY <1>1 DEF InTurn, InQueue
<1> QED
  BY <1>1, <1>2, <1>4, <1>5 DEF InTurn

LEMMA InTurnStep ==
  ASSUME IndAssumption, Types, Threads, InTurn, [Next]_vars
  PROVE  InTurn'
<1>1. CASE UNCHANGED <<queue, call, sent, seen>>
  BY <1>1 DEF InTurn, InQueue, HeardBefore
<1>2. CASE Indicate
  <2>1. sent' = sent + 1 /\ UNCHANGED <<queue, call, seen>>
    BY <1>2 DEF Indicate, Sender
  <2>2. InQueue'
    BY <2>1, OrderTypes DEF InTurn, InQueue
  <2>3. HeardBefore'
    BY <2>1, OrderTypes DEF InTurn, HeardBefore
  <2> QED
    BY <2>2, <2>3 DEF InTurn
<1>3. CASE Call
  <2>1. queue = << >> /\ snd.n = sent /\ UNCHANGED <<queue, sent, seen>> /\ call'.n = snd.n
    BY <1>3 DEF Call, Sender, Threads, Types, SenderTypes
  <2> QED
    BY <2>1, OrderTypes DEF InTurn, InQueue, HeardBefore
<1> QED
  BY <1>1, <1>2, <1>3, WriteKeeps, PushInTurn, PopInTurn, HandleInTurn
     DEF Next, SenderStep, Look, Load, LoadFails, PushFails, Sender, vars

ThreadsInTurn == Types /\ Threads /\ InTurn

LEMMA InitThreads ==
  ASSUME IndAssumption, Init
  PROVE  ThreadsInTurn
<1>1. Types
  BY InitTypes
<1>2. Threads
  BY SenderFields DEF Init, Threads, Idle
<1>3. InTurn
  BY DEF Init, InTurn, InQueue, HeardBefore
<1> QED
  BY <1>1, <1>2, <1>3 DEF ThreadsInTurn

LEMMA ThreadsInTurnStep ==
  ASSUME IndAssumption, ThreadsInTurn, [Next]_vars
  PROVE  ThreadsInTurn'
BY TypesStep, ThreadsStep, InTurnStep DEF ThreadsInTurn

(* wifi_indication and worker_thread_main: no handler hears an event after a *)
(* later one, for any number of tasks that write the table meanwhile and any *)
(* length of the worker's queue.                                             *)
THEOREM OrderSpecHolds ==
  ASSUME IndAssumption
  PROVE  Spec => OrderSpec
<1>1. Init => ThreadsInTurn /\ Order!Init
  BY InitThreads DEF Init, Order!Init
<1>2. ThreadsInTurn /\ [Next]_vars => ThreadsInTurn'
  BY ThreadsInTurnStep
<1>3. ThreadsInTurn /\ [Next]_vars => [Order!Next]_<<sent, seen>>
  <2> SUFFICES ASSUME ThreadsInTurn, [Next]_vars PROVE [Order!Next]_<<sent, seen>>
    OBVIOUS
  <2>1. Types /\ InTurn
    BY DEF ThreadsInTurn
  <2>2. CASE Indicate
    BY <2>2 DEF Indicate, Sender, Order!Next, Order!Send
  <2>3. CASE Handle
    <3>1. PICK h \in Handlers : \E n \in 1 .. sent : n >= seen[h] /\ seen' = [seen EXCEPT ![h] = n]
      BY <2>1, <2>3, HandleInTurn
    <3>2. PICK n \in 1 .. sent : n >= seen[h] /\ seen' = [seen EXCEPT ![h] = n]
      BY <3>1
    <3>3. Order!Hear(h, n)
      BY <2>1, <2>3, <3>2, OrderTypes, HandleInTurn DEF Order!Hear
    <3> QED
      BY <3>3 DEF Order!Next
  <2>4. CASE UNCHANGED <<sent, seen>>
    BY <2>4
  <2> QED
    BY <2>1, <2>2, <2>3, <2>4, WriteKeeps
       DEF Next, SenderStep, Look, Call, Load, LoadFails, Push, PushFails, Pop, Sender, vars
<1> QED
  BY <1>1, <1>2, <1>3, PTL DEF Spec, OrderSpec, Order!Spec

-----------------------------------------------------------------------------
(* The copies of event buffers. A copy is named by the event and the row it  *)
(* was made for, and every copy there is was made before the row that the    *)
(* driver's thread is at: so the next one is a new one.                      *)

Behind(b) == b[1] < snd.n \/ (b[1] = snd.n /\ b[2] < snd.i)

Earlier ==
  /\ \A b \in heap : b[1] <= sent
  /\ snd.pc # "idle" => \A b \in heap \ {snd.buf} : Behind(b)

Owned ==
  /\ heap \subseteq Buffers
  /\ snd.buf # None => snd.buf \in heap
  /\ call # None /\ call.buf # None => call.buf \in heap
  /\ \A i \in DOMAIN queue : queue[i].buf # None => queue[i].buf \in heap
  /\ \A b \in heap : \/ b = snd.buf \/ (call # None /\ b = call.buf)
                     \/ \E i \in DOMAIN queue : b = queue[i].buf

Apart ==
  /\ call # None /\ call.buf # None => call.buf # snd.buf
  /\ \A i \in DOMAIN queue : queue[i].buf # None => /\ queue[i].buf # snd.buf
                                                    /\ call # None => queue[i].buf # call.buf
  /\ \A i, j \in DOMAIN queue : i # j /\ queue[i].buf # None => queue[i].buf # queue[j].buf

Copies == Earlier /\ Owned /\ Apart

LEMMA CopyFields ==
  ASSUME IndAssumption, Types
  PROVE  /\ \A b \in heap : b[1] \in Nat /\ b[2] \in Nat
         /\ snd.n \in Nat /\ snd.i \in Nat /\ sent \in Nat
         /\ None \notin heap /\ heap \subseteq Buffers
<1>1. heap \subseteq Buffers /\ \A b \in Buffers : b[1] \in Nat /\ b[2] \in Nat
  BY DEF Types, QueueTypes, Buffers, Rows
<1> QED
  BY <1>1, Constants, SenderFields DEF Types, SenderTypes, Rows

(* What is behind a row is behind those that follow it.                      *)
LEMMA NextEarlier ==
  ASSUME IndAssumption, Types, Earlier, snd' = NextRow \/ snd' = Idle, heap' \subseteq heap, sent' = sent,
         snd.pc # "idle", snd.buf # None => snd.buf = <<snd.n, snd.i>>
  PROVE  Earlier'
<1>1. \A b \in heap' : b[1] <= sent'
  BY DEF Earlier
<1>2. CASE snd' = Idle
  BY <1>1, <1>2, SenderFields DEF Earlier
<1>3. CASE snd'.pc = "look" /\ snd'.i = snd.i + 1 /\ snd'.n = snd.n
  <2>1. ASSUME NEW b \in heap PROVE b[1] < snd'.n \/ (b[1] = snd'.n /\ b[2] < snd'.i)
    BY <1>3, CopyFields DEF Earlier, Behind
  <2> QED
    BY <1>1, <2>1 DEF Earlier, Behind
<1> QED
  BY <1>2, <1>3, NextRowFields DEF Types, SenderTypes

LEMMA LoadCopies ==
  ASSUME IndAssumption, Types, Threads, Copies, Load
  PROVE  Copies'
<1> DEFINE b == IF snd.full THEN <<snd.n, snd.i>> ELSE None
<1>1. /\ heap' = (IF snd.full THEN heap \cup {b} ELSE heap)
      /\ snd' = [snd EXCEPT !.pc = "push", !.fn = handler[snd.i], !.buf = b]
      /\ UNCHANGED <<queue, call, sent>>
  BY DEF Load, Sender
<1>2. snd.pc = "load" /\ snd.buf = None /\ snd.n = sent /\ snd \in Senders
  BY DEF Load, Threads, Types, SenderTypes
<1>3. snd'.buf = b /\ snd'.n = snd.n /\ snd'.i = snd.i
  BY <1>1, <1>2 DEF Senders
<1>4. snd.full => b \in Buffers /\ b[1] = snd.n /\ b[2] = snd.i
  BY <1>2, SenderFields DEF Buffers
<1>5. snd.full => b \notin heap
  BY <1>2, <1>4, CopyFields DEF Copies, Earlier, Behind
<1>6. ~snd.full => b = None /\ heap' = heap
  BY <1>1
<1>7. snd.full => heap' = heap \cup {b}
  BY <1>1
<1> HIDE DEF b
<1>8. Earlier'
  <2>1. \A c \in heap' : c \in heap \/ (snd.full /\ c = b)
    BY <1>6, <1>7
  <2>2. \A c \in heap' : c[1] <= sent'
    BY <1>1, <1>2, <1>4, <2>1, CopyFields DEF Copies, Earlier
  <2>3. ASSUME NEW c \in heap' \ {snd'.buf} PROVE Behind(c)
    <3>1. c \in heap
      BY <1>3, <2>1
    <3>2. c # None
      BY <3>1, CopyFields
    <3> QED
      BY <1>2, <3>1, <3>2 DEF Copies, Earlier
  <2> QED
    BY <1>3, <2>2, <2>3 DEF Earlier, Behind
<1>9. Owned'
  <2>1. heap' \subseteq Buffers /\ heap \subseteq heap' /\ (snd.full => b \in heap')
    BY <1>4, <1>6, <1>7, CopyFields
  <2>2. ASSUME NEW c \in heap'
        PROVE  \/ c = snd'.buf \/ (call' # None /\ c = call'.buf)
               \/ \E i \in DOMAIN queue' : c = queue'[i].buf
    <3>1. CASE c = b
      BY <1>3, <3>1
    <3>2. CASE c \in heap
      BY <1>1, <1>2, <3>2, CopyFields DEF Copies, Owned
    <3> QED
      BY <1>6, <1>7, <3>1, <3>2
  <2> QED
    BY <1>1, <1>3, <1>6, <2>1, <2>2 DEF Copies, Owned
<1>10. Apart'
  <2>1. b # None => b \notin heap
    BY <1>5, <1>6
  <2> QED
    BY <1>1, <1>3, <2>1 DEF Copies, Owned, Apart
<1> QED
  BY <1>8, <1>9, <1>10 DEF Copies

LEMMA PushCopies ==
  ASSUME IndAssumption, Types, Threads, Copies, Push
  PROVE  Copies'
<1> DEFINE l == Len(queue)
<1>1. /\ queue' = Append(queue, Message) /\ snd' = NextRow /\ snd.pc = "push"
      /\ UNCHANGED <<heap, call, sent>>
  BY DEF Push, Sender
<1>2. /\ DOMAIN queue' = 1 .. l + 1 /\ DOMAIN queue = 1 .. l /\ l \in Nat
      /\ queue'[l + 1] = Message /\ \A i \in 1 .. l : queue'[i] = queue[i]
  BY <1>1, Queued, MessageFields, OrderTypes
<1> HIDE DEF l
<1>3. Message.buf = snd.buf
  BY MessageFields
<1>4. snd'.buf = None
  BY <1>1, NextRowFields, SenderFields DEF Types, SenderTypes
<1>5. /\ l + 1 \in DOMAIN queue' /\ queue'[l + 1].buf = snd.buf /\ l + 1 \notin DOMAIN queue
      /\ \A i \in DOMAIN queue' : (i \in DOMAIN queue /\ queue'[i] = queue[i]) \/ i = l + 1
      /\ \A i \in DOMAIN queue : i \in DOMAIN queue' /\ queue'[i] = queue[i]
  BY <1>2, <1>3
<1>6. Earlier'
  BY <1>1, NextEarlier DEF Copies, Threads
<1>7. Owned'
  <2>1. ASSUME NEW c \in heap
        PROVE  (call # None /\ c = call.buf) \/ \E i \in DOMAIN queue' : c = queue'[i].buf
    BY <1>5 DEF Copies, Owned
  <2> QED
    BY <1>1, <1>4, <1>5, <2>1 DEF Copies, Owned
<1>8. Apart'
  <2>1. ASSUME NEW i \in DOMAIN queue', queue'[i].buf # None
        PROVE  queue'[i].buf # snd'.buf /\ (call' # None => queue'[i].buf # call'.buf)
    BY <1>1, <1>4, <1>5, <2>1 DEF Copies, Apart
  <2>2. ASSUME NEW i \in DOMAIN queue', NEW j \in DOMAIN queue', i # j, queue'[i].buf # None
        PROVE  queue'[i].buf # queue'[j].buf
    <3>1. CASE i \in DOMAIN queue /\ j \in DOMAIN queue
      BY <1>5, <2>2, <3>1 DEF Copies, Apart
    <3>2. CASE i = l + 1 /\ j \in DOMAIN queue
      <4>1. queue'[i].buf = snd.buf /\ queue'[j] = queue[j] /\ snd.buf # None
        BY <1>5, <2>2, <3>2
      <4>2. queue[j].buf # None => queue[j].buf # snd.buf
        BY <3>2 DEF Copies, Apart
      <4> QED
        BY <4>1, <4>2
    <3>3. CASE j = l + 1 /\ i \in DOMAIN queue
      BY <1>5, <2>2, <3>3 DEF Copies, Apart
    <3> QED
      BY <1>5, <2>2, <3>1, <3>2, <3>3
  <2> QED
    BY <1>1, <1>4, <2>1, <2>2 DEF Copies, Apart
<1> QED
  BY <1>6, <1>7, <1>8 DEF Copies

LEMMA PushFailsCopies ==
  ASSUME IndAssumption, Types, Threads, Copies, PushFails
  PROVE  Copies'
<1>1. /\ heap' = heap \ {snd.buf} /\ snd' = Idle /\ snd.pc = "push"
      /\ UNCHANGED <<queue, call, sent>>
  BY DEF PushFails, Sender
<1>2. snd'.buf = None
  BY <1>1, SenderFields
<1>3. Earlier'
  BY <1>1, NextEarlier DEF Copies, Threads
<1>4. Owned'
  BY <1>1, <1>2 DEF Copies, Owned, Apart
<1>5. Apart'
  BY <1>1, <1>2 DEF Copies, Apart
<1> QED
  BY <1>3, <1>4, <1>5 DEF Copies

LEMMA PopCopies ==
  ASSUME IndAssumption, Types, Copies, Pop
  PROVE  Copies'
<1> DEFINE l == Len(queue)
<1>1. /\ call = None /\ call' = Head(queue) /\ queue' = Tail(queue) /\ queue # << >>
      /\ UNCHANGED <<snd, heap, sent>>
  BY DEF Pop
<1>2. /\ DOMAIN queue' = 1 .. l - 1 /\ DOMAIN queue = 1 .. l /\ l \in Nat \ {0} /\ call' = queue[1]
      /\ \A i \in 1 .. l - 1 : queue'[i] = queue[i + 1]
  BY <1>1, Unqueued, OrderTypes
<1> HIDE DEF l
<1>3. 1 \in DOMAIN queue /\ \A i \in DOMAIN queue' : i + 1 \in DOMAIN queue /\ i + 1 # 1 /\ queue'[i] = queue[i + 1]
  BY <1>2
<1>4. \A i \in DOMAIN queue : i = 1 \/ (i - 1 \in DOMAIN queue' /\ queue'[i - 1] = queue[i])
  BY <1>2
<1>5. call' # None
  BY <1>2, <1>3, OrderTypes, Constants
<1>6. Earlier'
  BY <1>1 DEF Copies, Earlier, Behind
<1>7. Owned'
  <2>1. ASSUME NEW c \in heap
        PROVE  \/ c = snd.buf \/ c = call'.buf \/ \E i \in DOMAIN queue' : c = queue'[i].buf
    <3>1. c = snd.buf \/ \E i \in DOMAIN queue : c = queue[i].buf
      BY <1>1 DEF Copies, Owned
    <3> QED
      BY <1>2, <1>4, <3>1
  <2> QED
    BY <1>1, <1>2, <1>3, <1>5, <2>1 DEF Copies, Owned
<1>8. Apart'
  <2>1. \A i, j \in DOMAIN queue' : i # j => i + 1 # j + 1
    BY <1>2
  <2> QED
    BY <1>1, <1>2, <1>3, <2>1 DEF Copies, Apart
<1> QED
  BY <1>6, <1>7, <1>8 DEF Copies

LEMMA HandleCopies ==
  ASSUME IndAssumption, Types, Threads, Copies, Handle
  PROVE  Copies'
<1>1. /\ call # None /\ call' = None /\ heap' = heap \ {call.buf}
      /\ snd' = (IF build = "direct" THEN NextRow ELSE snd)
      /\ UNCHANGED <<queue, sent>>
  BY DEF Handle
<1>2. CASE build = "direct"
  <2>1. snd.pc = "in" /\ snd.buf = None /\ snd' = NextRow
    BY <1>1, <1>2 DEF Threads
  <2>2. snd'.buf = None
    BY <2>1, NextRowFields, SenderFields DEF Types, SenderTypes
  <2>3. Earlier'
    BY <1>1, <2>1, NextEarlier DEF Copies
  <2>4. Owned'
    BY <1>1, <2>1, <2>2 DEF Copies, Owned, Apart
  <2>5. Apart'
    BY <1>1, <2>2 DEF Copies, Apart
  <2> QED
    BY <2>3, <2>4, <2>5 DEF Copies
<1>3. CASE build # "direct"
  <2>1. snd' = snd
    BY <1>1, <1>3
  <2>2. Earlier'
    BY <1>1, <2>1 DEF Copies, Earlier, Behind
  <2>3. Owned'
    BY <1>1, <2>1 DEF Copies, Owned, Apart
  <2>4. Apart'
    BY <1>1, <2>1 DEF Copies, Apart
  <2> QED
    BY <2>2, <2>3, <2>4 DEF Copies
<1> QED
  BY <1>2, <1>3

LEMMA CopiesStep ==
  ASSUME IndAssumption, Types, Threads, Copies, [Next]_vars
  PROVE  Copies'
<1>1. CASE UNCHANGED <<snd, queue, call, heap, sent>>
  BY <1>1 DEF Copies, Earlier, Owned, Apart, Behind
<1>2. snd \in Senders
  BY DEF Types, SenderTypes
<1>3. CASE Indicate
  <2>1. snd.pc = "idle" /\ sent' = sent + 1 /\ UNCHANGED <<queue, call, heap>>
    BY <1>3 DEF Indicate
  <2>2. snd'.buf = None /\ snd'.n = sent' /\ snd.buf = None
    BY <1>3, <2>1, SenderFields DEF Indicate, Sender, Threads, Senders, Idle
  <2>3. Earlier'
    BY <2>1, <2>2, CopyFields DEF Copies, Earlier, Behind
  <2> QED
    BY <2>1, <2>2, <2>3 DEF Copies, Owned, Apart
<1>4. CASE Look
  <2>1. snd.pc = "look" /\ snd.buf = None /\ UNCHANGED <<queue, call, heap, sent>>
    BY <1>4 DEF Look, Threads
  <2>2. \/ snd' = NextRow
        \/ snd'.buf = None /\ snd'.n = snd.n /\ snd'.i = snd.i
    BY <1>2, <1>4, <2>1 DEF Look, Sender, Senders
  <2>3. snd'.buf = None
    BY <1>2, <2>2, NextRowFields, SenderFields
  <2>4. Earlier'
    BY <2>1, <2>2, NextEarlier DEF Copies, Earlier, Behind
  <2> QED
    BY <2>1, <2>3, <2>4 DEF Copies, Owned, Apart
<1>5. CASE Call
  <2>1. snd.pc = "call" /\ snd.buf = None /\ call = None /\ queue = << >> /\ UNCHANGED <<queue, heap, sent>>
    BY <1>5 DEF Call, Threads, Types, SenderTypes
  <2>2. snd'.buf = None /\ snd'.n = snd.n /\ snd'.i = snd.i /\ call'.buf = None
    BY <1>2, <1>5, <2>1 DEF Call, Sender, Senders
  <2> QED
    BY <2>1, <2>2 DEF Copies, Earlier, Owned, Apart, Behind
<1>6. CASE LoadFails
  <2>1. snd.pc = "load" /\ snd.buf = None /\ snd' = Idle /\ UNCHANGED <<queue, call, heap, sent>>
    BY <1>6 DEF LoadFails, Sender, Threads
  <2> QED
    BY <2>1, SenderFields DEF Copies, Earlier, Owned, Apart
<1> QED
  BY <1>1, <1>3, <1>4, <1>5, <1>6, WriteKeeps, LoadCopies, PushCopies, PushFailsCopies, PopCopies, HandleCopies
     DEF Next, SenderStep, vars

(* What is said of places in the queue, said of the messages in it.          *)
LEMMA OwnersAreOne ==
  ASSUME IndAssumption, Types, Owned, Apart
  PROVE  BuffersOwned
<1>1. \A m \in Made : (call # None /\ m = call) \/ \E i \in DOMAIN queue : m = queue[i]
  BY DEF Made, Range
<1>2. /\ call # None => call \in Made
      /\ \A i \in DOMAIN queue : queue[i] \in Made
  BY DEF Made, Range
<1>3. heap = ({m.buf : m \in Made} \cup {snd.buf}) \ {None}
  <2>1. ASSUME NEW b \in heap PROVE b # None /\ b \in {m.buf : m \in Made} \cup {snd.buf}
    BY <1>2, CopyFields DEF Owned
  <2>2. ASSUME NEW m \in Made, m.buf # None PROVE m.buf \in heap
    BY <1>1, <2>2 DEF Owned
  <2> QED
    BY <2>1, <2>2 DEF Owned
<1>4. \A m \in Made : m.buf # None => m.buf # snd.buf
  BY <1>1 DEF Apart
<1>5. ASSUME NEW m \in Made, NEW k \in Made, m # k, m.buf # None PROVE m.buf # k.buf
  <2>1. CASE call # None /\ m = call
    <3>1. PICK i \in DOMAIN queue : k = queue[i]
      BY <1>1, <1>5, <2>1
    <3> QED
      BY <1>5, <2>1, <3>1 DEF Apart
  <2>2. CASE \E i \in DOMAIN queue : m = queue[i]
    <3>1. PICK i \in DOMAIN queue : m = queue[i]
      BY <2>2
    <3>2. CASE call # None /\ k = call
      BY <1>5, <3>1, <3>2 DEF Apart
    <3>3. CASE \E j \in DOMAIN queue : k = queue[j]
      BY <1>5, <3>1, <3>3 DEF Apart
    <3> QED
      BY <1>1, <3>2, <3>3
  <2> QED
    BY <1>1, <2>1, <2>2
<1> QED
  BY <1>3, <1>4, <1>5 DEF BuffersOwned

(* rtw_send_event_to_worker and worker_thread_main: every copy of an event's *)
(* buffer has exactly one owner, for any length of the queue and any faults. *)
THEOREM BuffersOwnedHolds ==
  ASSUME IndAssumption
  PROVE  Spec => []BuffersOwned
<1>1. Init => Types /\ Threads /\ Copies
  <2>1. ASSUME Init PROVE Copies
    BY <2>1, SenderFields DEF Init, Copies, Earlier, Owned, Apart
  <2> QED
    BY <2>1, InitThreads DEF ThreadsInTurn
<1>2. (Types /\ Threads /\ Copies) /\ [Next]_vars => (Types /\ Threads /\ Copies)'
  BY TypesStep, ThreadsStep, CopiesStep
<1>3. Types /\ Threads /\ Copies => BuffersOwned
  BY OwnersAreOne DEF Copies
<1> QED
  BY <1>1, <1>2, <1>3, PTL DEF Spec

-----------------------------------------------------------------------------
(* The table, as long as no two updates overlap: at most one task is inside  *)
(* wifi_reg_event_handler or wifi_unreg_event_handler, its row is as its     *)
(* last statement left it, and handler and user_data agree in the others.    *)

RowHalf(pc, h, i) ==
  \/ /\ pc = "setHandler" /\ handler[i] = None /\ data[i] = None
     /\ RowsOf(None) # {} /\ i = Min(RowsOf(None)) /\ RowsOf(h) = {}
  \/ pc = "setData" /\ handler[i] = h /\ data[i] = None
  \/ /\ pc = "clearHandler" /\ handler[i] = h /\ data[i] = h
     /\ RowsOf(h) # {} /\ i = Min(RowsOf(h))
  \/ pc = "clearData" /\ handler[i] = None /\ data[i] = h

InHand(w) ==
  /\ \A v \in Writers \ {w} : op[v].pc = "idle"
  /\ op[w].h \in Handlers
  /\ \A j \in Rows \ {op[w].i} : data[j] = handler[j]
  /\ RowHalf(op[w].pc, op[w].h, op[w].i)

Quiet == (\A v \in Writers : op[v].pc = "idle") /\ data = handler

OneUpdate == ~raced => Quiet \/ \E w \in Writers : InHand(w)

LEMMA TableFields ==
  ASSUME IndAssumption, Types
  PROVE  /\ handler \in [Rows -> Maybe(Handlers)] /\ data \in [Rows -> Maybe(Handlers)]
         /\ op \in [Writers -> Ops]
         /\ None \notin Handlers /\ \A w \in Writers : op[w].i \in Rows
BY Constants, OpFields DEF Types, TableTypes, WriterTypes

(* Whoever begins while nobody is inside finds whole rows.                   *)
LEMMA BeginOne ==
  ASSUME IndAssumption, Types, OneUpdate, ~raced', NEW w \in Writers, NEW pc \in OpPcs, NEW h \in Handlers,
         NEW i \in Rows, Begin(w, pc, h, i),
         \/ pc = "setHandler" /\ RowsOf(None) # {} /\ RowsOf(h) = {} /\ i = Min(RowsOf(None))
         \/ pc = "clearHandler" /\ RowsOf(h) # {} /\ i = Min(RowsOf(h))
  PROVE  InHand(w)'
<1>1. op[w].pc = "idle" /\ ~raced /\ \A v \in Writers \ {w} : op[v].pc = "idle"
  BY DEF Begin, Busy
<1>2. data = handler
  BY <1>1 DEF OneUpdate, Quiet, InHand, RowHalf
<1>3. /\ op'[w].pc = pc /\ op'[w].h = h /\ op'[w].i = i /\ \A v \in Writers \ {w} : op'[v] = op[v]
      /\ handler' = handler /\ data' = data
  BY BeginFields DEF tableVars
<1>4. RowsOf(None)' = RowsOf(None) /\ RowsOf(h)' = RowsOf(h)
  BY <1>3 DEF RowsOf
<1>5. RowHalf(pc, h, i)'
  BY <1>2, <1>3, <1>4, FirstRow DEF RowHalf
<1>6. RowHalf(op[w].pc, op[w].h, op[w].i)'
  BY <1>3, <1>5 DEF RowHalf, RowsOf
<1> QED
  BY <1>1, <1>2, <1>3, <1>6 DEF InHand

(* A statement of the one that is inside.                                    *)
LEMMA StoreOne ==
  ASSUME IndAssumption, Types, OneUpdate, ~raced', NEW w \in Writers,
         StoreHandler(w) \/ StoreData(w) \/ ClearHandler(w) \/ ClearData(w)
  PROVE  /\ InHand(w)
         /\ Quiet' \/ InHand(w)'
<1>1. op[w].pc # "idle" /\ raced' = raced
  BY DEF StoreHandler, StoreData, ClearHandler, ClearData, Then
<1>2. InHand(w)
  BY <1>1 DEF OneUpdate, Quiet, InHand
<1>3. CASE StoreHandler(w) \/ ClearHandler(w)
  <2>1. PICK x \in {"setData", "clearData"} :
          /\ x = "setData" => op[w].pc = "setHandler" /\ SetHandler(op[w].i, op[w].h)
          /\ x = "clearData" => op[w].pc = "clearHandler" /\ SetHandler(op[w].i, None)
          /\ Then(w, x) /\ UNCHANGED data
    BY <1>3 DEF StoreHandler, ClearHandler
  <2>2. /\ op'[w].pc = x /\ op'[w].h = op[w].h /\ op'[w].i = op[w].i
        /\ \A v \in Writers \ {w} : op'[v] = op[v]
    BY <2>1, ThenFields DEF OpPcs
  <2>3. /\ x = "setData" => handler'[op[w].i] = op[w].h
        /\ x = "clearData" => handler'[op[w].i] = None
        /\ \A j \in Rows \ {op[w].i} : handler'[j] = handler[j]
        /\ data' = data
    BY <2>1, TableFields DEF SetHandler
  <2>4. data[op[w].i] = IF x = "setData" THEN None ELSE op[w].h
    BY <1>2, <2>1 DEF InHand, RowHalf
  <2>5. RowHalf(op[w].pc, op[w].h, op[w].i)'
    BY <2>2, <2>3, <2>4 DEF RowHalf
  <2> QED
    BY <1>2, <2>2, <2>3, <2>5 DEF InHand
<1>4. CASE StoreData(w) \/ ClearData(w)
  <2>1. Then(w, "idle") /\ handler' = handler
    BY <1>4 DEF StoreData, ClearData
  <2>2. op'[w].pc = "idle" /\ \A v \in Writers \ {w} : op'[v] = op[v]
    BY <2>1, ThenFields DEF OpPcs
  <2>3. handler[op[w].i] = IF StoreData(w) THEN op[w].h ELSE None
    BY <1>2, <1>4 DEF InHand, RowHalf, StoreData, ClearData
  <2>4. data' = [data EXCEPT ![op[w].i] = handler[op[w].i]]
    BY <1>4, <2>3 DEF StoreData, ClearData, SetData
  <2>5. data' = handler
    BY <1>2, <2>4, TableFields DEF InHand
  <2> QED
    BY <1>2, <2>1, <2>2, <2>5 DEF Quiet, InHand
<1> QED
  BY <1>2, <1>3, <1>4

LEMMA SameOne ==
  ASSUME OneUpdate, ~raced', UNCHANGED <<op, raced, handler, data>>
  PROVE  \/ Quiet'
         \/ \E w \in Writers : InHand(w)'
<1>1. ASSUME NEW w \in Writers, InHand(w) PROVE InHand(w)'
  <2>1. RowsOf(None)' = RowsOf(None) /\ RowsOf(op[w].h)' = RowsOf(op[w].h)
    BY DEF RowsOf
  <2> QED
    BY <1>1, <2>1 DEF InHand, RowHalf
<1> QED
  BY <1>1 DEF OneUpdate, Quiet

LEMMA LeavesOne ==
  ASSUME IndAssumption, Types, OneUpdate, ~raced', NEW h \in Handlers, Leaves(h), op' = op
  PROVE  \/ Quiet'
         \/ \E w \in Writers : InHand(w)'
<1>1. CASE h \in OneShot /\ RowsOf(h) # {}
  <2>1. PICK i \in Rows : handler' = [handler EXCEPT ![i] = None] /\ data' = [data EXCEPT ![i] = None]
    BY <1>1, FirstRow DEF Leaves
  <2>2. ~raced /\ \A w \in Writers : op[w].pc = "idle"
    BY <1>1 DEF Leaves, Busy
  <2>3. data = handler
    BY <2>2 DEF OneUpdate, Quiet, InHand, RowHalf
  <2> QED
    BY <2>1, <2>2, <2>3 DEF Quiet
<1>2. CASE ~(h \in OneShot /\ RowsOf(h) # {})
  BY <1>2, SameOne DEF Leaves, tableVars
<1> QED
  BY <1>1, <1>2

LEMMA OneUpdateStep ==
  ASSUME IndAssumption, Types, OneUpdate, [Next]_vars
  PROVE  OneUpdate'
<1> SUFFICES ASSUME ~raced' PROVE Quiet' \/ \E w \in Writers : InHand(w)'
  BY DEF OneUpdate
<1>1. CASE UNCHANGED <<op, raced, handler, data>>
  BY <1>1, SameOne
<1>2. ASSUME NEW w \in Writers, Write(w) PROVE Quiet' \/ InHand(w)'
  <2>1. ASSUME NEW h \in Uses[w], Register(w, h) PROVE InHand(w)'
    BY <2>1, BeginOne, FirstRow DEF Register, OpPcs, IndAssumption
  <2>2. ASSUME NEW h \in Uses[w], Unregister(w, h) PROVE InHand(w)'
    BY <2>2, BeginOne, FirstRow DEF Unregister, OpPcs, IndAssumption
  <2> QED
    BY <1>2, <2>1, <2>2, StoreOne DEF Write
<1>3. CASE Handle
  BY <1>3, LeavesOne, CallFields DEF Handle, Maybe
<1> QED
  BY <1>1, <1>2, <1>3
     DEF Next, SenderStep, Indicate, Look, Call, Load, LoadFails, Push, PushFails, Pop, Sender, tableVars, vars

(* What the table says of the handlers is what whole calls have made it.     *)
LEMMA StepIsWhole ==
  ASSUME IndAssumption, Types, OneUpdate, [Next]_vars, ~raced', handler' # handler
  PROVE  \E h \in Handlers :
           AsTable(handler') \in {Table!Reg(AsTable(handler), "event", h),
                                  Table!Unreg(AsTable(handler), "event", h)}
<1>1. /\ \A h : Table!RowsOf(AsTable(handler), "event", h) = RowsOf(h)
      /\ Table!FreeRows(AsTable(handler), "event") = RowsOf(None)
  BY DEF Table!RowsOf, Table!FreeRows, Table!Rows, AsTable, RowsOf, Rows
<1>2. \A S : Table!Min(S) = Min(S)
  BY DEF Table!Min, Min
<1>3. \A i, h : [AsTable(handler) EXCEPT !["event"][i] = h] = AsTable([handler EXCEPT ![i] = h])
  BY DEF AsTable
<1>4. ASSUME NEW h \in Handlers, RowsOf(None) # {}, RowsOf(h) = {},
             handler' = [handler EXCEPT ![Min(RowsOf(None))] = h]
      PROVE  AsTable(handler') = Table!Reg(AsTable(handler), "event", h)
  BY <1>1, <1>2, <1>3, <1>4 DEF Table!Reg, Table!IsRegistered
<1>5. ASSUME NEW h \in Handlers, RowsOf(h) # {},
             handler' = [handler EXCEPT ![Min(RowsOf(h))] = None]
      PROVE  AsTable(handler') = Table!Unreg(AsTable(handler), "event", h)
  BY <1>1, <1>2, <1>3, <1>5 DEF Table!Unreg, Table!IsRegistered
<1>6. ASSUME NEW w \in Writers, StoreHandler(w)
      PROVE  \E h \in Handlers : AsTable(handler') = Table!Reg(AsTable(handler), "event", h)
  <2>1. InHand(w)
    BY <1>6, StoreOne
  <2> QED
    BY <1>4, <1>6, <2>1 DEF StoreHandler, SetHandler, InHand, RowHalf
<1>7. ASSUME NEW w \in Writers, ClearHandler(w)
      PROVE  \E h \in Handlers : AsTable(handler') = Table!Unreg(AsTable(handler), "event", h)
  <2>1. InHand(w)
    BY <1>7, StoreOne
  <2> QED
    BY <1>5, <1>7, <2>1 DEF ClearHandler, SetHandler, InHand, RowHalf
<1>8. CASE Handle
  <2>1. call.fn \in Handlers /\ Leaves(call.fn)
    BY <1>8, CallFields DEF Handle, Maybe
  <2> QED
    BY <1>5, <2>1 DEF Leaves, tableVars
<1> QED
  BY <1>6, <1>7, <1>8
     DEF Next, SenderStep, Indicate, Look, Call, Load, LoadFails, Push, PushFails, Pop, Sender, tableVars, vars,
         Write, Register, Unregister, Begin, StoreData, ClearData

LEMMA InitOne ==
  ASSUME IndAssumption, Init
  PROVE  Quiet /\ OneUpdate
BY DEF Init, OneUpdate, Quiet, NoOp

(* wifi_reg_event_handler and wifi_unreg_event_handler: without two updates  *)
(* at once, every change of the table is one whole call, for any number of   *)
(* tasks, handlers and rows.                                                 *)
THEOREM TableAtomicHolds ==
  ASSUME IndAssumption
  PROVE  Spec => TableAtomic
<1>1. Init => Types /\ OneUpdate
  BY InitTypes, InitOne
<1>2. (Types /\ OneUpdate) /\ [Next]_vars => (Types /\ OneUpdate)'
  BY TypesStep, OneUpdateStep
<1>3. (Types /\ OneUpdate) /\ [Next]_vars =>
        [ raced' \/ handler' = handler
          \/ \E h \in Handlers :
               AsTable(handler') \in {Table!Reg(AsTable(handler), "event", h),
                                      Table!Unreg(AsTable(handler), "event", h)} ]_vars
  BY StepIsWhole
<1> QED
  BY <1>1, <1>2, <1>3, PTL DEF Spec, TableAtomic

-----------------------------------------------------------------------------
(* The row that the driver's thread is reading: unless somebody has written  *)
(* it meanwhile, it still has the handler that was tested for NULL.          *)

RowRead ==
  /\ snd.pc \in {"load", "push", "call"} => handler[snd.i] # None
  /\ snd.pc \in {"push", "call"} => snd.fn = handler[snd.i]

Own(m) == m.fn # None /\ m.d \in {m.fn, None}

CallsOwn ==
  ~raced /\ ~torn =>
    /\ RowRead
    /\ call # None => Own(call)
    /\ \A i \in DOMAIN queue : Own(queue[i])

(* What a row that is read has, its user_data is.                            *)
LEMMA RowIsOwn ==
  ASSUME IndAssumption, Types, OneUpdate, ~raced, handler[snd.i] # None
  PROVE  data[snd.i] \in {handler[snd.i], None}
<1>1. snd.i \in Rows
  BY SenderFields DEF Types, SenderTypes
<1>2. ASSUME NEW w \in Writers, InHand(w) PROVE data[snd.i] \in {handler[snd.i], None}
  BY <1>1, <1>2 DEF InHand, RowHalf
<1> QED
  BY <1>2 DEF OneUpdate, Quiet

LEMMA WriteOwn ==
  ASSUME IndAssumption, Types, CallsOwn, ~raced', ~torn', NEW w \in Writers, Write(w)
  PROVE  ~raced /\ ~torn /\ RowRead'
<1>1. UNCHANGED snd /\ snd.i \in Rows
  BY WriteKeeps, SenderFields DEF Types, SenderTypes
<1>2. ASSUME NEW i \in Rows, NEW h, SetHandler(i, h) PROVE ~torn /\ (RowRead => RowRead')
  <2>1. ~torn /\ ~Reads(i) /\ \A j \in Rows \ {i} : handler'[j] = handler[j]
    BY <1>2, TableFields DEF SetHandler
  <2> QED
    BY <1>1, <2>1 DEF Reads, RowRead
<1>3. CASE StoreHandler(w) \/ ClearHandler(w)
  <2>1. \E h : SetHandler(op[w].i, h) /\ raced' = raced
    BY <1>3 DEF StoreHandler, ClearHandler, Then
  <2> QED
    BY <1>2, <2>1, TableFields DEF CallsOwn
<1>4. CASE StoreData(w) \/ ClearData(w)
  <2>1. UNCHANGED <<handler, raced>> /\ ~torn
    BY <1>4 DEF StoreData, ClearData, SetData, Then
  <2> QED
    BY <1>1, <2>1 DEF CallsOwn, RowRead
<1>5. ASSUME NEW h \in Uses[w], Register(w, h) \/ Unregister(w, h) PROVE ~raced /\ ~torn /\ RowRead'
  <2>1. UNCHANGED <<handler, torn>> /\ ~raced
    BY <1>5 DEF Register, Unregister, Begin, tableVars
  <2> QED
    BY <1>1, <2>1 DEF CallsOwn, RowRead
<1> QED
  BY <1>3, <1>4, <1>5 DEF Write

LEMMA HandleOwn ==
  ASSUME IndAssumption, Types, Threads, CallsOwn, ~raced', ~torn', Handle
  PROVE  ~raced /\ ~torn /\ RowRead'
<1>1. call.fn \in Handlers /\ Leaves(call.fn) /\ snd.i \in Rows
  BY CallFields, SenderFields DEF Handle, Maybe, Types, SenderTypes
<1>2. ~raced /\ ~torn
  BY <1>1 DEF Leaves, tableVars
<1>3. CASE build = "direct"
  <2>1. snd' = NextRow
    BY <1>3 DEF Handle
  <2> QED
    BY <1>2, <2>1, NextRowFields, SenderFields DEF RowRead, Types, SenderTypes
<1>4. CASE build # "direct"
  <2>1. snd' = snd
    BY <1>4 DEF Handle
  <2>2. CASE call.fn \in OneShot /\ RowsOf(call.fn) # {}
    <3>1. PICK i \in Rows : handler' = [handler EXCEPT ![i] = None] /\ ~Reads(i)
      BY <1>1, <2>2, FirstRow DEF Leaves
    <3> QED
      BY <1>1, <1>2, <2>1, <3>1, TableFields DEF Reads, RowRead, CallsOwn
  <2>3. CASE ~(call.fn \in OneShot /\ RowsOf(call.fn) # {})
    BY <1>1, <1>2, <2>1, <2>3 DEF Leaves, tableVars, RowRead, CallsOwn
  <2> QED
    BY <2>2, <2>3
<1> QED
  BY <1>2, <1>3, <1>4

LEMMA PushOwn ==
  ASSUME IndAssumption, Types, OneUpdate, ~raced, RowRead, Push,
         \A i \in DOMAIN queue : Own(queue[i])
  PROVE  \A i \in DOMAIN queue' : Own(queue'[i])
<1> DEFINE l == Len(queue)
<1>1. queue' = Append(queue, Message) /\ snd.pc = "push"
  BY DEF Push
<1>2. Message.fn = snd.fn /\ Message.d = data[snd.i]
  BY MessageFields
<1>3. Own(Message)
  BY <1>1, <1>2, RowIsOwn DEF RowRead, Own
<1>4. /\ DOMAIN queue' = 1 .. l + 1 /\ DOMAIN queue = 1 .. l /\ l \in Nat
      /\ queue'[l + 1] = Message /\ \A i \in 1 .. l : queue'[i] = queue[i]
  BY <1>1, Queued, MessageFields, OrderTypes
<1> HIDE DEF l
<1>5. \A i \in DOMAIN queue' : queue'[i] = Message \/ (i \in DOMAIN queue /\ queue'[i] = queue[i])
  BY <1>4
<1> QED
  BY <1>3, <1>5 DEF Own

LEMMA PopOwn ==
  ASSUME IndAssumption, Types, Pop, \A i \in DOMAIN queue : Own(queue[i])
  PROVE  Own(call)' /\ \A i \in DOMAIN queue' : Own(queue'[i])
<1> DEFINE l == Len(queue)
<1>1. call' = Head(queue) /\ queue' = Tail(queue) /\ queue # << >>
  BY DEF Pop
<1>2. /\ DOMAIN queue' = 1 .. l - 1 /\ DOMAIN queue = 1 .. l /\ l \in Nat \ {0} /\ call' = queue[1]
      /\ \A i \in 1 .. l - 1 : queue'[i] = queue[i + 1]
  BY <1>1, Unqueued, OrderTypes
<1> HIDE DEF l
<1>3. 1 \in DOMAIN queue /\ \A i \in DOMAIN queue' : i + 1 \in DOMAIN queue /\ queue'[i] = queue[i + 1]
  BY <1>2
<1> QED
  BY <1>2, <1>3 DEF Own

LEMMA CallsOwnStep ==
  ASSUME IndAssumption, Types, Threads, OneUpdate, CallsOwn, [Next]_vars
  PROVE  CallsOwn'
<1> SUFFICES ASSUME ~raced', ~torn'
             PROVE  RowRead' /\ (call # None => Own(call))' /\ \A i \in DOMAIN queue' : Own(queue'[i])
  BY DEF CallsOwn, Own
<1>1. ASSUME NEW w \in Writers, Write(w)
      PROVE  RowRead' /\ (call # None => Own(call))' /\ \A i \in DOMAIN queue' : Own(queue'[i])
  BY <1>1, WriteOwn, WriteKeeps DEF CallsOwn, Own
<1>2. CASE Handle
  BY <1>2, HandleOwn DEF CallsOwn, Handle, Own
<1>3. CASE UNCHANGED <<raced, torn>> /\ UNCHANGED <<handler, data>>
  <2>1. RowRead /\ (call # None => Own(call)) /\ \A i \in DOMAIN queue : Own(queue[i])
    BY <1>3 DEF CallsOwn
  <2>2. snd \in Senders
    BY DEF Types, SenderTypes
  <2>3. CASE UNCHANGED <<queue, call>> /\ snd'.pc \in {"idle", "look", "in"}
    BY <2>1, <2>3 DEF RowRead, Own
  <2>4. CASE UNCHANGED <<queue, call, snd>>
    BY <1>3, <2>1, <2>4 DEF RowRead, Own
  <2>5. CASE Look
    <3>1. UNCHANGED <<queue, call>>
      BY <2>5 DEF Look
    <3>2. \/ snd' = NextRow
          \/ /\ snd'.i = snd.i /\ handler[snd.i] # None
             /\ snd'.pc = "load" \/ (snd'.pc = "call" /\ snd'.fn = handler[snd.i])
      BY <2>2, <2>5 DEF Look, Sender, Senders
    <3>3. RowRead'
      BY <1>3, <2>2, <3>2, NextRowFields, SenderFields DEF RowRead
    <3> QED
      BY <2>1, <3>1, <3>3 DEF Own
  <2>6. CASE Call
    <3>1. snd.pc = "call" /\ snd'.pc = "in" /\ UNCHANGED queue /\ call'.fn = snd.fn /\ call'.d = data[snd.i]
      BY <2>2, <2>6 DEF Call, Sender, Senders
    <3>2. Own(call)'
      BY <1>3, <2>1, <3>1, RowIsOwn DEF RowRead, Own
    <3> QED
      BY <2>1, <3>1, <3>2 DEF RowRead, Own
  <2>7. CASE Load
    <3>1. /\ snd.pc = "load" /\ UNCHANGED <<queue, call>>
          /\ snd'.pc = "push" /\ snd'.i = snd.i /\ snd'.fn = handler[snd.i]
      BY <2>2, <2>7 DEF Load, Sender, Senders
    <3> QED
      BY <1>3, <2>1, <3>1 DEF RowRead, Own
  <2>8. CASE Push
    <3>1. UNCHANGED call /\ snd'.pc \in {"idle", "look"}
      BY <2>2, <2>8, NextRowFields, SenderFields DEF Push, Sender
    <3>2. \A i \in DOMAIN queue' : Own(queue'[i])
      BY <1>3, <2>1, <2>8, PushOwn
    <3> QED
      BY <2>1, <3>1, <3>2 DEF RowRead, Own
  <2>9. CASE Pop
    <3>1. UNCHANGED <<snd, handler>>
      BY <2>9 DEF Pop, tableVars
    <3> QED
      BY <2>1, <2>9, <3>1, PopOwn DEF RowRead
  <2>10. CASE Indicate \/ LoadFails \/ PushFails
    BY <2>3, <2>10, SenderFields DEF Indicate, LoadFails, PushFails, Sender, Senders
  <2> QED
    BY <1>1, <1>2, <2>4, <2>5, <2>6, <2>7, <2>8, <2>9, <2>10 DEF Next, SenderStep, vars
<1> QED
  BY <1>1, <1>2, <1>3
     DEF Next, SenderStep, Indicate, Look, Call, Load, LoadFails, Push, PushFails, Pop, Sender, tableVars, vars

(* rtw_indicate_event_handle and rtw_send_event_to_worker: a handler is      *)
(* called with its own user_data or NULL, and never through NULL, as long as *)
(* no two updates overlap and none overtakes the row that is being read.     *)
THEOREM OwnDataHolds ==
  ASSUME IndAssumption
  PROVE  Spec => []OwnData
<1>1. Init => Types /\ Threads /\ OneUpdate /\ CallsOwn
  <2>1. ASSUME Init PROVE CallsOwn
    BY <2>1, SenderFields DEF Init, CallsOwn, RowRead
  <2> QED
    BY <2>1, InitThreads, InitOne DEF ThreadsInTurn
<1>2. (Types /\ Threads /\ OneUpdate /\ CallsOwn) /\ [Next]_vars => (Types /\ Threads /\ OneUpdate /\ CallsOwn)'
  BY TypesStep, ThreadsStep, OneUpdateStep, CallsOwnStep
<1>3. CallsOwn => OwnData
  BY DEF CallsOwn, OwnData, Made, Range, Own
<1> QED
  BY <1>1, <1>2, <1>3, PTL DEF Spec

-----------------------------------------------------------------------------
(* A handler that nobody takes away. Its row stays its own, whatever is done *)
(* to the others; so the driver's thread has it in the message of that row   *)
(* and of no other, and the messages that wait for it are the events from    *)
(* the one after the last it heard to the last one that has passed its row.  *)

Safe(h, r) ==
  /\ RowsOf(h) = {r}
  /\ \A w \in Writers : op[w].pc # "idle" => op[w].i # r /\ op[w].h # h

Aimed(h, r) ==
  /\ snd.pc \in {"push", "call"} => (snd.fn = h <=> snd.i = r)
  /\ build = "direct" /\ call # None => (call.fn = h <=> snd.i = r) /\ call.n = snd.n

Reached(r) ==
  IF snd.pc = "idle" \/ snd.i > r \/ (snd.pc = "in" /\ snd.i = r) THEN sent ELSE sent - 1

Calling(h, n) == call # None /\ call.fn = h /\ call.n = n
Awaited(h, n) == \E i \in DOMAIN queue : queue[i].fn = h /\ queue[i].n = n

Gapless(h, r) ==
  /\ seen[h] <= Reached(r)
  /\ \A n \in Nat : Calling(h, n) \/ Awaited(h, n) <=> seen[h] < n /\ n <= Reached(r)

Once(h) ==
  /\ \A i, j \in DOMAIN queue : i < j /\ queue[i].fn = h /\ queue[j].fn = h => queue[i].n < queue[j].n
  /\ call # None /\ call.fn = h => \A i \in DOMAIN queue : queue[i].fn = h => call.n < queue[i].n

Followed(h, r) == Safe(h, r) /\ Aimed(h, r) /\ (missed \/ (Gapless(h, r) /\ Once(h)))

LEMMA StartRows ==
  ASSUME IndAssumption
  PROVE  Start \in Injection(Resident, Rows)
<1> DEFINE k == Cardinality(Resident)
<1>1. k \in Nat /\ k <= MaxRow /\ MaxRow \in Nat \ {0} /\ ExistsBijection(1 .. k, Resident)
  BY FS_CardinalityType, Constants DEF IndAssumption
<1> HIDE DEF k
<1>2. PICK g \in Bijection(1 .. k, Resident) : TRUE
  BY <1>1 DEF ExistsBijection
<1>3. /\ g \in [1 .. k -> Resident] /\ \A h \in Resident : \E i \in 1 .. k : g[i] = h
  BY <1>2 DEF Bijection, Injection, Surjection, IsInjective
<1> DEFINE place(h) == CHOOSE i \in 1 .. k : g[i] = h
           f == [h \in Resident |-> MaxRow - k + place(h)]
<1>4. \A h \in Resident : place(h) \in 1 .. k /\ g[place(h)] = h
  BY <1>3
<1> HIDE DEF place
<1>5. \A h \in Resident : f[h] \in 1 .. MaxRow /\ f[h] > MaxRow - k /\ f[h] - (MaxRow - k) = place(h)
  BY <1>1, <1>4
<1>6. f \in [Resident -> Rows]
  BY <1>5 DEF Rows
<1>7. \A a, b \in Resident : f[a] = f[b] => a = b
  BY <1>4, <1>5
<1> HIDE DEF f
<1>8. f \in Injection(Resident, Rows) /\ \A h \in Resident : f[h] > MaxRow - Cardinality(Resident)
  BY <1>5, <1>6, <1>7 DEF Injection, IsInjective, k
<1> QED
  BY <1>8 DEF Start

LEMMA InitFollowed ==
  ASSUME IndAssumption, Init, NEW h \in Resident
  PROVE  \E r \in Rows : Followed(h, r)
<1> DEFINE r == Start[h]
<1>1. /\ Start \in [Resident -> Rows] /\ \A a, b \in Resident : Start[a] = Start[b] => a = b
  BY StartRows DEF Injection, IsInjective
<1>2. r \in Rows /\ h # None
  BY <1>1, Constants DEF IndAssumption
<1>3. ASSUME NEW i \in Rows PROVE handler[i] = h <=> i = r
  <2>1. handler[i] = AtRow(Start, i)
    BY DEF Init
  <2>2. CASE \E a \in Resident : Start[a] = i
    <3>1. PICK a \in Resident : Start[a] = i /\ handler[i] = a
      BY <2>1, <2>2 DEF AtRow
    <3> QED
      BY <1>1, <3>1
  <2>3. CASE ~ \E a \in Resident : Start[a] = i
    <3>1. handler[i] = None
      BY <2>1, <2>3 DEF AtRow
    <3> QED
      BY <1>2, <2>3, <3>1
  <2> QED
    BY <2>2, <2>3
<1> HIDE DEF r
<1>4. Safe(h, r)
  BY <1>2, <1>3 DEF Safe, RowsOf, Init, NoOp
<1>5. Aimed(h, r)
  BY DEF Aimed, Init, Idle
<1>6. Reached(r) = 0 /\ seen[h] = 0 /\ queue = << >> /\ call = None
  BY DEF Reached, Init, Idle, IndAssumption
<1>7. Gapless(h, r) /\ Once(h)
  BY <1>6 DEF Gapless, Once, Calling, Awaited
<1> QED
  BY <1>2, <1>4, <1>5, <1>7 DEF Followed

(* The tasks and one-shot handlers write rows that are free or that hold     *)
(* another handler.                                                          *)
LEMMA SafeStep ==
  ASSUME IndAssumption, Types, [Next]_vars, NEW h \in Resident, NEW r \in Rows, Safe(h, r)
  PROVE  Safe(h, r)'
<1>1. /\ h \in Handlers /\ h # None /\ handler[r] = h /\ \A i \in Rows : handler[i] = h => i = r
      /\ handler \in [Rows -> Maybe(Handlers)]
  BY Constants, TableFields DEF IndAssumption, Safe, RowsOf
<1>2. CASE UNCHANGED <<handler, op>>
  BY <1>2 DEF Safe, RowsOf
<1>3. ASSUME NEW w \in Writers, NEW k \in Uses[w], Register(w, k) \/ Unregister(w, k)
      PROVE  Safe(h, r)'
  <2>1. k \in Handlers /\ k # h /\ k # None
    BY <1>1, <1>3, Constants DEF IndAssumption
  <2>2. PICK pc \in OpPcs, i \in Rows : Begin(w, pc, k, i) /\ handler[i] # h
    BY <1>1, <1>3, <2>1, FirstRow DEF Register, Unregister, OpPcs
  <2>3. /\ op'[w].i = i /\ op'[w].h = k /\ \A v \in Writers \ {w} : op'[v] = op[v]
        /\ handler' = handler
    BY <2>1, <2>2, BeginFields DEF tableVars
  <2> QED
    BY <1>1, <2>1, <2>2, <2>3 DEF Safe, RowsOf
<1>4. ASSUME NEW w \in Writers, StoreHandler(w) \/ StoreData(w) \/ ClearHandler(w) \/ ClearData(w)
      PROVE  Safe(h, r)'
  <2>1. op[w].pc # "idle" /\ op[w].i \in Rows /\ op[w].i # r /\ op[w].h # h
    BY <1>4, TableFields DEF StoreHandler, StoreData, ClearHandler, ClearData, Safe
  <2>2. PICK pc \in OpPcs : Then(w, pc)
    BY <1>4 DEF StoreHandler, StoreData, ClearHandler, ClearData, OpPcs
  <2>3. /\ op'[w].pc = pc /\ (pc # "idle" => op'[w].h = op[w].h /\ op'[w].i = op[w].i)
        /\ \A v \in Writers \ {w} : op'[v] = op[v]
    BY <2>2, ThenFields
  <2>4. \/ handler' = handler
        \/ handler' = [handler EXCEPT ![op[w].i] = op[w].h]
        \/ handler' = [handler EXCEPT ![op[w].i] = None]
    BY <1>4 DEF StoreHandler, StoreData, ClearHandler, ClearData, SetHandler, SetData
  <2>5. \A i \in Rows : handler'[i] = h <=> i = r
    BY <1>1, <2>1, <2>4
  <2> QED
    BY <2>1, <2>3, <2>5 DEF Safe, RowsOf
<1>5. CASE Handle
  <2>1. op' = op /\ Leaves(call.fn)
    BY <1>5 DEF Handle
  <2>2. CASE call.fn \in OneShot /\ RowsOf(call.fn) # {}
    <3>1. call.fn # h
      BY <2>2 DEF IndAssumption
    <3>2. PICK i \in Rows : handler[i] = call.fn /\ handler' = [handler EXCEPT ![i] = None]
      BY <2>1, <2>2, FirstRow DEF Leaves
    <3>3. \A j \in Rows : handler'[j] = h <=> j = r
      BY <1>1, <3>1, <3>2
    <3> QED
      BY <2>1, <3>3 DEF Safe, RowsOf
  <2>3. CASE ~(call.fn \in OneShot /\ RowsOf(call.fn) # {})
    BY <1>2, <2>1, <2>3 DEF Leaves, tableVars
  <2> QED
    BY <2>2, <2>3
<1>6. ASSUME NEW w \in Writers, Write(w) PROVE Safe(h, r)'
  BY <1>3, <1>4, <1>6 DEF Write
<1> QED
  BY <1>2, <1>5, <1>6
     DEF Next, SenderStep, Indicate, Look, Call, Load, LoadFails, Push, PushFails, Pop, Sender, tableVars, vars

LEMMA AimedStep ==
  ASSUME IndAssumption, Types, Threads, [Next]_vars, NEW h \in Resident, NEW r \in Rows, Safe(h, r), Aimed(h, r)
  PROVE  Aimed(h, r)'
<1>1. /\ snd \in Senders /\ snd.i \in Rows /\ build \in {"direct", "thread"}
      /\ \A i \in Rows : handler[i] = h <=> i = r
  BY SenderFields DEF Types, SenderTypes, Safe, RowsOf
<1>2. CASE UNCHANGED <<build, snd, call>>
  BY <1>2 DEF Aimed
<1>3. CASE Look
  <2>1. \/ snd' = NextRow
        \/ snd'.pc = "load"
        \/ snd'.pc = "call" /\ snd'.fn = handler[snd.i] /\ snd'.i = snd.i
    BY <1>1, <1>3 DEF Look, Sender, Senders
  <2>2. UNCHANGED <<build, call>> /\ snd.pc = "look"
    BY <1>3 DEF Look, Sender
  <2> QED
    BY <1>1, <2>1, <2>2, NextRowFields, SenderFields DEF Aimed, Threads
<1>4. CASE Call
  <2>1. /\ snd.pc = "call" /\ snd'.pc = "in" /\ snd'.i = snd.i /\ snd'.n = snd.n
        /\ call'.fn = snd.fn /\ call'.n = snd.n
    BY <1>1, <1>4 DEF Call, Sender, Senders
  <2> QED
    BY <2>1 DEF Aimed
<1>5. CASE Load
  <2>1. /\ snd.pc = "load" /\ snd'.fn = handler[snd.i] /\ snd'.i = snd.i /\ UNCHANGED <<build, call>>
    BY <1>1, <1>5 DEF Load, Sender, Senders
  <2> QED
    BY <1>1, <2>1 DEF Aimed, Threads
<1>6. CASE Indicate \/ LoadFails \/ Push \/ PushFails
  <2>1. snd.pc \in {"idle", "load", "push"} /\ snd'.pc \in {"idle", "look"} /\ UNCHANGED <<build, call>>
    BY <1>1, <1>6, NextRowFields, SenderFields DEF Indicate, LoadFails, Push, PushFails, Sender, Senders
  <2> QED
    BY <2>1 DEF Aimed, Threads
<1>7. CASE Pop
  BY <1>7 DEF Pop, Aimed
<1>8. CASE Handle
  BY <1>1, <1>8, NextRowFields, SenderFields DEF Handle, Aimed, Threads
<1> QED
  BY <1>2, <1>3, <1>4, <1>5, <1>6, <1>7, <1>8, WriteKeeps DEF Next, SenderStep, vars

(* The last event that has passed a row.                                     *)
LEMMA ReachedIs ==
  ASSUME IndAssumption, Types, Threads, NEW r \in Rows
  PROVE  /\ Reached(r) \in Nat /\ Reached(r) <= sent /\ sent \in Nat
         /\ snd.pc \notin {"idle", "in"} /\ snd.i = r => Reached(r) = sent - 1
         /\ snd.pc = "in" /\ snd.i = r => Reached(r) = sent
<1>1. sent \in Nat /\ snd.i \in Nat /\ r \in Nat /\ (snd.pc # "idle" => sent >= 1)
  BY SenderFields, Constants DEF Types, SenderTypes, Threads
<1> QED
  BY <1>1 DEF Reached

LEMMA Passed ==
  ASSUME IndAssumption, Types, NEW r \in Rows, snd' = NextRow, sent' = sent, snd.pc # "idle"
  PROVE  /\ snd.i # r => Reached(r)' = Reached(r)
         /\ snd.i = r => Reached(r)' = sent
<1>1. snd \in Senders /\ snd.i \in 1 .. MaxRow /\ r \in 1 .. MaxRow /\ MaxRow \in Nat
  BY SenderFields, Constants DEF Types, SenderTypes, Rows
<1>2. CASE snd.i = MaxRow
  <2>1. snd'.pc = "idle"
    BY <1>2, SenderFields DEF NextRow
  <2> QED
    BY <1>1, <1>2, <2>1 DEF Reached
<1>3. CASE snd.i # MaxRow
  <2>1. snd'.pc = "look" /\ snd'.i = snd.i + 1
    BY <1>1, <1>3 DEF NextRow, Senders
  <2> QED
    BY <1>1, <2>1 DEF Reached
<1> QED
  BY <1>2, <1>3

(* An event that a row has just been passed with waits for its handler.      *)
LEMMA CallGapless ==
  ASSUME IndAssumption, Types, Threads, NEW h \in Resident, NEW r \in Rows,
         Aimed(h, r), Gapless(h, r), Once(h), Call
  PROVE  Gapless(h, r)' /\ Once(h)'
<1>1. /\ snd.pc = "call" /\ snd'.pc = "in" /\ snd'.i = snd.i /\ call'.fn = snd.fn /\ call'.n = snd.n
      /\ snd.fn = h <=> snd.i = r
      /\ UNCHANGED <<queue, seen, sent>>
  BY DEF Call, Sender, Senders, Types, SenderTypes, Aimed
<1>2. queue = << >> /\ call = None /\ snd.n = sent /\ call' # None
  BY <1>1, CallTypes, ThreadsStep DEF Threads, Types, SenderTypes, Next, SenderStep
<1>3. \A n : ~Calling(h, n) /\ ~Awaited(h, n) /\ ~Awaited(h, n)'
  BY <1>1, <1>2 DEF Calling, Awaited
<1>4. h \in Handlers /\ seen[h] \in Nat
  BY OrderTypes DEF IndAssumption
<1>5. seen[h] = Reached(r)
  BY <1>3, <1>4, ReachedIs DEF Gapless
<1>6. Once(h)'
  BY <1>1, <1>2 DEF Once
<1>7. \A n : Calling(h, n)' <=> snd.i = r /\ n = sent
  BY <1>1, <1>2 DEF Calling
<1>8. CASE snd.i = r
  <2>1. Reached(r) = sent - 1 /\ Reached(r)' = sent /\ sent \in Nat
    BY <1>1, <1>8, ReachedIs DEF Reached
  <2>2. \A n \in Nat : n = sent <=> seen[h] < n /\ n <= sent
    BY <1>5, <2>1
  <2>3. seen'[h] = seen[h] /\ seen[h] <= sent
    BY <1>1, <1>5, <2>1
  <2> QED
    BY <1>3, <1>6, <1>7, <1>8, <2>1, <2>2, <2>3 DEF Gapless
<1>9. CASE snd.i # r
  <2>1. Reached(r)' = Reached(r)
    BY <1>1, <1>9 DEF Reached
  <2>2. \A n \in Nat : ~(seen[h] < n /\ n <= Reached(r))
    BY <1>4, <1>5
  <2> QED
    BY <1>1, <1>3, <1>5, <1>6, <1>7, <1>9, <2>1, <2>2 DEF Gapless
<1> QED
  BY <1>8, <1>9

LEMMA PushGapless ==
  ASSUME IndAssumption, Types, Threads, NEW h \in Resident, NEW r \in Rows,
         Aimed(h, r), Gapless(h, r), Once(h), Push
  PROVE  Gapless(h, r)' /\ Once(h)'
<1> DEFINE l == Len(queue)
<1>1. /\ snd.pc = "push" /\ snd' = NextRow /\ queue' = Append(queue, Message) /\ UNCHANGED <<call, seen, sent>>
      /\ snd.fn = h <=> snd.i = r
  BY DEF Push, Sender, Aimed
<1>2. /\ DOMAIN queue' = 1 .. l + 1 /\ DOMAIN queue = 1 .. l /\ l \in Nat
      /\ queue'[l + 1] = Message /\ \A i \in 1 .. l : queue'[i] = queue[i]
  BY <1>1, Queued, MessageFields, OrderTypes
<1>3. Message.n = sent /\ Message.fn = snd.fn /\ sent \in Nat
  BY <1>1, MessageFields, OrderTypes DEF Threads
<1> HIDE DEF l
<1>4. /\ l + 1 \in DOMAIN queue' /\ \A i \in DOMAIN queue : i \in DOMAIN queue' /\ queue'[i] = queue[i] /\ i < l + 1
      /\ \A i \in DOMAIN queue' : i # l + 1 => i \in DOMAIN queue
      /\ \A i \in DOMAIN queue' : ~(l + 1 < i)
  BY <1>2
<1>5. \A n : Awaited(h, n)' <=> Awaited(h, n) \/ (snd.i = r /\ n = sent)
  BY <1>1, <1>2, <1>3, <1>4 DEF Awaited
<1>6. \A n : Calling(h, n)' <=> Calling(h, n)
  BY <1>1 DEF Calling
<1>7. h \in Handlers /\ seen[h] \in Nat /\ seen'[h] = seen[h]
  BY <1>1, OrderTypes DEF IndAssumption
<1>8. CASE snd.i # r
  <2>1. Reached(r)' = Reached(r)
    BY <1>1, <1>8, Passed
  <2>2. Gapless(h, r)'
    BY <1>5, <1>6, <1>7, <1>8, <2>1 DEF Gapless
  <2>3. queue'[l + 1].fn # h
    BY <1>1, <1>2, <1>3, <1>8
  <2>4. \A i \in DOMAIN queue' : queue'[i].fn = h => i \in DOMAIN queue /\ queue'[i] = queue[i]
    BY <1>4, <2>3
  <2>5. Once(h)'
    BY <1>1, <2>4 DEF Once
  <2> QED
    BY <2>2, <2>5
<1>9. CASE snd.i = r
  <2>1. Reached(r)' = sent /\ Reached(r) = sent - 1
    BY <1>1, <1>9, Passed, ReachedIs
  <2>2. \A n \in Nat : (seen[h] < n /\ n <= sent) <=> (seen[h] < n /\ n <= sent - 1) \/ n = sent
    BY <1>3, <1>7, <2>1 DEF Gapless
  <2>3. seen'[h] <= sent
    BY <1>3, <1>7, <2>1 DEF Gapless
  <2>4. \A n \in Nat : Calling(h, n)' \/ Awaited(h, n)' <=> seen'[h] < n /\ n <= sent
    BY <1>5, <1>6, <1>7, <1>9, <2>1, <2>2 DEF Gapless
  <2>5. Gapless(h, r)'
    BY <2>1, <2>3, <2>4 DEF Gapless
  <2>6. \A n \in Nat : Calling(h, n) \/ Awaited(h, n) => n < sent
    BY <1>3, <2>1 DEF Gapless
  <2>7. \A i \in DOMAIN queue : queue[i].fn = h => queue[i].n < sent
    BY <2>6, OrderTypes DEF Awaited
  <2>8. call # None /\ call.fn = h => call.n < sent
    BY <2>6, OrderTypes DEF Calling
  <2>9. \A i, j \in DOMAIN queue' : i < j /\ queue'[i].fn = h /\ queue'[j].fn = h => queue'[i].n < queue'[j].n
    <3> SUFFICES ASSUME NEW i \in DOMAIN queue', NEW j \in DOMAIN queue', i < j, queue'[i].fn = h, queue'[j].fn = h
                 PROVE  queue'[i].n < queue'[j].n
      OBVIOUS
    <3>1. i \in DOMAIN queue /\ queue'[i] = queue[i]
      BY <1>4
    <3>2. CASE j = l + 1
      BY <1>2, <1>3, <2>7, <3>1, <3>2
    <3>3. CASE j # l + 1
      BY <1>4, <3>1, <3>3 DEF Once
    <3> QED
      BY <3>2, <3>3
  <2>10. call # None /\ call.fn = h => \A i \in DOMAIN queue' : queue'[i].fn = h => call.n < queue'[i].n
    BY <1>2, <1>3, <1>4, <2>8 DEF Once
  <2>11. Once(h)'
    BY <1>1, <2>9, <2>10 DEF Once
  <2> QED
    BY <2>5, <2>11
<1> QED
  BY <1>8, <1>9

LEMMA PopGapless ==
  ASSUME IndAssumption, Types, Threads, NEW h \in Resident, NEW r \in Rows, Gapless(h, r), Once(h), Pop
  PROVE  Gapless(h, r)' /\ Once(h)'
<1> DEFINE l == Len(queue)
<1>1. /\ call = None /\ call' = Head(queue) /\ queue' = Tail(queue) /\ queue # << >>
      /\ UNCHANGED <<snd, seen, sent>>
  BY DEF Pop
<1>2. /\ DOMAIN queue' = 1 .. l - 1 /\ DOMAIN queue = 1 .. l /\ l \in Nat \ {0} /\ call' = queue[1]
      /\ \A i \in 1 .. l - 1 : queue'[i] = queue[i + 1]
  BY <1>1, Unqueued, OrderTypes
<1> HIDE DEF l
<1>3. /\ 1 \in DOMAIN queue
      /\ \A i \in DOMAIN queue' : i + 1 \in DOMAIN queue /\ 1 < i + 1 /\ queue'[i] = queue[i + 1]
      /\ \A i \in DOMAIN queue : i = 1 \/ (i - 1 \in DOMAIN queue' /\ queue'[i - 1] = queue[i])
      /\ \A i, j \in DOMAIN queue' : i < j => i + 1 < j + 1
  BY <1>2
<1>4. call' # None
  BY <1>2, <1>3, OrderTypes, Constants
<1>5. \A n : Calling(h, n)' \/ Awaited(h, n)' <=> Awaited(h, n)
  <2>1. \A n : Calling(h, n)' <=> queue[1].fn = h /\ queue[1].n = n
    BY <1>2, <1>4 DEF Calling
  <2>2. ASSUME NEW n, Awaited(h, n)' PROVE Awaited(h, n)
    <3>1. PICK i \in DOMAIN queue' : queue'[i].fn = h /\ queue'[i].n = n
      BY <2>2 DEF Awaited
    <3>2. i + 1 \in DOMAIN queue /\ queue[i + 1].fn = h /\ queue[i + 1].n = n
      BY <1>3, <3>1
    <3> QED
      BY <3>2 DEF Awaited
  <2>3. ASSUME NEW n, Awaited(h, n) PROVE Calling(h, n)' \/ Awaited(h, n)'
    <3>1. PICK i \in DOMAIN queue : queue[i].fn = h /\ queue[i].n = n
      BY <2>3 DEF Awaited
    <3>2. CASE i = 1
      BY <2>1, <3>1, <3>2
    <3>3. CASE i # 1
      <4>1. i - 1 \in DOMAIN queue' /\ queue'[i - 1] = queue[i]
        BY <1>3, <3>3
      <4> QED
        BY <3>1, <4>1 DEF Awaited
    <3> QED
      BY <3>2, <3>3
  <2>4. ASSUME NEW n, Calling(h, n)' PROVE Awaited(h, n)
    BY <1>3, <2>1, <2>4 DEF Awaited
  <2> QED
    BY <2>2, <2>3, <2>4
<1>6. \A n : ~Calling(h, n)
  BY <1>1 DEF Calling
<1>7. Reached(r)' = Reached(r)
  BY <1>1 DEF Reached
<1>8. Gapless(h, r)'
  BY <1>1, <1>5, <1>6, <1>7 DEF Gapless
<1>9. Once(h)'
  <2>1. \A i, j \in DOMAIN queue' : i < j /\ queue'[i].fn = h /\ queue'[j].fn = h => queue'[i].n < queue'[j].n
    <3> SUFFICES ASSUME NEW i \in DOMAIN queue', NEW j \in DOMAIN queue', i < j, queue'[i].fn = h, queue'[j].fn = h
                 PROVE  queue'[i].n < queue'[j].n
      OBVIOUS
    <3>1. /\ i + 1 \in DOMAIN queue /\ queue'[i] = queue[i + 1]
          /\ j + 1 \in DOMAIN queue /\ queue'[j] = queue[j + 1] /\ i + 1 < j + 1
      BY <1>3
    <3> QED
      BY <3>1 DEF Once
  <2>2. call'.fn = h => \A i \in DOMAIN queue' : queue'[i].fn = h => call'.n < queue'[i].n
    BY <1>2, <1>3 DEF Once
  <2> QED
    BY <2>1, <2>2 DEF Once
<1> QED
  BY <1>8, <1>9

(* The handler hears the event that follows the last one that it has heard.  *)
LEMMA HandleGapless ==
  ASSUME IndAssumption, Types, Threads, InTurn, NEW h \in Resident, NEW r \in Rows,
         Aimed(h, r), Gapless(h, r), Once(h), Handle
  PROVE  Gapless(h, r)' /\ Once(h)' /\ (seen'[h] # seen[h] => seen'[h] = seen[h] + 1)
<1>1. /\ call # None /\ call.fn \in Handlers /\ call.n \in Nat /\ call' = None /\ UNCHANGED <<queue, sent>>
      /\ seen' = [seen EXCEPT ![call.fn] = call.n] /\ h \in Handlers /\ seen \in [Handlers -> 0 .. MaxEvents]
  BY CallFields, OrderTypes DEF Handle, Maybe, IndAssumption, Types, SeenTypes
<1>2. Reached(r)' = Reached(r)
  <2>1. CASE build = "direct"
    <3>1. snd.pc = "in" /\ snd' = NextRow
      BY <1>1, <2>1 DEF Threads, Handle
    <3> QED
      BY <1>1, <3>1, Passed, ReachedIs
  <2>2. CASE build # "direct"
    BY <1>1, <2>2 DEF Handle, Reached
  <2> QED
    BY <2>1, <2>2
<1>3. Once(h)'
  BY <1>1 DEF Once
<1>4. \A n : ~Calling(h, n)' /\ (Awaited(h, n)' <=> Awaited(h, n))
  BY <1>1 DEF Calling, Awaited
<1>5. CASE call.fn # h
  <2>1. seen'[h] = seen[h] /\ \A n : ~Calling(h, n)
    BY <1>1, <1>5 DEF Calling
  <2> QED
    BY <1>2, <1>3, <1>4, <2>1 DEF Gapless
<1>6. CASE call.fn = h
  <2>1. seen'[h] = call.n /\ \A n : Calling(h, n) <=> n = call.n
    BY <1>1, <1>6 DEF Calling
  <2>2. \A n \in Nat : Awaited(h, n) => call.n < n
    BY <1>1, <1>6, OrderTypes DEF Awaited, Once
  <2>3. seen[h] < call.n /\ call.n <= Reached(r)
    BY <1>1, <2>1 DEF Gapless
  <2>4. seen[h] \in Nat /\ Reached(r) \in Nat
    BY <1>1, OrderTypes, ReachedIs
  <2>5. call.n = seen[h] + 1
    <3>1. seen[h] + 1 \in Nat /\ seen[h] < seen[h] + 1 /\ seen[h] + 1 <= call.n /\ seen[h] + 1 <= Reached(r)
      BY <1>1, <2>3, <2>4
    <3>2. Calling(h, seen[h] + 1) \/ Awaited(h, seen[h] + 1)
      BY <3>1 DEF Gapless
    <3>3. ~(call.n < seen[h] + 1)
      BY <1>1, <2>4, <3>1
    <3>4. ~Awaited(h, seen[h] + 1)
      BY <2>2, <3>1, <3>3
    <3> QED
      BY <2>1, <3>2, <3>4
  <2>6. \A n \in Nat : Awaited(h, n) <=> call.n < n /\ n <= Reached(r)
    <3>1. \A n \in Nat : call.n < n => seen[h] < n /\ n # call.n
      BY <1>1, <2>4, <2>5
    <3> QED
      BY <2>1, <2>2, <3>1 DEF Gapless
  <2>7. Gapless(h, r)'
    BY <1>2, <1>4, <2>1, <2>3, <2>6 DEF Gapless
  <2> QED
    BY <1>3, <2>1, <2>5, <2>7
<1> QED
  BY <1>5, <1>6

LEMMA FollowedStep ==
  ASSUME IndAssumption, ThreadsInTurn, [Next]_vars, NEW h \in Resident, NEW r \in Rows, Followed(h, r)
  PROVE  Followed(h, r)' /\ (seen'[h] # seen[h] => missed \/ seen'[h] = seen[h] + 1)
<1>1. Types /\ Threads /\ InTurn
  BY DEF ThreadsInTurn
<1>2. Safe(h, r)' /\ Aimed(h, r)'
  BY <1>1, SafeStep, AimedStep DEF Followed
<1>3. CASE UNCHANGED <<snd, queue, call, sent, seen, missed>>
  BY <1>2, <1>3 DEF Followed, Gapless, Once, Reached, Calling, Awaited
<1>4. CASE LoadFails \/ PushFails
  BY <1>2, <1>4 DEF Followed, LoadFails, PushFails, Sender
<1>5. CASE missed
  <2>1. ASSUME NEW w \in Writers, Write(w) PROVE missed'
    BY <1>1, <1>5, <2>1, WriteKeeps
  <2>2. missed'
    BY <1>5, <2>1
       DEF Next, SenderStep, Indicate, Look, Call, Load, LoadFails, Push, PushFails, Pop, Handle, Sender, vars
  <2> QED
    BY <1>2, <1>5, <2>2 DEF Followed
<1>6. CASE ~missed
  <2>1. Gapless(h, r) /\ Once(h) /\ Safe(h, r) /\ Aimed(h, r)
    BY <1>6 DEF Followed
  <2>2. CASE Call \/ Push \/ Pop
    <3>1. Gapless(h, r)' /\ Once(h)' /\ seen' = seen
      BY <1>1, <2>1, <2>2, CallGapless, PushGapless, PopGapless DEF Call, Push, Pop, Sender
    <3> QED
      BY <1>2, <3>1 DEF Followed
  <2>3. CASE Handle
    <3>1. Gapless(h, r)' /\ Once(h)' /\ (seen'[h] # seen[h] => seen'[h] = seen[h] + 1)
      BY <1>1, <2>1, <2>3, HandleGapless
    <3> QED
      BY <1>2, <3>1 DEF Followed
  <2>4. CASE Indicate \/ Look \/ Load
    <3>1. UNCHANGED <<queue, call, seen>>
      BY <2>4 DEF Indicate, Look, Load, Sender
    <3>2. snd \in Senders /\ snd.i \in Nat /\ r \in Nat /\ r >= 1 /\ sent \in Nat
      BY <1>1, SenderFields DEF Types, SenderTypes, Rows
    <3>3. Reached(r)' = Reached(r)
      <4>1. CASE Indicate
        <5>1. snd.pc = "idle" /\ snd'.pc = "look" /\ snd'.i = 1 /\ sent' = sent + 1
          BY <4>1 DEF Indicate, Sender, Idle
        <5> QED
          BY <3>2, <5>1 DEF Reached
      <4>2. CASE Look
        <5>1. CASE handler[snd.i] = None
          <6>1. snd' = NextRow /\ sent' = sent /\ snd.pc = "look"
            BY <4>2, <5>1 DEF Look, Sender
          <6>2. snd.i # r
            BY <2>1, <5>1, Constants DEF Safe, RowsOf, IndAssumption
          <6> QED
            BY <1>1, <6>1, <6>2, Passed
        <5>2. CASE handler[snd.i] # None
          <6>1. snd'.i = snd.i /\ snd'.pc \in {"load", "call"} /\ snd.pc = "look" /\ sent' = sent
            BY <3>2, <4>2, <5>2 DEF Look, Sender, Senders
          <6> QED
            BY <3>2, <6>1 DEF Reached
        <5> QED
          BY <5>1, <5>2
      <4>3. CASE Load
        <5>1. snd'.i = snd.i /\ snd'.pc = "push" /\ snd.pc = "load" /\ sent' = sent
          BY <3>2, <4>3 DEF Load, Sender, Senders
        <5> QED
          BY <3>2, <5>1 DEF Reached
      <4> QED
        BY <2>4, <4>1, <4>2, <4>3
    <3>4. Gapless(h, r)' /\ Once(h)'
      BY <2>1, <3>1, <3>3 DEF Gapless, Once, Calling, Awaited
    <3> QED
      BY <1>2, <3>1, <3>4 DEF Followed
  <2>5. CASE \E w \in Writers : Write(w)
    BY <1>1, <1>3, <2>5, WriteKeeps
  <2>6. CASE UNCHANGED vars
    BY <1>3, <2>6 DEF vars
  <2> QED
    BY <1>4, <2>2, <2>3, <2>4, <2>5, <2>6 DEF Next, SenderStep
<1> QED
  BY <1>5, <1>6

(* wifi_indication and worker_thread_main: a handler that nobody takes away  *)
(* hears of event n only after event n - 1, for any number of tasks that     *)
(* register and unregister others meanwhile, any number of rows and any      *)
(* length of the worker's queue, until a copy or a message has been dropped. *)
THEOREM NoneSkippedHolds ==
  ASSUME IndAssumption
  PROVE  Spec => NoneSkipped
<1> DEFINE AllFollowed == \A h \in Resident : \E r \in Rows : Followed(h, r)
<1>1. Init => ThreadsInTurn /\ AllFollowed
  BY InitThreads, InitFollowed
<1>2. (ThreadsInTurn /\ AllFollowed) /\ [Next]_vars => (ThreadsInTurn /\ AllFollowed)'
  <2> SUFFICES ASSUME ThreadsInTurn, AllFollowed, [Next]_vars PROVE ThreadsInTurn' /\ AllFollowed'
    OBVIOUS
  <2>1. ASSUME NEW h \in Resident PROVE \E r \in Rows : Followed(h, r)'
    <3>1. PICK r \in Rows : Followed(h, r)
      OBVIOUS
    <3> QED
      BY <3>1, FollowedStep
  <2> QED
    BY <2>1, ThreadsInTurnStep
<1>3. ThreadsInTurn /\ AllFollowed /\ [Next]_vars =>
        [ \A h \in Resident : seen'[h] # seen[h] => missed \/ seen'[h] = seen[h] + 1 ]_vars
  <2> SUFFICES ASSUME ThreadsInTurn, AllFollowed, [Next]_vars, NEW h \in Resident, seen'[h] # seen[h]
               PROVE  missed \/ seen'[h] = seen[h] + 1
    OBVIOUS
  <2>1. PICK r \in Rows : Followed(h, r)
    OBVIOUS
  <2> QED
    BY <2>1, FollowedStep
<1> HIDE DEF AllFollowed
<1> QED
  BY <1>1, <1>2, <1>3, PTL DEF Spec, NoneSkipped
=============================================================================
