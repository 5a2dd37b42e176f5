------------------------ MODULE WifiConnect_proofs --------------------------
(* Proofs about WifiConnect: the invariants of the joining functions, for    *)
(* any set of callers, table size, queue length and build configuration.     *)
EXTENDS WifiConnect, TLAPS, WellFoundedInduction

-----------------------------------------------------------------------------
(* The event table.                                                          *)

(* A non-empty set of naturals has its minimum among its elements.           *)
LEMMA MinIsElement ==
  ASSUME NEW S \in SUBSET Nat, S # {}
  PROVE  Min(S) \in S
<1> DEFINE R == {p \in Nat \X Nat : p[1] < p[2]}
<1>1. IsWellFoundedOn(R, Nat)
  BY NatLessThanWellFounded DEF OpToRel
<1> HIDE DEF R
<1>2. PICK x \in S : \A y \in S : ~ (<<y, x>> \in R)
  BY <1>1, WFMin
<1>3. \A y \in S : x <= y
  <2> TAKE y \in S
  <2>1. x \in Nat /\ y \in Nat
    OBVIOUS
  <2>2. ~ (y < x)
    BY <1>2, <2>1 DEF R
  <2> QED
    BY <2>1, <2>2
<1> QED
  BY <1>3 DEF Min

HandlerSet == JoinHandlers \cup {"app"}

(* Registering and unregistering keep the table a table.                     *)
LEMMA TableType ==
  ASSUME NEW t \in Table!Tables, NEW e \in Events, NEW h \in HandlerSet
  PROVE  Table!Reg(t, e, h) \in Table!Tables /\ Table!Unreg(t, e, h) \in Table!Tables
BY DEF HandlerSet, Table!Tables, Table!Reg, Table!Unreg, Table!Rows

(* Registering changes the rows of no other handler, and gives the handler a *)
(* row only when it has none.                                                *)
LEMMA RegRows ==
  ASSUME NEW t \in Table!Tables, NEW e \in Events, NEW h \in HandlerSet,
         NEW d \in Events, NEW g \in HandlerSet, ConnectAssumption
  PROVE  /\ <<d, g>> # <<e, h>> => Table!RowsOf(Table!Reg(t, e, h), d, g) = Table!RowsOf(t, d, g)
         /\ (\A i, j \in Table!RowsOf(t, d, g) : i = j)
              => \A i, j \in Table!RowsOf(Table!Reg(t, e, h), d, g) : i = j
<1> DEFINE free == Table!FreeRows(t, e)
<1>1. CASE free = {} \/ Table!IsRegistered(t, e, h)
  BY <1>1 DEF Table!Reg
<1>2. CASE free # {} /\ ~Table!IsRegistered(t, e, h)
  <2> DEFINE m == Min(free)
  <2>1. m \in free
    <3>1. free \in SUBSET Nat
      BY DEF Table!FreeRows, Table!RowsOf, Table!Rows
    <3> QED
      BY <1>2, <3>1, MinIsElement
  <2>2. Table!Reg(t, e, h) = [t EXCEPT ![e][m] = h]
    BY <1>2 DEF Table!Reg, Table!Min, Min
  <2>3. None # h /\ None # g
    BY DEF ConnectAssumption, HandlerSet
  <2> HIDE DEF m
  <2>4. m \in Table!Rows /\ t[e][m] = None
    BY <2>1 DEF Table!FreeRows, Table!RowsOf
  <2>5. \A i \in Table!Rows : Table!Reg(t, e, h)[d][i] = IF d = e /\ i = m THEN h ELSE t[d][i]
    BY <2>2, <2>4 DEF Table!Tables
  <2>6. CASE <<d, g>> = <<e, h>>
    BY <1>2, <2>4, <2>5, <2>6 DEF Table!IsRegistered, Table!RowsOf
  <2>7. CASE <<d, g>> # <<e, h>>
    <3>1. Table!RowsOf(Table!Reg(t, e, h), d, g) = Table!RowsOf(t, d, g)
      BY <2>3, <2>4, <2>5, <2>7 DEF Table!RowsOf
    <3> QED
      BY <2>7, <3>1
  <2> QED
    BY <2>6, <2>7
<1> QED
  BY <1>1, <1>2

(* Unregistering changes the rows of no other handler, and takes away the    *)
(* only row of its own.                                                      *)
LEMMA UnregRows ==
  ASSUME NEW t \in Table!Tables, NEW e \in Events, NEW h \in HandlerSet,
         NEW d \in Events, NEW g \in HandlerSet, ConnectAssumption
  PROVE  /\ <<d, g>> # <<e, h>> => Table!RowsOf(Table!Unreg(t, e, h), d, g) = Table!RowsOf(t, d, g)
         /\ (\A i, j \in Table!RowsOf(t, e, h) : i = j)
              => Table!RowsOf(Table!Unreg(t, e, h), e, h) = {}
<1> DEFINE own == Table!RowsOf(t, e, h)
<1>1. CASE own = {}
  BY <1>1 DEF Table!Unreg, Table!IsRegistered
<1>2. CASE own # {}
  <2> DEFINE m == Min(own)
  <2>1. m \in own
    <3>1. own \in SUBSET Nat
      BY DEF Table!RowsOf, Table!Rows
    <3> QED
      BY <1>2, <3>1, MinIsElement
  <2>2. Table!Unreg(t, e, h) = [t EXCEPT ![e][m] = None]
    BY <1>2 DEF Table!Unreg, Table!IsRegistered, Table!Min, Min
  <2>3. None # h /\ None # g
    BY DEF ConnectAssumption, HandlerSet
  <2> HIDE DEF m
  <2>4. m \in Table!Rows /\ t[e][m] = h
    BY <2>1 DEF Table!RowsOf
  <2>5. \A b \in Events : \A i \in Table!Rows :
          Table!Unreg(t, e, h)[b][i] = IF b = e /\ i = m THEN None ELSE t[b][i]
    BY <2>2, <2>4 DEF Table!Tables
  <2>6. <<d, g>> # <<e, h>> => Table!RowsOf(Table!Unreg(t, e, h), d, g) = Table!RowsOf(t, d, g)
    BY <2>3, <2>4, <2>5 DEF Table!RowsOf
  <2>7. ASSUME \A i, j \in own : i = j
        PROVE  Table!RowsOf(Table!Unreg(t, e, h), e, h) = {}
    BY <2>1, <2>3, <2>5, <2>7 DEF Table!RowsOf
  <2> QED
    BY <2>6, <2>7
<1> QED
  BY <1>1, <1>2

-----------------------------------------------------------------------------
(* Type correctness.                                                         *)

USE ConnectAssumption

(* Giving a token leaves every semaphore a natural number.                   *)
LEMMA UpSemaType ==
  ASSUME TypeOK, NEW u \in Callers \cup {None}, UpSema(u)
  PROVE  sem' \in [Callers -> Nat]
BY DEF TypeOK, UpSema, More, ConnectAssumption

(* wifi_disconn_hdl writes one of the error codes.                           *)
LEMMA ClassifyType ==
  ASSUME TypeOK, NEW why \in AllReasons
  PROVE  Classify(why) \in ErrorFlags
<1>1. \A f \in DOMAIN FailFlag : FailFlag[f] \in ErrorFlags
  BY DEF FailFlag, ErrorFlags
<1>2. errorFlag \in ErrorFlags
  BY DEF TypeOK
<1> QED
  BY <1>1, <1>2, Zenon DEF Classify, ErrorFlags

(* So do the two ways in which a disconnection takes effect.                 *)
LEMMA DisconnReleaseType ==
  ASSUME TypeOK, DisconnRelease
  PROVE  sem' \in [Callers -> Nat] /\ netif' \in {"up", "down"} /\ dsema' \in Nat \cup {None}
<1>1. joinUser \in Callers \cup {None} /\ UpSema(joinUser)
  BY DEF TypeOK, DisconnRelease
<1>2. sem' \in [Callers -> Nat]
  BY <1>1, UpSemaType
<1> QED
  BY <1>2 DEF TypeOK, DisconnRelease, More, ConnectAssumption

LEMMA PushType ==
  ASSUME TypeOK, NEW e \in Events, NEW why \in AllReasons, Push(e, why)
  PROVE  queue' \in Seq(Messages)
<1>1. queue \in Seq(Messages)
  BY DEF TypeOK
<1>2. [ev |-> e, why |-> why] \in Messages
  BY DEF Messages
<1>3. Append(queue, [ev |-> e, why |-> why]) \in Seq(Messages)
  BY <1>1, <1>2
<1> QED
  BY <1>1, <1>3 DEF Push

LEMMA IndicateDisconnectType ==
  ASSUME TypeOK, NEW why \in AllReasons, IndicateDisconnect(why)
  PROVE  /\ sem' \in [Callers -> Nat] /\ netif' \in {"up", "down"}
         /\ dsema' \in Nat \cup {None}
         /\ queue' \in Seq(Messages) /\ errorFlag' \in ErrorFlags
<1>1. CASE ~Registered("DISCONNECT")
  BY <1>1 DEF IndicateDisconnect, TypeOK
<1>2. CASE Registered("DISCONNECT") /\ UseWorker
  <2>1. Push("DISCONNECT", why) /\ UNCHANGED <<errorFlag, netif, sem, dsema>>
    BY <1>2 DEF IndicateDisconnect
  <2>2. queue' \in Seq(Messages)
    BY <2>1, PushType DEF Events
  <2> QED
    BY <2>1, <2>2 DEF TypeOK
<1>3. CASE Registered("DISCONNECT") /\ ~UseWorker
  <2>1. errorFlag' = Classify(why) /\ DisconnRelease /\ UNCHANGED queue
    BY <1>3 DEF IndicateDisconnect
  <2> QED
    BY <2>1, ClassifyType, DisconnReleaseType DEF TypeOK
<1> QED
  BY <1>1, <1>2, <1>3

LEMMA DropLinkType ==
  ASSUME TypeOK, DropLink
  PROVE  /\ sem' \in [Callers -> Nat] /\ netif' \in {"up", "down"}
         /\ dsema' \in Nat \cup {None}
         /\ queue' \in Seq(Messages) /\ errorFlag' \in ErrorFlags
         /\ drv' \in [st : {"idle", "joining", "notFound", "keying", "up"}, sec : AllSecurities]
<1>1. drv' \in [st : {"idle", "joining", "notFound", "keying", "up"}, sec : AllSecurities]
  BY DEF DropLink, TypeOK
<1>2. CASE IndicateDisconnect("deauth")
  BY <1>1, <1>2, IndicateDisconnectType DEF AllReasons
<1>3. CASE UNCHANGED <<queue, errorFlag, netif, sem, dsema>>
  BY <1>1, <1>3 DEF TypeOK
<1> QED
  BY <1>2, <1>3 DEF DropLink

(* The four registrations and the three unregistrations keep the table one.  *)
LEMMA RegisterAllType ==
  ASSUME NEW t \in Table!Tables
  PROVE  RegisterAll(t) \in Table!Tables /\ UnregisterAll(t) \in Table!Tables
<1>1. \A e \in Events : HandlerOf[e] \in HandlerSet
  BY DEF HandlerSet, JoinHandlers
<1>2. /\ "NO_NETWORK" \in Events /\ "CONNECT" \in Events /\ "DISCONNECT" \in Events
      /\ "FOURWAY_HANDSHAKE_DONE" \in Events
  BY DEF Events
<1>3. \A u \in Table!Tables, e \in Events :
        /\ Table!Reg(u, e, HandlerOf[e]) \in Table!Tables
        /\ Table!Unreg(u, e, HandlerOf[e]) \in Table!Tables
  BY <1>1, TableType
<1> QED
  BY <1>2, <1>3 DEF RegisterAll, UnregisterAll

LEMMA InitType == Init => TypeOK
<1> SUFFICES ASSUME Init PROVE TypeOK
  OBVIOUS
<1>1. table \in Table!Tables
  BY DEF Init, Table!Tables, ConnectAssumption
<1> QED
  BY <1>1 DEF Init, TypeOK, Pcs, Arguments, AllSecurities, Results, Flags, ErrorFlags, Messages,
     Running

(* Every step keeps the types: a caller's, ...                               *)
LEMMA CallerType ==
  ASSUME TypeOK, NEW c \in Callers, Call(c) \/ Step(c) \/ Disconnect(c)
  PROVE  TypeOK'
<1> USE DEF At, Goto, Pcs, HoldPcs
<1>1. CASE Call(c)
  BY <1>1 DEF Call, TypeOK, Leave, Arguments, AllSecurities, Results
<1>2. CASE Spin(c)
  BY <1>2 DEF Spin, TypeOK
<1>3. CASE Set(c)
  BY <1>3 DEF Set, TypeOK, ErrorFlags, Flags
<1>4. CASE RejectKey(c)
  <2>1. heap' \in [Callers -> SUBSET {"record", "password", "sema"}]
    <3>1. heap[c] \cup {"record"} \in SUBSET {"record", "password", "sema"}
      BY DEF TypeOK
    <3>2. CASE call[c].kind = "ssid"
      BY <1>4, <3>2 DEF RejectKey, TypeOK
    <3>3. CASE call[c].kind # "ssid"
      <4>1. heap' = [heap EXCEPT ![c] = @ \cup {"record"}]
        BY <1>4, <3>3 DEF RejectKey
      <4>2. heap \in [Callers -> SUBSET {"record", "password", "sema"}]
        BY DEF TypeOK
      <4> QED
        BY <3>1, <4>1, <4>2
    <3> QED
      BY <3>2, <3>3
  <2>2. status' \subseteq Flags /\ errorFlag' \in ErrorFlags
    BY <1>4 DEF RejectKey, TypeOK, ErrorFlags
  <2>3. pc' \in [Callers -> Pcs] /\ res' \in [Callers -> Results]
    BY <1>4 DEF RejectKey, TypeOK, Return, Results
  <2> QED
    BY <1>4, <2>1, <2>2, <2>3 DEF RejectKey, TypeOK
<1>5. CASE Allocate(c)
  BY <1>5 DEF Allocate, TypeOK, Needs
<1>6. CASE AllocationFails(c)
  <2>1. Needs(c) \subseteq {"record", "password", "sema"}
    BY DEF Needs
  <2>2. heap' \in [Callers -> SUBSET {"record", "password", "sema"}]
    <3>1. PICK missing \in Needs(c) : heap' = [heap EXCEPT ![c] = @ \cup Got(c, missing)]
      BY <1>6 DEF AllocationFails
    <3>2. heap[c] \cup Got(c, missing) \in SUBSET {"record", "password", "sema"}
      BY <2>1 DEF TypeOK, Got
    <3> QED
      BY <3>1, <3>2 DEF TypeOK
  <2>3. status' \subseteq Flags
    BY <1>6 DEF AllocationFails, TypeOK
  <2>4. pc' \in [Callers -> Pcs] /\ res' \in [Callers -> Results]
    <3>1. PICK r \in {"NORESOURCE", "NOMEM"}, p \in {"x_sema", "idle"} : Leave(c, p, r)
      BY <1>6 DEF AllocationFails, Return, Leave
    <3> QED
      BY <3>1 DEF TypeOK, Leave, Results
  <2> QED
    BY <1>6, <2>2, <2>3, <2>4 DEF AllocationFails, TypeOK
<1>7. CASE Register(c)
  BY <1>7, RegisterAllType DEF Register, TypeOK
<1>8. CASE DisconnectWait(c)
  BY <1>8 DEF DisconnectWait, TypeOK
<1>9. CASE Publish(c)
  BY <1>9 DEF Publish, TypeOK
<1>10. CASE Wake(c)
  BY <1>10 DEF Wake, TypeOK
<1>11. CASE Timeout(c)
  BY <1>11 DEF Timeout, TypeOK, Drop, Leave, Results
<1>12. CASE Woken(c)
  <2>1. heap' \in [Callers -> SUBSET {"record", "password", "sema"}]
    BY <1>12 DEF Woken, TypeOK, Drop
  <2>2. pc' \in [Callers -> Pcs] /\ res' \in [Callers -> Results]
    BY <1>12 DEF Woken, TypeOK, Leave, Results
  <2> QED
    BY <1>12, <2>1, <2>2 DEF Woken, TypeOK
<1>13. CASE LinkUp(c)
  BY <1>13 DEF LinkUp, TypeOK, Leave, Results
<1>14. CASE FreeEarly(c)
  BY <1>14 DEF FreeEarly, TypeOK, Drop
<1>15. CASE FreeSema(c)
  BY <1>15 DEF FreeSema, TypeOK, Drop
<1>16. CASE ClearUser(c)
  BY <1>16 DEF ClearUser, TypeOK
<1>17. CASE FreeRecord(c)
  BY <1>17 DEF FreeRecord, TypeOK, Drop
<1>18. CASE Unregister(c)
  BY <1>18, RegisterAllType DEF Unregister, TypeOK
<1>19. CASE ClearFlag(c)
  BY <1>19 DEF ClearFlag, TypeOK, Flags
<1> DEFINE EffectOK == /\ sem' \in [Callers -> Nat] /\ netif' \in {"up", "down"}
                      /\ dsema' \in Nat \cup {None}
                      /\ queue' \in Seq(Messages) /\ errorFlag' \in ErrorFlags
           DrvOK == drv' \in [st : {"idle", "joining", "notFound", "keying", "up"},
                              sec : AllSecurities]
<1>a. UNCHANGED <<queue, errorFlag, netif, sem, dsema>> => EffectOK
  BY DEF TypeOK
<1>b. DropLink => EffectOK /\ DrvOK
  BY DropLinkType
<1>20. CASE Test(c)
  <2>1. EffectOK /\ DrvOK
    <3>1. CASE UNCHANGED <<drv, queue, errorFlag, netif, sem, dsema>>
      BY <1>a, <3>1 DEF TypeOK
    <3> QED
      BY <1>20, <1>b, <3>1 DEF Test
  <2>2. pc' \in [Callers -> Pcs] /\ res' \in [Callers -> Results]
    BY <1>20 DEF Test, TypeOK, Return, Results
  <2> QED
    BY <1>20, <2>1, <2>2 DEF Test, TypeOK
<1>21. CASE Join(c)
  <2>1. DrvOK /\ att' \in [assoc : BOOLEAN, nonet : BOOLEAN, seen : BOOLEAN]
    <3>1. call[c].sec \in AllSecurities
      BY DEF TypeOK, Arguments
    <3>2. CASE UNCHANGED <<drv, att>>
      BY <3>2 DEF TypeOK
    <3>3. CASE /\ drv' = [st |-> "joining", sec |-> call[c].sec]
               /\ att' = [assoc |-> FALSE, nonet |-> FALSE, seen |-> FALSE]
      BY <3>1, <3>3
    <3> QED
      BY <1>21, <3>2, <3>3 DEF Join
  <2>2. EffectOK
    BY <1>21, <1>a, IndicateDisconnectType DEF Join, AllReasons
  <2>3. pc' \in [Callers -> Pcs]
    BY <1>21 DEF Join, TypeOK
  <2> QED
    BY <1>21, <2>1, <2>2, <2>3 DEF Join, TypeOK
<1>22. CASE Disconnect(c)
  <2>1. EffectOK /\ DrvOK
    BY <1>22, <1>b DEF Disconnect
  <2> QED
    BY <1>22, <2>1 DEF Disconnect, TypeOK
<1> QED
  BY <1>1, <1>2, <1>3, <1>4, <1>5, <1>6, <1>7, <1>8, <1>9, <1>10, <1>11, <1>12, <1>13, <1>14, <1>15, <1>16, <1>17, <1>18, <1>19, <1>20, <1>21, <1>22 DEF Step

(* ... a handler's ...                                                       *)
LEMMA HandlerType ==
  ASSUME TypeOK, HandlerStep
  PROVE  TypeOK'
<1> USE DEF Runs, apiVars
<1>1. run # None => run \in Running
  BY DEF TypeOK
<1>2. ASSUME NEW s \in {"body", "up", "release"}, run # None, Then(s)
      PROVE  run' \in Running
  BY <1>1, <1>2 DEF Then, Running, TypeOK
<1>3. CASE Pop
  <2>1. queue \in Seq(Messages) /\ queue # <<>>
    BY <1>3 DEF Pop, TypeOK
  <2>2. Tail(queue) \in Seq(Messages) /\ Head(queue) \in Messages
    BY <2>1
  <2>3. run' \in Running
    BY <1>3, <2>2 DEF Pop, Running, Messages
  <2> QED
    BY <1>3, <2>2, <2>3 DEF Pop, TypeOK
<1>4. CASE NoNetworkHdl
  BY <1>4 DEF NoNetworkHdl, TypeOK, Flags
<1>5. CASE ConnectedHdl
  <2>1. run' \in Running \cup {None}
    BY <1>2, <1>5 DEF ConnectedHdl
  <2>2. status' \subseteq Flags
    BY <1>5 DEF ConnectedHdl, TypeOK, Linked, Flags
  <2>3. att' \in [assoc : BOOLEAN, nonet : BOOLEAN, seen : BOOLEAN]
    BY <1>5 DEF ConnectedHdl, TypeOK
  <2> QED
    BY <1>5, <2>1, <2>2, <2>3 DEF ConnectedHdl, TypeOK
<1>6. CASE HandshakeDoneHdl
  <2>1. run' \in Running \cup {None}
    BY <1>2, <1>6 DEF HandshakeDoneHdl
  <2> QED
    BY <1>6, <2>1 DEF HandshakeDoneHdl, TypeOK, WithKeys, Linked, Flags
<1>7. CASE HandlerUp
  <2>1. run.ptr \in Callers \cup {None} /\ UpSema(run.ptr)
    BY <1>1, <1>7 DEF HandlerUp, Running
  <2>2. sem' \in [Callers -> Nat]
    BY <2>1, UpSemaType
  <2> QED
    BY <1>7, <2>2 DEF HandlerUp, TypeOK
<1>8. CASE DisconnHdl
  <2>1. run' \in Running
    BY <1>2, <1>8 DEF DisconnHdl
  <2>2. run.why \in AllReasons
    BY <1>1, <1>8 DEF DisconnHdl, Running
  <2>3. errorFlag' \in ErrorFlags
    BY <1>8, <2>2, ClassifyType DEF DisconnHdl
  <2> QED
    BY <1>8, <2>1, <2>3 DEF DisconnHdl, TypeOK
<1>9. CASE DisconnHdlRelease
  <2>1. sem' \in [Callers -> Nat] /\ netif' \in {"up", "down"} /\ dsema' \in Nat \cup {None}
    BY <1>9, DisconnReleaseType DEF DisconnHdlRelease
  <2> QED
    BY <1>9, <2>1 DEF DisconnHdlRelease, TypeOK
<1> QED
  BY <1>3, <1>4, <1>5, <1>6, <1>7, <1>8, <1>9 DEF HandlerStep

(* Every driver step moves the driver and makes one indication.              *)
DriverStates == {"idle", "joining", "notFound", "keying", "up"}

LEMMA DriverMoveIsOne ==
  ASSUME DriverStep
  PROVE  /\ \E from, to \in DriverStates, e \in Events, why \in AllReasons :
              DriverMoves(from, to, e, why)
         /\ att' = att \/ att' = [att EXCEPT !.nonet = TRUE] \/ att' = [att EXCEPT !.assoc = TRUE]
<1> USE DEF DriverStates, Events, AllReasons, ConnectAssumption
<1>1. CASE NetworkNotFound
  BY <1>1 DEF NetworkNotFound
<1>2. CASE Associate
  BY <1>2 DEF Associate
<1>3. CASE HandshakeDone
  BY <1>3 DEF HandshakeDone
<1>4. CASE Rekey
  BY <1>4 DEF Rekey
<1>5. CASE JoinFails
  BY <1>5 DEF JoinFails
<1>6. CASE KeyFails
  BY <1>6 DEF KeyFails
<1>7. CASE LinkLost
  BY <1>7 DEF LinkLost
<1> QED
  BY <1>1, <1>2, <1>3, <1>4, <1>5, <1>6, <1>7 DEF DriverStep

(* ... or the driver's.                                                      *)
LEMMA DriverType ==
  ASSUME TypeOK, DriverStep
  PROVE  TypeOK'
<1>1. PICK from \in DriverStates, to \in DriverStates, e \in Events, why \in AllReasons :
        DriverMoves(from, to, e, why)
  BY DriverMoveIsOne
<1>2. queue' \in Seq(Messages) /\ run' \in Running \cup {None}
  <2>1. CASE UNCHANGED <<queue, run>>
    BY <2>1 DEF TypeOK
  <2>2. CASE Push(e, why) /\ UNCHANGED run
    BY <2>2, PushType DEF TypeOK
  <2>3. CASE run' = [ev |-> e, why |-> why, step |-> "body", ptr |-> None] /\ UNCHANGED queue
    BY <2>3 DEF TypeOK, Running
  <2> QED
    BY <1>1, <2>1, <2>2, <2>3 DEF DriverMoves, Indicate
<1>3. drv' \in [st : {"idle", "joining", "notFound", "keying", "up"}, sec : AllSecurities]
  BY <1>1 DEF DriverMoves, TypeOK, DriverStates
<1>4. att' \in [assoc : BOOLEAN, nonet : BOOLEAN, seen : BOOLEAN]
  BY DriverMoveIsOne DEF TypeOK
<1> QED
  BY <1>1, <1>2, <1>3, <1>4 DEF DriverMoves, apiVars, TypeOK

LEMMA StutterType ==
  ASSUME TypeOK, UNCHANGED vars
  PROVE  TypeOK'
BY DEF TypeOK, vars

(* For every set of callers, queue length and table size, every variable     *)
(* keeps its type.                                                           *)
THEOREM TypeCorrect == Spec => []TypeOK
<1>1. TypeOK /\ [Next]_vars => TypeOK'
  BY CallerType, HandlerType, DriverType, StutterType DEF Next
<1> QED
  BY InitType, <1>1, PTL DEF Spec

-----------------------------------------------------------------------------
(* join_user_data.                                                           *)

(* What makes UserDataLive inductive: a wifi_connect call holds its          *)
(* join_result from the registrations to the point where it frees it, and    *)
(* only wifi_connect_bssid frees it early.                                   *)
HoldsRecord == {"reg", "join", "dwait", "publish", "wait", "woken", "linkup", "x_sema", "x_user",
                "x_rec"}
RecordHeld ==
  \A c \in Callers :
    /\ pc[c] \in HoldsRecord /\ call[c].kind = "ssid" => "record" \in heap[c]
    /\ pc[c] = "b_free" => call[c].kind = "bssid"

UserInv == TypeOK /\ RecordHeld /\ UserDataLive

(* A caller's step changes nothing of another caller's.                      *)
LEMMA CallerIsLocal ==
  ASSUME TypeOK, NEW c \in Callers, Call(c) \/ Step(c) \/ Disconnect(c),
         NEW d \in Callers, d # c
  PROVE  pc'[d] = pc[d] /\ heap'[d] = heap[d] /\ call'[d] = call[d] /\ res'[d] = res[d]
<1>1. pc \in [Callers -> Pcs] /\ call \in [Callers -> Arguments] /\ res \in [Callers -> Results]
      /\ heap \in [Callers -> SUBSET {"record", "password", "sema"}]
  BY DEF TypeOK
<1> USE <1>1 DEF Goto, Return, Leave, Drop
<1>2. CASE Call(c)
  BY <1>2 DEF Call
<1>3. CASE Test(c)
  BY <1>3 DEF Test
<1>4. CASE Spin(c)
  BY <1>4 DEF Spin
<1>5. CASE Set(c)
  BY <1>5 DEF Set
<1>6. CASE RejectKey(c)
  BY <1>6 DEF RejectKey
<1>7. CASE Allocate(c)
  BY <1>7 DEF Allocate
<1>8. CASE AllocationFails(c)
  BY <1>8 DEF AllocationFails
<1>9. CASE Register(c)
  BY <1>9 DEF Register
<1>10. CASE Join(c)
  BY <1>10 DEF Join
<1>11. CASE DisconnectWait(c)
  BY <1>11 DEF DisconnectWait
<1>12. CASE Publish(c)
  BY <1>12 DEF Publish
<1>13. CASE Wake(c)
  BY <1>13 DEF Wake
<1>14. CASE Timeout(c)
  BY <1>14 DEF Timeout
<1>15. CASE Woken(c)
  BY <1>15 DEF Woken
<1>16. CASE LinkUp(c)
  BY <1>16 DEF LinkUp
<1>17. CASE FreeEarly(c)
  BY <1>17 DEF FreeEarly
<1>18. CASE FreeSema(c)
  BY <1>18 DEF FreeSema
<1>19. CASE ClearUser(c)
  BY <1>19 DEF ClearUser
<1>20. CASE FreeRecord(c)
  BY <1>20 DEF FreeRecord
<1>21. CASE Unregister(c)
  BY <1>21 DEF Unregister
<1>22. CASE ClearFlag(c)
  BY <1>22 DEF ClearFlag
<1>23. CASE Disconnect(c)
  BY <1>23 DEF Disconnect
<1> QED
  BY <1>2, <1>3, <1>4, <1>5, <1>6, <1>7, <1>8, <1>9, <1>10, <1>11, <1>12, <1>13, <1>14, <1>15, <1>16, <1>17, <1>18, <1>19, <1>20, <1>21, <1>22, <1>23 DEF Step

(* Nor does a step of a handler or of the driver.                            *)
LEMMA OthersAreLocal ==
  ASSUME HandlerStep \/ DriverStep \/ UNCHANGED vars
  PROVE  UNCHANGED <<pc, heap, call, res, joinUser>>
<1>1. CASE HandlerStep
  BY <1>1 DEF HandlerStep, Pop, NoNetworkHdl, ConnectedHdl, HandshakeDoneHdl, HandlerUp, DisconnHdl,
     DisconnHdlRelease, apiVars
<1>2. CASE DriverStep
  BY <1>2, DriverMoveIsOne DEF DriverMoves, apiVars
<1>3. CASE UNCHANGED vars
  BY <1>3 DEF vars
<1> QED
  BY <1>1, <1>2, <1>3

(* A caller's step keeps RecordHeld: its own join_result is there when it    *)
(* needs it.                                                                 *)
LEMMA CallerKeepsRecord ==
  ASSUME TypeOK, RecordHeld, NEW c \in Callers, Call(c) \/ Step(c) \/ Disconnect(c)
  PROVE  RecordHeld'
<1> DEFINE Held(d) == /\ pc[d] \in HoldsRecord /\ call[d].kind = "ssid" => "record" \in heap[d]
                      /\ pc[d] = "b_free" => call[d].kind = "bssid"
<1>1. pc \in [Callers -> Pcs] /\ call \in [Callers -> Arguments]
      /\ heap \in [Callers -> SUBSET {"record", "password", "sema"}]
      /\ call[c].kind \in {"ssid", "bssid"}
  BY DEF TypeOK, Arguments
<1>2. Held(c)
  BY DEF RecordHeld
<1>3. Held(c)'
  <2> USE <1>1, <1>2 DEF At, Goto, Return, Leave, Drop, HoldsRecord
  <2>1. CASE Call(c)
    BY <2>1 DEF Call
  <2>2. CASE Test(c)
    BY <2>2 DEF Test
  <2>3. CASE Spin(c)
    BY <2>3 DEF Spin
  <2>4. CASE Set(c)
    BY <2>4 DEF Set
  <2>5. CASE RejectKey(c)
    BY <2>5 DEF RejectKey
  <2>6. CASE Allocate(c)
    BY <2>6 DEF Allocate, Needs
  <2>7. CASE AllocationFails(c)
    BY <2>7 DEF AllocationFails, Needs, Got
  <2>8. CASE Register(c)
    BY <2>8 DEF Register
  <2>9. CASE Join(c)
    BY <2>9 DEF Join
  <2>10. CASE DisconnectWait(c)
    BY <2>10 DEF DisconnectWait
  <2>11. CASE Publish(c)
    BY <2>11 DEF Publish
  <2>12. CASE Wake(c)
    BY <2>12 DEF Wake
  <2>13. CASE Timeout(c)
    BY <2>13 DEF Timeout
  <2>14. CASE Woken(c)
    BY <2>14 DEF Woken
  <2>15. CASE LinkUp(c)
    BY <2>15 DEF LinkUp
  <2>16. CASE FreeEarly(c)
    BY <2>16 DEF FreeEarly
  <2>17. CASE FreeSema(c)
    BY <2>17 DEF FreeSema
  <2>18. CASE ClearUser(c)
    BY <2>18 DEF ClearUser
  <2>19. CASE FreeRecord(c)
    BY <2>19 DEF FreeRecord
  <2>20. CASE Unregister(c)
    BY <2>20 DEF Unregister
  <2>21. CASE ClearFlag(c)
    BY <2>21 DEF ClearFlag
  <2>22. CASE Disconnect(c)
    BY <2>22 DEF Disconnect
  <2> QED
    BY <2>1, <2>2, <2>3, <2>4, <2>5, <2>6, <2>7, <2>8, <2>9, <2>10, <2>11, <2>12, <2>13, <2>14, <2>15, <2>16, <2>17, <2>18, <2>19, <2>20, <2>21, <2>22 DEF Step
<1>4. ASSUME NEW d \in Callers, d # c
      PROVE  Held(d)'
  BY <1>4, CallerIsLocal DEF RecordHeld
<1> QED
  BY <1>3, <1>4 DEF RecordHeld

(* A caller's step keeps UserDataLive.                                       *)
LEMMA CallerKeepsUser ==
  ASSUME TypeOK, RecordHeld, UserDataLive, NEW c \in Callers, Call(c) \/ Step(c) \/ Disconnect(c)
  PROVE  UserDataLive'
<1>1. pc \in [Callers -> Pcs] /\ call \in [Callers -> Arguments]
      /\ heap \in [Callers -> SUBSET {"record", "password", "sema"}]
      /\ call[c].kind \in {"ssid", "bssid"}
      /\ joinUser \in Callers \cup {None}
  BY DEF TypeOK, Arguments
<1>2. CASE joinUser \in Callers /\ joinUser # c /\ UNCHANGED joinUser
  BY <1>2, CallerIsLocal DEF UserDataLive
<1>3. CASE joinUser' = None
  BY <1>3 DEF UserDataLive
<1>4. CASE Publish(c)
  <2>1. joinUser' = c /\ pc'[c] \in UserPcs /\ UNCHANGED <<call, heap>> /\ pc[c] = "publish"
    BY <1>1, <1>4 DEF Publish, At, Goto, UserPcs
  <2> QED
    BY <2>1 DEF UserDataLive, RecordHeld, HoldsRecord
<1>5. CASE joinUser = c /\ UNCHANGED joinUser
  <2>1. /\ pc[c] \in UserPcs /\ (call[c].kind = "ssid" => "record" \in heap[c])
        /\ (pc[c] = "b_free" => call[c].kind = "bssid")
    BY <1>5, <1>1 DEF UserDataLive, RecordHeld, ConnectAssumption
  <2>2. pc'[c] \in UserPcs /\ (call'[c].kind = "ssid" => "record" \in heap'[c])
    <3> USE <1>1, <1>5, <2>1 DEF At, Goto, Return, Leave, Drop, UserPcs
    <3>1. CASE Call(c)
      BY <3>1 DEF Call
    <3>2. CASE Test(c)
      BY <3>2 DEF Test
    <3>3. CASE Spin(c)
      BY <3>3 DEF Spin
    <3>4. CASE Set(c)
      BY <3>4 DEF Set
    <3>5. CASE RejectKey(c)
      BY <3>5 DEF RejectKey
    <3>6. CASE Allocate(c)
      BY <3>6 DEF Allocate, Needs
    <3>7. CASE AllocationFails(c)
      BY <3>7 DEF AllocationFails, Needs, Got
    <3>8. CASE Register(c)
      BY <3>8 DEF Register
    <3>9. CASE Join(c)
      BY <3>9 DEF Join
    <3>10. CASE DisconnectWait(c)
      BY <3>10 DEF DisconnectWait
    <3>11. CASE Publish(c)
      BY <3>11 DEF Publish
    <3>12. CASE Wake(c)
      BY <3>12 DEF Wake
    <3>13. CASE Timeout(c)
      BY <3>13 DEF Timeout
    <3>14. CASE Woken(c)
      BY <3>14 DEF Woken
    <3>15. CASE LinkUp(c)
      BY <3>15 DEF LinkUp
    <3>16. CASE FreeEarly(c)
      BY <3>16 DEF FreeEarly
    <3>17. CASE FreeSema(c)
      BY <3>17 DEF FreeSema
    <3>18. CASE ClearUser(c)
      BY <3>18 DEF ClearUser
    <3>19. CASE FreeRecord(c)
      BY <3>19 DEF FreeRecord
    <3>20. CASE Unregister(c)
      BY <3>20 DEF Unregister
    <3>21. CASE ClearFlag(c)
      BY <3>21 DEF ClearFlag
    <3>22. CASE Disconnect(c)
      BY <3>22 DEF Disconnect
    <3> QED
      BY <3>1, <3>2, <3>3, <3>4, <3>5, <3>6, <3>7, <3>8, <3>9, <3>10, <3>11, <3>12, <3>13, <3>14, <3>15, <3>16, <3>17, <3>18, <3>19, <3>20, <3>21, <3>22 DEF Step
  <2> QED
    BY <1>5, <2>2 DEF UserDataLive
<1>6. UNCHANGED joinUser \/ joinUser' = None \/ Publish(c)
  <2>1. CASE Call(c)
    BY <2>1 DEF Call
  <2>2. CASE Test(c)
    BY <2>2 DEF Test
  <2>3. CASE Spin(c)
    BY <2>3 DEF Spin
  <2>4. CASE Set(c)
    BY <2>4 DEF Set
  <2>5. CASE RejectKey(c)
    BY <2>5 DEF RejectKey
  <2>6. CASE Allocate(c)
    BY <2>6 DEF Allocate
  <2>7. CASE AllocationFails(c)
    BY <2>7 DEF AllocationFails
  <2>8. CASE Register(c)
    BY <2>8 DEF Register
  <2>9. CASE Join(c)
    BY <2>9 DEF Join
  <2>10. CASE DisconnectWait(c)
    BY <2>10 DEF DisconnectWait
  <2>11. CASE Publish(c)
    BY <2>11 DEF Publish
  <2>12. CASE Wake(c)
    BY <2>12 DEF Wake
  <2>13. CASE Timeout(c)
    BY <2>13 DEF Timeout
  <2>14. CASE Woken(c)
    BY <2>14 DEF Woken
  <2>15. CASE LinkUp(c)
    BY <2>15 DEF LinkUp
  <2>16. CASE FreeEarly(c)
    BY <2>16 DEF FreeEarly
  <2>17. CASE FreeSema(c)
    BY <2>17 DEF FreeSema
  <2>18. CASE ClearUser(c)
    BY <2>18 DEF ClearUser
  <2>19. CASE FreeRecord(c)
    BY <2>19 DEF FreeRecord
  <2>20. CASE Unregister(c)
    BY <2>20 DEF Unregister
  <2>21. CASE ClearFlag(c)
    BY <2>21 DEF ClearFlag
  <2>22. CASE Disconnect(c)
    BY <2>22 DEF Disconnect
  <2> QED
    BY <2>1, <2>2, <2>3, <2>4, <2>5, <2>6, <2>7, <2>8, <2>9, <2>10, <2>11, <2>12, <2>13, <2>14, <2>15, <2>16, <2>17, <2>18, <2>19, <2>20, <2>21, <2>22 DEF Step
<1> QED
  BY <1>1, <1>2, <1>3, <1>4, <1>5, <1>6

(* Whoever runs, and however the calls overlap, join_user_data points to a   *)
(* join_result that its owner has not freed.                                 *)
THEOREM UserDataSafe == Spec => []UserDataLive
<1>1. Init => UserInv
  BY InitType DEF UserInv, Init, RecordHeld, HoldsRecord, UserDataLive
<1>2. UserInv /\ [Next]_vars => UserInv'
  <2> SUFFICES ASSUME UserInv, [Next]_vars PROVE UserInv'
    OBVIOUS
  <2>1. TypeOK'
    BY CallerType, HandlerType, DriverType, StutterType DEF Next, UserInv
  <2>2. CASE HandlerStep \/ DriverStep \/ UNCHANGED vars
    BY <2>1, <2>2, OthersAreLocal DEF UserInv, RecordHeld, UserDataLive
  <2>3. CASE \E c \in Callers : Call(c) \/ Step(c) \/ Disconnect(c)
    BY <2>1, <2>3, CallerKeepsRecord, CallerKeepsUser DEF UserInv
  <2> QED
    BY <2>2, <2>3 DEF Next
<1> QED
  BY <1>1, <1>2, PTL DEF Spec, UserInv

-----------------------------------------------------------------------------
(* What a blocking wifi_connect allocates.                                   *)

(* What makes NothingKept inductive: what such a call still has at each of   *)
(* its statements, until the last of it is freed.                            *)
Allocated(c) ==
  call[c].kind = "ssid" /\ call[c].blocking =>
    /\ pc[c] \in {"test", "spin", "set", "check"} => heap[c] = {}
    /\ pc[c] = "linkup" => heap[c] \subseteq {"record", "sema"}
    /\ pc[c] # "b_free"
    /\ res[c] # "NORESOURCE" =>
         /\ pc[c] = "x_sema" => heap[c] \subseteq {"record", "sema"}
         /\ pc[c] \in {"x_user", "x_rec"} => heap[c] \subseteq {"record"}
         /\ pc[c] \in {"x_unreg", "x_clear", "idle"} => heap[c] = {}

LEMMA CallerKeepsAllocated ==
  ASSUME TypeOK, NEW c \in Callers, Call(c) \/ Step(c) \/ Disconnect(c), Allocated(c)
  PROVE  Allocated(c)'
<1>1. pc \in [Callers -> Pcs] /\ call \in [Callers -> Arguments] /\ res \in [Callers -> Results]
      /\ heap \in [Callers -> SUBSET {"record", "password", "sema"}]
      /\ call[c].kind \in {"ssid", "bssid"}
  BY DEF TypeOK, Arguments
<1> USE <1>1 DEF Allocated, At, Goto, Return, Leave, Drop
<1>2. CASE Call(c)
  BY <1>2 DEF Call
<1>3. CASE Test(c)
  BY <1>3 DEF Test
<1>4. CASE Spin(c)
  BY <1>4 DEF Spin
<1>5. CASE Set(c)
  BY <1>5 DEF Set
<1>6. CASE RejectKey(c)
  BY <1>6 DEF RejectKey
<1>7. CASE Allocate(c)
  BY <1>7 DEF Allocate
<1>8. CASE AllocationFails(c)
  BY <1>8 DEF AllocationFails, Needs, Got
<1>9. CASE Register(c)
  BY <1>9 DEF Register
<1>10. CASE Join(c)
  BY <1>10 DEF Join
<1>11. CASE DisconnectWait(c)
  BY <1>11 DEF DisconnectWait
<1>12. CASE Publish(c)
  BY <1>12 DEF Publish
<1>13. CASE Wake(c)
  BY <1>13 DEF Wake
<1>14. CASE Timeout(c)
  BY <1>14 DEF Timeout
<1>15. CASE Woken(c)
  BY <1>15 DEF Woken
<1>16. CASE LinkUp(c)
  BY <1>16 DEF LinkUp
<1>17. CASE FreeEarly(c)
  BY <1>17 DEF FreeEarly
<1>18. CASE FreeSema(c)
  BY <1>18 DEF FreeSema
<1>19. CASE ClearUser(c)
  BY <1>19 DEF ClearUser
<1>20. CASE FreeRecord(c)
  BY <1>20 DEF FreeRecord
<1>21. CASE Unregister(c)
  BY <1>21 DEF Unregister
<1>22. CASE ClearFlag(c)
  BY <1>22 DEF ClearFlag
<1>23. CASE Disconnect(c)
  BY <1>23 DEF Disconnect
<1> QED
  BY <1>2, <1>3, <1>4, <1>5, <1>6, <1>7, <1>8, <1>9, <1>10, <1>11, <1>12, <1>13, <1>14, <1>15, <1>16, <1>17, <1>18, <1>19, <1>20, <1>21, <1>22, <1>23 DEF Step

(* NothingKept of WifiConnect: on every way out of a blocking wifi_connect,  *)
(* but the one the property names, everything it allocated has been freed,   *)
(* however the calls of any number of tasks overlap.                         *)
THEOREM NothingKeptHolds == Spec => []NothingKept
<1> DEFINE KeptInv == TypeOK /\ \A c \in Callers : Allocated(c)
<1>1. Init => KeptInv
  BY InitType DEF Init, Allocated
<1>2. KeptInv /\ [Next]_vars => KeptInv'
  <2> SUFFICES ASSUME KeptInv, [Next]_vars PROVE KeptInv'
    OBVIOUS
  <2>1. TypeOK'
    BY CallerType, HandlerType, DriverType, StutterType DEF Next
  <2>2. CASE HandlerStep \/ DriverStep \/ UNCHANGED vars
    BY <2>1, <2>2, OthersAreLocal DEF Allocated
  <2>3. ASSUME NEW c \in Callers, Call(c) \/ Step(c) \/ Disconnect(c), NEW d \in Callers
        PROVE  Allocated(d)'
    <3>1. CASE d = c
      BY <2>3, <3>1, CallerKeepsAllocated
    <3>2. CASE d # c
      BY <2>3, <3>2, CallerIsLocal DEF Allocated
    <3> QED
      BY <3>1, <3>2
  <2> QED
    BY <2>1, <2>2, <2>3 DEF Next
<1>3. KeptInv => NothingKept
  BY DEF Allocated, NothingKept
<1> QED
  BY <1>1, <1>2, <1>3, PTL DEF Spec

-----------------------------------------------------------------------------
(* The handlers of a join.                                                   *)

Single(t, e) == \A i, j \in Table!RowsOf(t, e, HandlerOf[e]) : i = j

LEMMA HandlerNames ==
  /\ \A e \in Events : HandlerOf[e] \in HandlerSet
  /\ {"NO_NETWORK", "CONNECT", "DISCONNECT", "FOURWAY_HANDSHAKE_DONE"} = Events
  /\ TransientEvents = {"NO_NETWORK", "CONNECT", "FOURWAY_HANDSHAKE_DONE"}
BY DEF HandlerSet, JoinHandlers, Events, TransientEvents

(* One registration, or one unregistration, at a time.                       *)
LEMMA RegOne ==
  ASSUME NEW t \in Table!Tables, NEW e \in Events
  PROVE  /\ Table!Reg(t, e, HandlerOf[e]) \in Table!Tables
         /\ \A d \in Events : Single(t, d) => Single(Table!Reg(t, e, HandlerOf[e]), d)
BY HandlerNames, TableType, RegRows DEF Single

LEMMA UnregOne ==
  ASSUME NEW t \in Table!Tables, NEW e \in Events
  PROVE  /\ Table!Unreg(t, e, HandlerOf[e]) \in Table!Tables
         /\ \A d \in Events : d # e =>
              Table!RowsOf(Table!Unreg(t, e, HandlerOf[e]), d, HandlerOf[d])
                = Table!RowsOf(t, d, HandlerOf[d])
         /\ Single(t, e) => Table!RowsOf(Table!Unreg(t, e, HandlerOf[e]), e, HandlerOf[e]) = {}
<1>1. \A d \in Events : d # e => <<d, HandlerOf[d]>> # <<e, HandlerOf[e]>>
  OBVIOUS
<1> QED
  BY <1>1, HandlerNames, TableType, UnregRows DEF Single

(* The registrations of a join register no handler twice.                    *)
LEMMA RegisterAllSingle ==
  ASSUME NEW t \in Table!Tables, NEW d \in Events, Single(t, d)
  PROVE  Single(RegisterAll(t), d)
<1> DEFINE t1 == Table!Reg(t, "NO_NETWORK", HandlerOf["NO_NETWORK"])
           t2 == Table!Reg(t1, "CONNECT", HandlerOf["CONNECT"])
           t3 == Table!Reg(t2, "DISCONNECT", HandlerOf["DISCONNECT"])
           t4 == Table!Reg(t3, "FOURWAY_HANDSHAKE_DONE", HandlerOf["FOURWAY_HANDSHAKE_DONE"])
<1>0. /\ "NO_NETWORK" \in Events /\ "CONNECT" \in Events /\ "DISCONNECT" \in Events
      /\ "FOURWAY_HANDSHAKE_DONE" \in Events
  BY DEF Events
<1>1. t1 \in Table!Tables /\ Single(t1, d)
  BY <1>0, RegOne
<1> HIDE DEF t1
<1>2. t2 \in Table!Tables /\ Single(t2, d)
  BY <1>0, <1>1, RegOne
<1> HIDE DEF t2
<1>3. t3 \in Table!Tables /\ Single(t3, d)
  BY <1>0, <1>2, RegOne
<1> HIDE DEF t3
<1>4. Single(t4, d)
  BY <1>0, <1>3, RegOne
<1> QED
  BY <1>4 DEF RegisterAll, t1, t2, t3

(* The unregistrations leave none of the three handlers in the table.        *)
LEMMA UnregisterAllGone ==
  ASSUME NEW t \in Table!Tables, \A e \in TransientEvents : Single(t, e),
         NEW d \in TransientEvents
  PROVE  Table!RowsOf(UnregisterAll(t), d, HandlerOf[d]) = {}
<1> DEFINE t1 == Table!Unreg(t, "CONNECT", HandlerOf["CONNECT"])
           t2 == Table!Unreg(t1, "NO_NETWORK", HandlerOf["NO_NETWORK"])
           t3 == Table!Unreg(t2, "FOURWAY_HANDSHAKE_DONE", HandlerOf["FOURWAY_HANDSHAKE_DONE"])
           RowsIn(u, e) == Table!RowsOf(u, e, HandlerOf[e])
<1>0. /\ "NO_NETWORK" \in Events /\ "CONNECT" \in Events /\ "FOURWAY_HANDSHAKE_DONE" \in Events
      /\ TransientEvents = {"NO_NETWORK", "CONNECT", "FOURWAY_HANDSHAKE_DONE"}
  BY HandlerNames DEF Events
<1>1. /\ t1 \in Table!Tables /\ RowsIn(t1, "CONNECT") = {}
      /\ \A e \in Events : e # "CONNECT" => RowsIn(t1, e) = RowsIn(t, e)
  <2>1. Single(t, "CONNECT")
    BY <1>0
  <2> QED
    BY <1>0, <2>1, UnregOne
<1> HIDE DEF t1
<1>2. /\ t2 \in Table!Tables /\ RowsIn(t2, "NO_NETWORK") = {}
      /\ \A e \in Events : e # "NO_NETWORK" => RowsIn(t2, e) = RowsIn(t1, e)
  <2>1. Single(t1, "NO_NETWORK")
    <3>1. Single(t, "NO_NETWORK") /\ RowsIn(t1, "NO_NETWORK") = RowsIn(t, "NO_NETWORK")
      BY <1>0, <1>1
    <3> QED
      BY <3>1 DEF Single
  <2> QED
    BY <1>0, <1>1, <2>1, UnregOne
<1> HIDE DEF t2
<1>3. /\ RowsIn(t3, "FOURWAY_HANDSHAKE_DONE") = {}
      /\ \A e \in Events : e # "FOURWAY_HANDSHAKE_DONE" => RowsIn(t3, e) = RowsIn(t2, e)
  <2>1. Single(t2, "FOURWAY_HANDSHAKE_DONE")
    <3>1. Single(t, "FOURWAY_HANDSHAKE_DONE")
          /\ RowsIn(t2, "FOURWAY_HANDSHAKE_DONE") = RowsIn(t, "FOURWAY_HANDSHAKE_DONE")
      BY <1>0, <1>1, <1>2
    <3> QED
      BY <3>1 DEF Single
  <2> QED
    BY <1>0, <1>2, <2>1, UnregOne
<1>4. RowsIn(t3, d) = {}
  BY <1>0, <1>1, <1>2, <1>3
<1> QED
  BY <1>4 DEF UnregisterAll, t1, t2

(* Only the unregistrations end a caller's stay among the handlers' owners,  *)
(* and only they and the registrations change the table.                     *)
LEMMA OwnerStays ==
  ASSUME TypeOK, NEW c \in Callers, Call(c) \/ Step(c) \/ Disconnect(c)
  PROVE  \/ /\ UNCHANGED table /\ (pc[c] \in HandlerPcs => pc'[c] \in HandlerPcs)
         \/ Register(c) /\ pc'[c] \in HandlerPcs
         \/ Unregister(c)
<1>1. pc \in [Callers -> Pcs]
  BY DEF TypeOK
<1> USE <1>1 DEF At, Goto, Return, Leave, HandlerPcs
<1>2. CASE Call(c)
  BY <1>2 DEF Call
<1>3. CASE Test(c)
  BY <1>3 DEF Test
<1>4. CASE Spin(c)
  BY <1>4 DEF Spin
<1>5. CASE Set(c)
  BY <1>5 DEF Set
<1>6. CASE RejectKey(c)
  BY <1>6 DEF RejectKey
<1>7. CASE Allocate(c)
  BY <1>7 DEF Allocate
<1>8. CASE AllocationFails(c)
  BY <1>8 DEF AllocationFails
<1>9. CASE Register(c)
  BY <1>9 DEF Register
<1>10. CASE Join(c)
  BY <1>10 DEF Join
<1>11. CASE DisconnectWait(c)
  BY <1>11 DEF DisconnectWait
<1>12. CASE Publish(c)
  BY <1>12 DEF Publish
<1>13. CASE Wake(c)
  BY <1>13 DEF Wake
<1>14. CASE Timeout(c)
  BY <1>14 DEF Timeout
<1>15. CASE Woken(c)
  BY <1>15 DEF Woken
<1>16. CASE LinkUp(c)
  BY <1>16 DEF LinkUp
<1>17. CASE FreeEarly(c)
  BY <1>17 DEF FreeEarly
<1>18. CASE FreeSema(c)
  BY <1>18 DEF FreeSema
<1>19. CASE ClearUser(c)
  BY <1>19 DEF ClearUser
<1>20. CASE FreeRecord(c)
  BY <1>20 DEF FreeRecord
<1>21. CASE Unregister(c)
  BY <1>21 DEF Unregister
<1>22. CASE ClearFlag(c)
  BY <1>22 DEF ClearFlag
<1>23. CASE Disconnect(c)
  BY <1>23 DEF Disconnect
<1> QED
  BY <1>2, <1>3, <1>4, <1>5, <1>6, <1>7, <1>8, <1>9, <1>10, <1>11, <1>12, <1>13, <1>14, <1>15, <1>16, <1>17, <1>18, <1>19, <1>20, <1>21, <1>22, <1>23 DEF Step

LEMMA OthersKeepTable ==
  ASSUME HandlerStep \/ DriverStep \/ UNCHANGED vars
  PROVE  UNCHANGED <<pc, table>>
<1>1. CASE HandlerStep
  BY <1>1 DEF HandlerStep, Pop, NoNetworkHdl, ConnectedHdl, HandshakeDoneHdl, HandlerUp, DisconnHdl,
     DisconnHdlRelease, apiVars
<1>2. CASE DriverStep
  BY <1>2, DriverMoveIsOne DEF DriverMoves, apiVars
<1>3. CASE UNCHANGED vars
  BY <1>3 DEF vars
<1> QED
  BY <1>1, <1>2, <1>3

TableInv == TypeOK /\ HandlersOwned

(* A caller's step keeps HandlersOwned.                                      *)
LEMMA CallerKeepsHandlers ==
  ASSUME TypeOK, HandlersOwned, NEW c \in Callers, Call(c) \/ Step(c) \/ Disconnect(c)
  PROVE  HandlersOwned'
<1>1. table \in Table!Tables /\ \A e \in TransientEvents : Single(table, e)
  BY DEF TypeOK, HandlersOwned, Single
<1>2. CASE UNCHANGED table /\ (pc[c] \in HandlerPcs => pc'[c] \in HandlerPcs)
  <2>1. \A d \in Callers : pc[d] \in HandlerPcs => pc'[d] \in HandlerPcs
    BY <1>2, CallerIsLocal
  <2> QED
    BY <1>2, <2>1 DEF HandlersOwned, Registered, Table!IsRegistered, Table!RowsOf
<1>3. CASE Register(c) /\ pc'[c] \in HandlerPcs
  <2>1. table' = RegisterAll(table)
    BY <1>3 DEF Register
  <2>2. \A e \in TransientEvents : Single(table', e)
    BY <1>1, <2>1, RegisterAllSingle DEF TransientEvents
  <2> QED
    BY <1>3, <2>2 DEF HandlersOwned, Single, Table!RowsOf
<1>4. CASE Unregister(c)
  <2>1. table' = UnregisterAll(table)
    BY <1>4 DEF Unregister
  <2>2. \A e \in TransientEvents : Table!RowsOf(table', e, HandlerOf[e]) = {}
    BY <1>1, <2>1, UnregisterAllGone
  <2> QED
    BY <2>2 DEF HandlersOwned, Registered, Table!IsRegistered, Table!RowsOf
<1> QED
  BY <1>2, <1>3, <1>4, OwnerStays

(* For any number of overlapping calls, with any number of rows and whatever *)
(* else the application has registered: no join leaves one of its handlers   *)
(* behind once every call has returned, and none is in the table twice.      *)
THEOREM HandlersSafe == Spec => []HandlersOwned
<1>1. Init => HandlersOwned
  <2> SUFFICES ASSUME Init, NEW e \in TransientEvents
               PROVE  Table!RowsOf(table, e, HandlerOf[e]) = {}
    BY DEF HandlersOwned, Registered, Table!IsRegistered, Table!RowsOf
  <2>1. e \in Events /\ HandlerOf[e] # None /\ HandlerOf[e] # "app"
    BY DEF TransientEvents, Events, HandlerOf, JoinHandlers, ConnectAssumption
  <2> QED
    BY <2>1 DEF Init, Table!RowsOf, Table!Rows
<1>2. TableInv /\ [Next]_vars => TableInv'
  <2> SUFFICES ASSUME TableInv, [Next]_vars PROVE TableInv'
    OBVIOUS
  <2>1. TypeOK'
    BY CallerType, HandlerType, DriverType, StutterType DEF Next, TableInv
  <2>2. CASE HandlerStep \/ DriverStep \/ UNCHANGED vars
    BY <2>1, <2>2, OthersKeepTable
       DEF TableInv, HandlersOwned, Registered, Table!IsRegistered, Table!RowsOf
  <2>3. CASE \E c \in Callers : Call(c) \/ Step(c) \/ Disconnect(c)
    BY <2>1, <2>3, CallerKeepsHandlers DEF TableInv
  <2> QED
    BY <2>2, <2>3 DEF Next
<1> QED
  BY <1>1, <1>2, InitType, PTL DEF Spec, TableInv

-----------------------------------------------------------------------------
(* JOIN_CONNECTING.                                                          *)

(* What makes ConnectingOwned inductive: when the handlers' thread outranks  *)
(* the callers, an event of a join that is waiting for its handler, or being *)
(* handled, still has a join it belongs to.                                  *)
Pending(e) == (run # None /\ run.ev = e) \/ \E i \in DOMAIN queue : queue[i].ev = e
RunOwned ==
  HandlerFirst /\ (\E e \in TransientEvents : Pending(e)) => \E c \in Callers : pc[c] \in HandlerPcs

(* With such a thread no event is being handled when a caller runs.          *)
LEMMA CallerRunsAlone ==
  ASSUME HandlerFirst, NEW c \in Callers, Call(c) \/ Step(c) \/ Disconnect(c)
  PROVE  run = None /\ queue = <<>> /\ UNCHANGED run
<1>1. CASE Call(c)
  BY <1>1 DEF Call, At, MayRun
<1>2. CASE Test(c)
  BY <1>2 DEF Test, At, MayRun
<1>3. CASE Spin(c)
  BY <1>3 DEF Spin, At, MayRun
<1>4. CASE Set(c)
  BY <1>4 DEF Set, At, MayRun
<1>5. CASE RejectKey(c)
  BY <1>5 DEF RejectKey, At, MayRun
<1>6. CASE Allocate(c)
  BY <1>6 DEF Allocate, At, MayRun
<1>7. CASE AllocationFails(c)
  BY <1>7 DEF AllocationFails, At, MayRun
<1>8. CASE Register(c)
  BY <1>8 DEF Register, At, MayRun
<1>9. CASE Join(c)
  BY <1>9 DEF Join, At, MayRun
<1>10. CASE DisconnectWait(c)
  BY <1>10 DEF DisconnectWait, At, MayRun
<1>11. CASE Publish(c)
  BY <1>11 DEF Publish, At, MayRun
<1>12. CASE Wake(c)
  BY <1>12 DEF Wake, At, MayRun
<1>13. CASE Timeout(c)
  BY <1>13 DEF Timeout, At, MayRun
<1>14. CASE Woken(c)
  BY <1>14 DEF Woken, At, MayRun
<1>15. CASE LinkUp(c)
  BY <1>15 DEF LinkUp, At, MayRun
<1>16. CASE FreeEarly(c)
  BY <1>16 DEF FreeEarly, At, MayRun
<1>17. CASE FreeSema(c)
  BY <1>17 DEF FreeSema, At, MayRun
<1>18. CASE ClearUser(c)
  BY <1>18 DEF ClearUser, At, MayRun
<1>19. CASE FreeRecord(c)
  BY <1>19 DEF FreeRecord, At, MayRun
<1>20. CASE Unregister(c)
  BY <1>20 DEF Unregister, At, MayRun
<1>21. CASE ClearFlag(c)
  BY <1>21 DEF ClearFlag, At, MayRun
<1>22. CASE Disconnect(c)
  BY <1>22 DEF Disconnect, At, MayRun
<1> QED
  BY <1>1, <1>2, <1>3, <1>4, <1>5, <1>6, <1>7, <1>8, <1>9, <1>10, <1>11, <1>12, <1>13, <1>14, <1>15, <1>16, <1>17, <1>18, <1>19, <1>20, <1>21, <1>22 DEF Step

(* With such a thread a caller's step leaves no event of a join pending.     *)
LEMMA CallerLeavesNoneRunning ==
  ASSUME TypeOK, HandlerFirst, NEW c \in Callers, Call(c) \/ Step(c) \/ Disconnect(c),
         NEW e \in TransientEvents
  PROVE  ~Pending(e)'
<1>1. run = None /\ queue = <<>> /\ UNCHANGED run
  BY CallerRunsAlone
<1>2. UNCHANGED queue \/ \E why \in AllReasons : Push("DISCONNECT", why)
  <2> USE DEF AllReasons
  <2>1. CASE Call(c)
    BY <2>1 DEF Call
  <2>2. CASE Spin(c)
    BY <2>2 DEF Spin
  <2>3. CASE Set(c)
    BY <2>3 DEF Set
  <2>4. CASE RejectKey(c)
    BY <2>4 DEF RejectKey
  <2>5. CASE Allocate(c)
    BY <2>5 DEF Allocate
  <2>6. CASE AllocationFails(c)
    BY <2>6 DEF AllocationFails
  <2>7. CASE Register(c)
    BY <2>7 DEF Register
  <2>8. CASE DisconnectWait(c)
    BY <2>8 DEF DisconnectWait
  <2>9. CASE Publish(c)
    BY <2>9 DEF Publish
  <2>10. CASE Wake(c)
    BY <2>10 DEF Wake
  <2>11. CASE Timeout(c)
    BY <2>11 DEF Timeout
  <2>12. CASE Woken(c)
    BY <2>12 DEF Woken
  <2>13. CASE LinkUp(c)
    BY <2>13 DEF LinkUp
  <2>14. CASE FreeEarly(c)
    BY <2>14 DEF FreeEarly
  <2>15. CASE FreeSema(c)
    BY <2>15 DEF FreeSema
  <2>16. CASE ClearUser(c)
    BY <2>16 DEF ClearUser
  <2>17. CASE FreeRecord(c)
    BY <2>17 DEF FreeRecord
  <2>18. CASE Unregister(c)
    BY <2>18 DEF Unregister
  <2>19. CASE ClearFlag(c)
    BY <2>19 DEF ClearFlag
  <2>20. \A why \in AllReasons : IndicateDisconnect(why) => UNCHANGED queue \/ Push("DISCONNECT", why)
    BY DEF IndicateDisconnect
  <2>21. DropLink => UNCHANGED queue \/ Push("DISCONNECT", "deauth")
    BY <2>20 DEF DropLink
  <2>22. CASE Test(c)
    BY <2>21, <2>22 DEF Test
  <2>23. CASE Join(c)
    BY <2>20, <2>23 DEF Join
  <2>24. CASE Disconnect(c)
    BY <2>21, <2>24 DEF Disconnect
  <2> QED
    BY <2>1, <2>2, <2>3, <2>4, <2>5, <2>6, <2>7, <2>8, <2>9, <2>10, <2>11, <2>12, <2>13, <2>14, <2>15, <2>16, <2>17, <2>18, <2>19, <2>22, <2>23, <2>24 DEF Step
<1>3. CASE UNCHANGED queue
  BY <1>1, <1>3 DEF Pending
<1>4. CASE \E why \in AllReasons : Push("DISCONNECT", why)
  <2>1. PICK why \in AllReasons : Push("DISCONNECT", why)
    BY <1>4
  <2>2. queue' = <<[ev |-> "DISCONNECT", why |-> why]>> \/ queue' = <<>>
    BY <1>1, <2>1 DEF Push
  <2>3. e # "DISCONNECT"
    BY DEF TransientEvents
  <2> QED
    BY <1>1, <2>2, <2>3 DEF Pending
<1> QED
  BY <1>2, <1>3, <1>4

(* A handler's step makes no event pending that was not.                     *)
LEMMA HandlerAddsNone ==
  ASSUME TypeOK, HandlerStep, NEW e \in TransientEvents, Pending(e)'
  PROVE  Pending(e)
<1> USE DEF Pending, Runs
<1>1. queue \in Seq(Messages)
  BY DEF TypeOK
<1>2. run # None => run \in Running
  BY DEF TypeOK
<1>3. CASE Pop
  <2>1. queue # <<>> /\ queue' = Tail(queue) /\ run'.ev = queue[1].ev
    BY <1>3 DEF Pop
  <2>2. 1 \in DOMAIN queue
    BY <1>1, <2>1
  <2>3. \A i \in DOMAIN queue' : i + 1 \in DOMAIN queue /\ queue'[i] = queue[i + 1]
    BY <1>1, <2>1
  <2>4. CASE run'.ev = e
    BY <2>1, <2>2, <2>4
  <2>5. CASE \E i \in DOMAIN queue' : queue'[i].ev = e
    BY <2>3, <2>5
  <2> QED
    BY <2>4, <2>5
<1>4. CASE UNCHANGED queue /\ run' = None
  BY <1>4
<1>5. ASSUME UNCHANGED queue, run # None, NEW s, Then(s) PROVE Pending(e)
  <2>1. run'.ev = run.ev
    BY <1>2, <1>5 DEF Then, Running
  <2> QED
    BY <1>5, <2>1
<1>6. CASE ~Pop
  BY <1>4, <1>5, <1>6 DEF HandlerStep, NoNetworkHdl, ConnectedHdl, HandshakeDoneHdl, HandlerUp,
     DisconnHdl, DisconnHdlRelease
<1> QED
  BY <1>3, <1>6

(* The driver makes an event pending only if its handler is registered.      *)
LEMMA DriverAddsRegistered ==
  ASSUME TypeOK, DriverStep, NEW e \in TransientEvents, Pending(e)'
  PROVE  Pending(e) \/ Registered(e)
<1>1. PICK d \in Events, why \in AllReasons : Indicate(d, why)
  BY DriverMoveIsOne DEF DriverMoves
<1>2. queue \in Seq(Messages)
  BY DEF TypeOK
<1>3. CASE UNCHANGED <<queue, run>>
  BY <1>3 DEF Pending
<1>4. CASE Registered(d) /\ Push(d, why) /\ UNCHANGED run
  <2>1. queue' = queue \/ queue' = Append(queue, [ev |-> d, why |-> why])
    BY <1>4 DEF Push
  <2>2. \A i \in DOMAIN queue' : (i \in DOMAIN queue /\ queue'[i] = queue[i]) \/ queue'[i].ev = d
    BY <1>2, <2>1
  <2> QED
    BY <1>4, <2>2 DEF Pending
<1>5. CASE Registered(d) /\ run'.ev = d /\ UNCHANGED queue
  BY <1>5 DEF Pending
<1> QED
  BY <1>1, <1>3, <1>4, <1>5 DEF Indicate

(* A call keeps JOIN_CONNECTING until it clears it.                          *)
LEMMA CallerKeepsFlag ==
  ASSUME TypeOK, NEW c \in Callers, Call(c) \/ Step(c) \/ Disconnect(c)
  PROVE  \/ "CONNECTING" \notin status'
         \/ pc'[c] \in HoldPcs
         \/ UNCHANGED status /\ pc[c] \notin HoldPcs
<1>1. pc \in [Callers -> Pcs]
  BY DEF TypeOK
<1> USE <1>1 DEF At, Goto, Return, Leave, HoldPcs
<1>2. CASE Call(c)
  BY <1>2 DEF Call
<1>3. CASE Test(c)
  BY <1>3 DEF Test
<1>4. CASE Spin(c)
  BY <1>4 DEF Spin
<1>5. CASE Set(c)
  BY <1>5 DEF Set
<1>6. CASE RejectKey(c)
  BY <1>6 DEF RejectKey
<1>7. CASE Allocate(c)
  BY <1>7 DEF Allocate
<1>8. CASE AllocationFails(c)
  BY <1>8 DEF AllocationFails
<1>9. CASE Register(c)
  BY <1>9 DEF Register
<1>10. CASE Join(c)
  BY <1>10 DEF Join
<1>11. CASE DisconnectWait(c)
  BY <1>11 DEF DisconnectWait
<1>12. CASE Publish(c)
  BY <1>12 DEF Publish
<1>13. CASE Wake(c)
  BY <1>13 DEF Wake
<1>14. CASE Timeout(c)
  BY <1>14 DEF Timeout
<1>15. CASE Woken(c)
  BY <1>15 DEF Woken
<1>16. CASE LinkUp(c)
  BY <1>16 DEF LinkUp
<1>17. CASE FreeEarly(c)
  BY <1>17 DEF FreeEarly
<1>18. CASE FreeSema(c)
  BY <1>18 DEF FreeSema
<1>19. CASE ClearUser(c)
  BY <1>19 DEF ClearUser
<1>20. CASE FreeRecord(c)
  BY <1>20 DEF FreeRecord
<1>21. CASE Unregister(c)
  BY <1>21 DEF Unregister
<1>22. CASE ClearFlag(c)
  BY <1>22 DEF ClearFlag
<1>23. CASE Disconnect(c)
  BY <1>23 DEF Disconnect
<1> QED
  BY <1>2, <1>3, <1>4, <1>5, <1>6, <1>7, <1>8, <1>9, <1>10, <1>11, <1>12, <1>13, <1>14, <1>15, <1>16, <1>17, <1>18, <1>19, <1>20, <1>21, <1>22, <1>23 DEF Step

(* A handler sets the flag only when the event of a join is being handled.   *)
LEMMA HandlerSetsFlag ==
  ASSUME HandlerStep \/ DriverStep \/ UNCHANGED vars
  PROVE  UNCHANGED status \/ \E e \in TransientEvents : Pending(e)
<1>1. CASE NoNetworkHdl \/ ConnectedHdl \/ HandshakeDoneHdl
  BY <1>1, HandlerNames DEF NoNetworkHdl, ConnectedHdl, HandshakeDoneHdl, Runs, Pending
<1>2. CASE Pop \/ HandlerUp \/ DisconnHdl \/ DisconnHdlRelease
  BY <1>2 DEF Pop, HandlerUp, DisconnHdl, DisconnHdlRelease
<1>3. CASE DriverStep
  BY <1>3, DriverMoveIsOne DEF DriverMoves
<1>4. CASE UNCHANGED vars
  BY <1>4 DEF vars
<1> QED
  BY <1>1, <1>2, <1>3, <1>4 DEF HandlerStep

(* As long as no caller runs between an indication and the end of its        *)
(* handler, JOIN_CONNECTING always has a call that will clear it, for any    *)
(* number of overlapping calls: no caller waits in its loop for ever for a   *)
(* flag that nobody owns.                                                    *)
THEOREM ConnectingSafe == Spec => []ConnectingOwned
<1>1. Init => RunOwned /\ ConnectingOwned
  BY DEF Init, RunOwned, Pending, ConnectingOwned
<1>2. TypeOK /\ HandlersOwned /\ RunOwned /\ ConnectingOwned /\ [Next]_vars
        => RunOwned' /\ ConnectingOwned'
  <2> SUFFICES ASSUME TypeOK, HandlersOwned, RunOwned, ConnectingOwned, [Next]_vars, HandlerFirst
               PROVE  RunOwned' /\ ConnectingOwned'
    BY DEF RunOwned, ConnectingOwned
  <2>1. CASE HandlerStep \/ DriverStep \/ UNCHANGED vars
    <3>1. UNCHANGED pc
      BY <2>1, OthersKeepTable
    <3>2. ASSUME NEW e \in TransientEvents, Pending(e)'
          PROVE  \E c \in Callers : pc[c] \in HandlerPcs
      <4>1. Pending(e) \/ Registered(e)
        <5>1. CASE UNCHANGED vars
          BY <3>2, <5>1 DEF vars, Pending
        <5> QED
          BY <2>1, <3>2, <5>1, HandlerAddsNone, DriverAddsRegistered
      <4> QED
        BY <4>1 DEF RunOwned, HandlersOwned
    <3>3. RunOwned'
      BY <3>1, <3>2 DEF RunOwned
    <3>4. ConnectingOwned'
      <4>1. CASE UNCHANGED status
        BY <3>1, <4>1 DEF ConnectingOwned
      <4>2. CASE \E e \in TransientEvents : Pending(e)
        BY <3>1, <4>2 DEF RunOwned, ConnectingOwned, HandlerPcs, HoldPcs
      <4> QED
        BY <2>1, <4>1, <4>2, HandlerSetsFlag
    <3> QED
      BY <3>3, <3>4
  <2>2. ASSUME NEW c \in Callers, Call(c) \/ Step(c) \/ Disconnect(c)
        PROVE  RunOwned' /\ ConnectingOwned'
    <3>1. RunOwned'
      BY <2>2, CallerLeavesNoneRunning DEF RunOwned
    <3>2. CASE "CONNECTING" \notin status' \/ pc'[c] \in HoldPcs
      BY <3>1, <3>2 DEF ConnectingOwned
    <3>3. CASE UNCHANGED status /\ pc[c] \notin HoldPcs
      BY <2>2, <3>1, <3>3, CallerIsLocal DEF ConnectingOwned
    <3> QED
      BY <2>2, <3>2, <3>3, CallerKeepsFlag
  <2> QED
    BY <2>1, <2>2 DEF Next
<1> QED
  BY <1>1, <1>2, TypeCorrect, HandlersSafe, PTL DEF Spec


-----------------------------------------------------------------------------
(* The semaphore that a blocking call waits for.                             *)

(* What makes SemaLive inductive: a call that does not return early has its  *)
(* semaphore from its allocation on, and a handler that is about to give one *)
(* has read the pointer that is there.                                       *)
HoldsSema == {"reg", "join", "dwait", "publish", "wait", "woken", "b_free"}
SemaHeld(c) ==
  call[c].blocking /\ (pc[c] \in HoldsSema \/ (pc[c] = "linkup" /\ call[c].kind = "ssid"))
    => "sema" \in heap[c]
RunsUser ==
  HandlerFirst /\ run # None /\ run.step = "up" => joinUser # None /\ run.ptr = joinUser

SemaInv ==
  /\ TypeOK /\ RecordHeld /\ UserDataLive /\ RunsUser
  /\ \A c \in Callers : SemaHeld(c)
  /\ joinUser # None => Givable(joinUser)

LEMMA CallerKeepsSema ==
  ASSUME TypeOK, NEW c \in Callers, Call(c) \/ Step(c) \/ Disconnect(c), SemaHeld(c)
  PROVE  SemaHeld(c)'
<1>0. pc \in [Callers -> Pcs] /\ call \in [Callers -> Arguments]
      /\ heap \in [Callers -> SUBSET {"record", "password", "sema"}]
      /\ call[c].kind \in {"ssid", "bssid"} /\ call[c].blocking \in BOOLEAN
  BY DEF TypeOK, Arguments
<1> USE <1>0 DEF SemaHeld, HoldsSema, At, Goto, Return, Leave, Drop
<1>1. CASE Call(c)
  BY <1>1 DEF Call
<1>2. CASE Test(c)
  BY <1>2 DEF Test
<1>3. CASE Spin(c)
  BY <1>3 DEF Spin
<1>4. CASE Set(c)
  BY <1>4 DEF Set
<1>5. CASE RejectKey(c)
  BY <1>5 DEF RejectKey
<1>6. CASE Allocate(c)
  BY <1>6 DEF Allocate, Needs
<1>7. CASE AllocationFails(c)
  BY <1>7 DEF AllocationFails, Needs, Got
<1>8. CASE Register(c)
  BY <1>8 DEF Register
<1>9. CASE Join(c)
  BY <1>9 DEF Join
<1>10. CASE DisconnectWait(c)
  BY <1>10 DEF DisconnectWait
<1>11. CASE Publish(c)
  BY <1>11 DEF Publish
<1>12. CASE Wake(c)
  BY <1>12 DEF Wake
<1>13. CASE Timeout(c)
  BY <1>13 DEF Timeout
<1>14. CASE Woken(c)
  BY <1>14 DEF Woken
<1>15. CASE LinkUp(c)
  BY <1>15 DEF LinkUp
<1>16. CASE FreeEarly(c)
  BY <1>16 DEF FreeEarly
<1>17. CASE FreeSema(c)
  BY <1>17 DEF FreeSema
<1>18. CASE ClearUser(c)
  BY <1>18 DEF ClearUser
<1>19. CASE FreeRecord(c)
  BY <1>19 DEF FreeRecord
<1>20. CASE Unregister(c)
  BY <1>20 DEF Unregister
<1>21. CASE ClearFlag(c)
  BY <1>21 DEF ClearFlag
<1>22. CASE Disconnect(c)
  BY <1>22 DEF Disconnect
<1> QED
  BY <1>1, <1>2, <1>3, <1>4, <1>5, <1>6, <1>7, <1>8, <1>9, <1>10, <1>11,
     <1>12, <1>13, <1>14, <1>15, <1>16, <1>17, <1>18, <1>19, <1>20, <1>21, <1>22 DEF Step

(* The semaphore of join_user_data goes with the caller's own statements.    *)
LEMMA UserKeepsSema ==
  ASSUME TypeOK, RecordHeld, NEW c \in Callers, Call(c) \/ Step(c) \/ Disconnect(c),
         SemaHeld(c), pc[c] \in UserPcs \ {"x_user"}, Givable(c)
  PROVE  Givable(c)'
<1>0. pc \in [Callers -> Pcs] /\ call \in [Callers -> Arguments]
      /\ heap \in [Callers -> SUBSET {"record", "password", "sema"}]
      /\ call[c].kind \in {"ssid", "bssid"} /\ call[c].blocking \in BOOLEAN
      /\ (pc[c] = "b_free" => call[c].kind = "bssid")
  BY DEF TypeOK, Arguments, RecordHeld
<1> USE <1>0 DEF SemaHeld, HoldsSema, Givable, SemaGone, UserPcs, At, Goto, Return, Leave, Drop
<1>1. CASE Call(c)
  BY <1>1 DEF Call
<1>2. CASE Test(c)
  BY <1>2 DEF Test
<1>3. CASE Spin(c)
  BY <1>3 DEF Spin
<1>4. CASE Set(c)
  BY <1>4 DEF Set
<1>5. CASE RejectKey(c)
  BY <1>5 DEF RejectKey
<1>6. CASE Allocate(c)
  BY <1>6 DEF Allocate, Needs
<1>7. CASE AllocationFails(c)
  BY <1>7 DEF AllocationFails, Needs, Got
<1>8. CASE Register(c)
  BY <1>8 DEF Register
<1>9. CASE Join(c)
  BY <1>9 DEF Join
<1>10. CASE DisconnectWait(c)
  BY <1>10 DEF DisconnectWait
<1>11. CASE Publish(c)
  BY <1>11 DEF Publish
<1>12. CASE Wake(c)
  BY <1>12 DEF Wake
<1>13. CASE Timeout(c)
  BY <1>13 DEF Timeout
<1>14. CASE Woken(c)
  BY <1>14 DEF Woken
<1>15. CASE LinkUp(c)
  BY <1>15 DEF LinkUp
<1>16. CASE FreeEarly(c)
  BY <1>16 DEF FreeEarly
<1>17. CASE FreeSema(c)
  BY <1>17 DEF FreeSema
<1>18. CASE ClearUser(c)
  BY <1>18 DEF ClearUser
<1>19. CASE FreeRecord(c)
  BY <1>19 DEF FreeRecord
<1>20. CASE Unregister(c)
  BY <1>20 DEF Unregister
<1>21. CASE ClearFlag(c)
  BY <1>21 DEF ClearFlag
<1>22. CASE Disconnect(c)
  BY <1>22 DEF Disconnect
<1> QED
  BY <1>1, <1>2, <1>3, <1>4, <1>5, <1>6, <1>7, <1>8, <1>9, <1>10, <1>11,
     <1>12, <1>13, <1>14, <1>15, <1>16, <1>17, <1>18, <1>19, <1>20, <1>21, <1>22 DEF Step

LEMMA CallerMovesUser ==
  ASSUME TypeOK, UserDataLive, NEW c \in Callers, Call(c) \/ Step(c) \/ Disconnect(c), joinUser' # None
  PROVE  \/ joinUser' = joinUser /\ (joinUser = c => pc[c] \in UserPcs \ {"x_user"})
         \/ joinUser' = c /\ Publish(c)
<1>0. pc \in [Callers -> Pcs] /\ (joinUser # None => pc[joinUser] \in UserPcs)
  BY DEF TypeOK, UserDataLive
<1> USE <1>0 DEF UserPcs, At
<1>1. CASE Call(c)
  BY <1>1 DEF Call
<1>2. CASE Test(c)
  BY <1>2 DEF Test
<1>3. CASE Spin(c)
  BY <1>3 DEF Spin
<1>4. CASE Set(c)
  BY <1>4 DEF Set
<1>5. CASE RejectKey(c)
  BY <1>5 DEF RejectKey
<1>6. CASE Allocate(c)
  BY <1>6 DEF Allocate, Needs
<1>7. CASE AllocationFails(c)
  BY <1>7 DEF AllocationFails, Needs, Got
<1>8. CASE Register(c)
  BY <1>8 DEF Register
<1>9. CASE Join(c)
  BY <1>9 DEF Join
<1>10. CASE DisconnectWait(c)
  BY <1>10 DEF DisconnectWait
<1>11. CASE Publish(c)
  BY <1>11 DEF Publish
<1>12. CASE Wake(c)
  BY <1>12 DEF Wake
<1>13. CASE Timeout(c)
  BY <1>13 DEF Timeout
<1>14. CASE Woken(c)
  BY <1>14 DEF Woken
<1>15. CASE LinkUp(c)
  BY <1>15 DEF LinkUp
<1>16. CASE FreeEarly(c)
  BY <1>16 DEF FreeEarly
<1>17. CASE FreeSema(c)
  BY <1>17 DEF FreeSema
<1>18. CASE ClearUser(c)
  BY <1>18 DEF ClearUser
<1>19. CASE FreeRecord(c)
  BY <1>19 DEF FreeRecord
<1>20. CASE Unregister(c)
  BY <1>20 DEF Unregister
<1>21. CASE ClearFlag(c)
  BY <1>21 DEF ClearFlag
<1>22. CASE Disconnect(c)
  BY <1>22 DEF Disconnect
<1> QED
  BY <1>1, <1>2, <1>3, <1>4, <1>5, <1>6, <1>7, <1>8, <1>9, <1>10, <1>11,
     <1>12, <1>13, <1>14, <1>15, <1>16, <1>17, <1>18, <1>19, <1>20, <1>21, <1>22 DEF Step

LEMMA CallerKeepsGivable ==
  ASSUME SemaInv, NEW c \in Callers, Call(c) \/ Step(c) \/ Disconnect(c), joinUser' # None
  PROVE  Givable(joinUser)'
<1> USE DEF SemaInv
<1>1. CASE joinUser' = c /\ Publish(c)
  <2>1. /\ SemaHeld(c) /\ pc[c] = "publish" /\ UNCHANGED <<call, heap>>
    BY <1>1 DEF Publish, At
  <2> QED
    BY <1>1, <2>1 DEF SemaHeld, HoldsSema, Givable
<1>2. CASE joinUser' = joinUser /\ joinUser = c /\ pc[c] \in UserPcs \ {"x_user"}
  <2>1. Givable(c)'
    BY <1>2, UserKeepsSema
  <2> QED
    BY <1>2, <2>1 DEF Givable, SemaGone
<1>3. CASE joinUser' = joinUser /\ joinUser # c
  <2>1. joinUser \in Callers
    BY <1>3 DEF TypeOK
  <2>2. pc'[joinUser] = pc[joinUser] /\ heap'[joinUser] = heap[joinUser] /\ call'[joinUser] = call[joinUser]
    BY <1>3, <2>1, CallerIsLocal
  <2> QED
    BY <1>3, <2>2 DEF Givable, SemaGone
<1> QED
  BY <1>1, <1>2, <1>3, CallerMovesUser

LEMMA HandlerKeepsUser ==
  ASSUME TypeOK, RunsUser, HandlerStep \/ DriverStep
  PROVE  RunsUser'
<1>1. joinUser' = joinUser /\ (run # None => run \in Running)
  BY OthersAreLocal DEF TypeOK
<1>2. ASSUME NEW s, Then(s), run # None PROVE run'.step = s /\ run'.ptr = joinUser
  BY <1>1, <1>2 DEF Then, Running
<1>3. CASE Pop
  BY <1>3 DEF Pop, RunsUser
<1>4. CASE run' = None \/ run' = run
  BY <1>1, <1>4 DEF RunsUser
<1>5. CASE ConnectedHdl \/ HandshakeDoneHdl
  <2>1. run' = None \/ (joinUser # None /\ Then("up") /\ run # None)
    BY <1>5 DEF ConnectedHdl, HandshakeDoneHdl, Runs
  <2> QED
    BY <1>1, <1>2, <1>4, <2>1 DEF RunsUser
<1>6. CASE DisconnHdl
  BY <1>2, <1>6 DEF DisconnHdl, Runs, RunsUser
<1>7. CASE NoNetworkHdl \/ HandlerUp \/ DisconnHdlRelease
  BY <1>4, <1>7 DEF NoNetworkHdl, HandlerUp, DisconnHdlRelease
<1>8. CASE DriverStep
  <2>1. PICK e \in Events, why \in AllReasons : Indicate(e, why)
    BY <1>8, DriverMoveIsOne DEF DriverMoves
  <2>2. run' = run \/ run' = [ev |-> e, why |-> why, step |-> "body", ptr |-> None]
    BY <2>1 DEF Indicate
  <2> QED
    BY <1>4, <2>2 DEF RunsUser
<1> QED
  BY <1>3, <1>5, <1>6, <1>7, <1>8 DEF HandlerStep

(* SemaLive of WifiConnect: a handler never gives a join_sema that has been  *)
(* deleted, for any number of overlapping calls of either function, except   *)
(* in the statements between rtw_free_sema and join_user_data = NULL.        *)
THEOREM SemaLiveHolds == Spec => []SemaLive
<1>1. Init => SemaInv
  <2> SUFFICES ASSUME Init PROVE SemaInv
    OBVIOUS
  <2>1. joinUser = None /\ run = None /\ \A c \in Callers : pc[c] = "idle"
    BY DEF Init
  <2> QED
    BY <2>1, InitType DEF SemaInv, RecordHeld, HoldsRecord, UserDataLive, RunsUser, SemaHeld, HoldsSema
<1>2. SemaInv /\ [Next]_vars => SemaInv'
  <2> SUFFICES ASSUME SemaInv, [Next]_vars PROVE SemaInv'
    OBVIOUS
  <2>1. TypeOK'
    BY CallerType, HandlerType, DriverType, StutterType DEF Next, SemaInv
  <2>2. CASE HandlerStep \/ DriverStep \/ UNCHANGED vars
    <3>1. UNCHANGED <<pc, heap, call, joinUser>>
      BY <2>2, OthersAreLocal
    <3>2. RunsUser'
      BY <2>2, HandlerKeepsUser DEF SemaInv, RunsUser, vars
    <3>3. RecordHeld' /\ UserDataLive' /\ \A c \in Callers : SemaHeld(c)'
      BY <3>1 DEF SemaInv, RecordHeld, UserDataLive, SemaHeld
    <3>4. (joinUser # None => Givable(joinUser))'
      BY <3>1 DEF SemaInv, Givable, SemaGone
    <3> QED
      BY <2>1, <3>2, <3>3, <3>4 DEF SemaInv
  <2>3. ASSUME NEW c \in Callers, Call(c) \/ Step(c) \/ Disconnect(c) PROVE SemaInv'
    <3>1. RecordHeld' /\ UserDataLive'
      BY <2>3, CallerKeepsRecord, CallerKeepsUser DEF SemaInv
    <3>2. RunsUser'
      BY <2>3, CallerRunsAlone DEF RunsUser
    <3>3. ASSUME NEW d \in Callers PROVE SemaHeld(d)'
      <4>1. CASE d = c
        BY <2>3, <4>1, CallerKeepsSema DEF SemaInv
      <4>2. CASE d # c
        BY <2>3, <4>2, CallerIsLocal DEF SemaInv, SemaHeld
      <4> QED
        BY <4>1, <4>2
    <3>4. (joinUser # None => Givable(joinUser))'
      BY <2>3, CallerKeepsGivable
    <3> QED
      BY <2>1, <3>1, <3>2, <3>3, <3>4 DEF SemaInv
  <2> QED
    BY <2>2, <2>3 DEF Next
<1>3. SemaInv => SemaLive
  BY DEF SemaInv, RunsUser, SemaLive
<1> QED
  BY <1>1, <1>2, <1>3, PTL DEF Spec

-----------------------------------------------------------------------------
(* One caller. join_user_data is its own, from Publish to ClearUser.         *)

LEMMA OnlyUser ==
  ASSUME TypeOK, UserDataLive, NEW c, Callers = {c}, joinUser # None
  PROVE  joinUser = c /\ pc[c] \in UserPcs
BY DEF TypeOK, UserDataLive

(* What wifi_connected_hdl has left in rtw_join_status once it has seen the  *)
(* join in progress: links, until the keys are there or the network is not.  *)
AfterConnected == {Linked, WithKeys, {"NO_NETWORKS", "CONNECTING"}}
SeenJoin(c) ==
  /\ call[c].sec \in Securities \cup {"OPEN"}
  /\ att.seen /\ joinUser # None /\ call[c].sec # "WPA2_AES" => status \in AfterConnected
  /\ pc[c] \in {"check", "reg", "join", "dwait", "publish"} => ~att.seen

LEMMA CallerKeepsSeen ==
  ASSUME TypeOK, UserDataLive, NEW c, Callers = {c}, SeenJoin(c), Call(c) \/ Step(c) \/ Disconnect(c)
  PROVE  SeenJoin(c)'
<1>1. /\ pc \in [Callers -> Pcs] /\ call \in [Callers -> Arguments] /\ c \in Callers
      /\ att \in [assoc : BOOLEAN, nonet : BOOLEAN, seen : BOOLEAN]
  BY DEF TypeOK
<1>2. joinUser # None => pc[c] \in UserPcs
  BY OnlyUser
<1> USE <1>1, <1>2 DEF SeenJoin, At, Goto, Return, Leave, UserPcs
<1>3. CASE Call(c)
  BY <1>3 DEF Call
<1>4. CASE Test(c)
  BY <1>4 DEF Test
<1>5. CASE Spin(c)
  BY <1>5 DEF Spin
<1>6. CASE Set(c)
  BY <1>6 DEF Set
<1>7. CASE RejectKey(c)
  BY <1>7 DEF RejectKey
<1>8. CASE Allocate(c)
  BY <1>8 DEF Allocate
<1>9. CASE AllocationFails(c)
  BY <1>9 DEF AllocationFails
<1>10. CASE Register(c)
  BY <1>10 DEF Register
<1>11. CASE Join(c)
  BY <1>11 DEF Join
<1>12. CASE DisconnectWait(c)
  BY <1>12 DEF DisconnectWait
<1>13. CASE Publish(c)
  BY <1>13 DEF Publish
<1>14. CASE Wake(c)
  BY <1>14 DEF Wake
<1>15. CASE Timeout(c)
  BY <1>15 DEF Timeout
<1>16. CASE Woken(c)
  BY <1>16 DEF Woken
<1>17. CASE LinkUp(c)
  BY <1>17 DEF LinkUp
<1>18. CASE FreeEarly(c)
  BY <1>18 DEF FreeEarly
<1>19. CASE FreeSema(c)
  BY <1>19 DEF FreeSema
<1>20. CASE ClearUser(c)
  BY <1>20 DEF ClearUser
<1>21. CASE FreeRecord(c)
  BY <1>21 DEF FreeRecord
<1>22. CASE Unregister(c)
  BY <1>22 DEF Unregister
<1>23. CASE ClearFlag(c)
  BY <1>23 DEF ClearFlag
<1>24. CASE Disconnect(c)
  BY <1>24 DEF Disconnect
<1> QED
  BY <1>3, <1>4, <1>5, <1>6, <1>7, <1>8, <1>9, <1>10, <1>11, <1>12, <1>13, <1>14, <1>15, <1>16, <1>17, <1>18, <1>19, <1>20, <1>21, <1>22, <1>23, <1>24 DEF Step

(* A handler moves rtw_join_status only to one of those values.              *)
LEMMA HandlerKeepsSeen ==
  ASSUME TypeOK, UserDataLive, NEW c, Callers = {c}, SeenJoin(c), HandlerStep
  PROVE  SeenJoin(c)'
<1>1. /\ c \in Callers /\ call[c] \in Arguments
      /\ att \in [assoc : BOOLEAN, nonet : BOOLEAN, seen : BOOLEAN]
  BY DEF TypeOK
<1>2. joinUser # None => joinUser = c /\ pc[c] \in UserPcs
  BY OnlyUser
<1>3. UNCHANGED <<pc, call, joinUser>>
  BY OthersAreLocal
<1>4. CASE ConnectedHdl
  <2>1. att'.seen = (joinUser # None)
    BY <1>1, <1>4 DEF ConnectedHdl
  <2>2. CASE joinUser = None
    BY <1>3, <2>1, <2>2 DEF SeenJoin
  <2>3. CASE joinUser # None
    <3>1. pc[c] \notin {"check", "reg", "join", "dwait", "publish"}
      BY <1>2, <2>3 DEF UserPcs
    <3>2. call[c].sec # "WPA2_AES" => status' = Linked
      BY <1>1, <1>2, <1>4, <2>3 DEF ConnectedHdl, Arguments, AllSecurities, Keyless
    <3> QED
      BY <1>3, <3>1, <3>2 DEF SeenJoin, AfterConnected
  <2> QED
    BY <2>2, <2>3
<1>5. CASE NoNetworkHdl
  BY <1>3, <1>5 DEF NoNetworkHdl, SeenJoin, AfterConnected
<1>6. CASE HandshakeDoneHdl
  BY <1>3, <1>6 DEF HandshakeDoneHdl, SeenJoin, AfterConnected
<1>7. CASE Pop \/ HandlerUp \/ DisconnHdl \/ DisconnHdlRelease
  BY <1>3, <1>7 DEF Pop, HandlerUp, DisconnHdl, DisconnHdlRelease, SeenJoin
<1> QED
  BY <1>4, <1>5, <1>6, <1>7 DEF HandlerStep

LEMMA DriverKeepsSeen ==
  ASSUME TypeOK, NEW c, Callers = {c}, SeenJoin(c), DriverStep
  PROVE  SeenJoin(c)'
<1>1. att'.seen = att.seen
  BY DriverMoveIsOne DEF TypeOK
<1>2. UNCHANGED <<pc, call, joinUser, status>>
  BY DriverMoveIsOne DEF DriverMoves, apiVars
<1> QED
  BY <1>1, <1>2 DEF SeenJoin

(* A lost key exchange is blamed on the key.                                 *)
LEMMA KeyIsBlamed ==
  ASSUME TypeOK, UserDataLive, NEW c, Callers = {c}, SeenJoin(c), "WPA2_AES" \notin Securities,
         HandlerFirst, Next,
         Runs("DISCONNECT", "body"), run.why \in {"other", "hsTimeout"}, joinUser # None, att.seen,
         drv.st = "idle", status \cap {"NO_NETWORKS", "HANDSHAKE_DONE"} = {},
         call[joinUser].sec \notin Keyless
  PROVE  errorFlag' \in {"WRONG_PASSWORD", "HANDSHAKE_TIMEOUT"}
<1>1. joinUser = c /\ c \in Callers /\ call[c] \in Arguments
  BY OnlyUser DEF TypeOK
<1>2. call[c].sec = "WPA"
  BY <1>1 DEF SeenJoin, Arguments, AllSecurities, Keyless
<1>3. status = Linked
  BY <1>1, <1>2 DEF SeenJoin, AfterConnected, WithKeys
<1>4. Classify(run.why) \in {"WRONG_PASSWORD", "HANDSHAKE_TIMEOUT"}
  BY <1>1, <1>2, <1>3 DEF Classify, Linked
<1>5. CASE HandlerStep
  <2>1. run.ev = "DISCONNECT" /\ run.step = "body" /\ run # None
    BY DEF Runs
  <2>2. DisconnHdl
    BY <1>5, <2>1 DEF HandlerStep, Pop, NoNetworkHdl, ConnectedHdl, HandshakeDoneHdl, HandlerUp,
       DisconnHdlRelease, Runs
  <2> QED
    BY <1>4, <2>2 DEF DisconnHdl
<1>6. CASE DriverStep
  BY <1>6 DEF DriverStep, DriverMoves, NetworkNotFound, Associate, HandshakeDone, Rekey, JoinFails,
     KeyFails, LinkLost
<1>7. CASE \E d \in Callers : Call(d) \/ Step(d) \/ Disconnect(d)
  BY <1>7, CallerRunsAlone DEF Runs
<1> QED
  BY <1>5, <1>6, <1>7 DEF Next

(* KeyFailureReported of WifiConnect, for one caller whose security types    *)
(* the handlers name, and a handlers' thread that it does not outrun: if the *)
(* access point drops it during the key exchange, the key is blamed.         *)
THEOREM KeyFailureReportedHolds ==
  ASSUME NEW c, Callers = {c}, "WPA2_AES" \notin Securities, HandlerFirst
  PROVE  Spec => KeyFailureReported
<1>1. Init => SeenJoin(c)
  BY DEF Init, SeenJoin
<1>2. TypeOK /\ UserDataLive /\ SeenJoin(c) /\ [Next]_vars => SeenJoin(c)'
  <2> SUFFICES ASSUME TypeOK, UserDataLive, SeenJoin(c), [Next]_vars PROVE SeenJoin(c)'
    OBVIOUS
  <2>1. CASE \E d \in Callers : Call(d) \/ Step(d) \/ Disconnect(d)
    BY <2>1, CallerKeepsSeen
  <2>2. CASE HandlerStep
    BY <2>2, HandlerKeepsSeen
  <2>3. CASE DriverStep
    BY <2>3, DriverKeepsSeen
  <2>4. CASE UNCHANGED vars
    BY <2>4 DEF vars, SeenJoin
  <2> QED
    BY <2>1, <2>2, <2>3, <2>4 DEF Next
<1> DEFINE Lost == /\ Runs("DISCONNECT", "body") /\ run.why \in {"other", "hsTimeout"}
                   /\ joinUser # None /\ att.seen /\ drv.st = "idle"
                   /\ status \cap {"NO_NETWORKS", "HANDSHAKE_DONE"} = {}
                   /\ call[joinUser].sec \notin Keyless
           Blamed == errorFlag' \in {"WRONG_PASSWORD", "HANDSHAKE_TIMEOUT"}
<1>3. TypeOK /\ UserDataLive /\ SeenJoin(c) /\ [Next]_vars => [Lost => Blamed]_vars
  BY KeyIsBlamed
<1>4. Spec => [][Lost => Blamed]_vars
  BY <1>1, <1>2, <1>3, TypeCorrect, UserDataSafe, PTL DEF Spec
<1> QED
  BY <1>4 DEF KeyFailureReported

(* What the caller of wifi_get_last_error is told. Once the request is made, *)
(* rtw_join_status only says what the driver has done since; before it,      *)
(* neither it nor error_flag says anything of a network or a key.            *)
Blaming == {"NONE_NETWORK", "WRONG_PASSWORD", "HANDSHAKE_TIMEOUT"}
Asking  == {"check", "reg", "join"}
Excused == {"test", "spin", "set"}

Heard == (Pending("CONNECT") => att.assoc) /\ (Pending("NO_NETWORK") => att.nonet)
Quiet(c) == pc[c] \in Asking => "NO_NETWORKS" \notin status /\ status # Linked /\ errorFlag \notin Blaming
Telling(c) ==
  pc[c] \notin Asking \cup Excused =>
    /\ "NO_NETWORKS" \in status => att.nonet
    /\ status = Linked => att.assoc
    /\ errorFlag = "NONE_NETWORK" => att.nonet
    /\ errorFlag \in {"WRONG_PASSWORD", "HANDSHAKE_TIMEOUT"} => att.assoc \/ res[c] = "INVALID_KEY"
KeyResult(c) == pc[c] # "idle" => res[c] # "INVALID_KEY"

HonestInv(c) == Heard /\ Quiet(c) /\ Telling(c) /\ KeyResult(c)

(* Whom wifi_disconn_hdl blames.                                             *)
LEMMA WhoIsBlamed ==
  ASSUME TypeOK, NEW why \in AllReasons, NEW f, f = Classify(why)
  PROVE  /\ f = "NONE_NETWORK" => f = errorFlag \/ (joinUser # None /\ "NO_NETWORKS" \in status)
         /\ f \in {"WRONG_PASSWORD", "HANDSHAKE_TIMEOUT"} => f = errorFlag \/ (joinUser # None /\ status = Linked)
<1>1. \A w \in DOMAIN FailFlag : FailFlag[w] \notin Blaming
  BY DEF FailFlag, Blaming
<1> QED
  BY <1>1, Zenon DEF Classify, Blaming

(* Without a published join nobody is.                                       *)
LEMMA DropLinkBlamesNone ==
  ASSUME joinUser = None
  PROVE  /\ \A why \in AllReasons : IndicateDisconnect(why) => errorFlag' \in {errorFlag, "UNKNOWN"}
         /\ DropLink => errorFlag' \in {errorFlag, "UNKNOWN"}
<1>1. \A why \in AllReasons : IndicateDisconnect(why) => errorFlag' \in {errorFlag, "UNKNOWN"}
  BY DEF IndicateDisconnect, Classify
<1> QED
  BY <1>1 DEF DropLink, AllReasons

LEMMA CallerKeepsHonest ==
  ASSUME TypeOK, UserDataLive, ConnectingOwned, HandlerFirst, NEW c, Callers = {c}, HonestInv(c),
         Call(c) \/ Step(c) \/ Disconnect(c)
  PROVE  HonestInv(c)'
<1>1. /\ pc \in [Callers -> Pcs] /\ res \in [Callers -> Results] /\ c \in Callers
      /\ att \in [assoc : BOOLEAN, nonet : BOOLEAN, seen : BOOLEAN]
  BY DEF TypeOK
<1>2. joinUser # None => pc[c] \in UserPcs
  BY OnlyUser
<1>3. "CONNECTING" \in status => pc[c] \in HoldPcs
  BY DEF ConnectingOwned
<1>4. Heard'
  BY <1>1, CallerLeavesNoneRunning DEF Heard, TransientEvents, Events
<1>5. Quiet(c)' /\ Telling(c)' /\ KeyResult(c)'
  <2> USE <1>1 DEF HonestInv, Quiet, Telling, KeyResult, At, Goto, Return, Leave, Asking, Excused
  <2>1. CASE Call(c)
    BY <2>1 DEF Call
  <2>2. CASE Test(c)
    BY <2>2, <1>3 DEF Test, HoldPcs
  <2>3. CASE Spin(c)
    BY <2>3 DEF Spin
  <2>4. CASE Set(c)
    BY <2>4, <1>2 DEF Set, UserPcs, Linked, Blaming
  <2>5. CASE RejectKey(c)
    BY <2>5, <1>2 DEF RejectKey, Linked, Blaming
  <2>6. CASE Allocate(c)
    BY <2>6 DEF Allocate
  <2>7. CASE AllocationFails(c)
    BY <2>7 DEF AllocationFails, Linked, Blaming
  <2>8. CASE Register(c)
    BY <2>8 DEF Register
  <2>9. CASE Join(c)
    BY <2>9, <1>2, DropLinkBlamesNone DEF Join, UserPcs, Blaming, AllReasons
  <2>10. CASE DisconnectWait(c)
    BY <2>10 DEF DisconnectWait
  <2>11. CASE Publish(c)
    BY <2>11 DEF Publish
  <2>12. CASE Wake(c)
    BY <2>12 DEF Wake
  <2>13. CASE Timeout(c)
    BY <2>13 DEF Timeout
  <2>14. CASE Woken(c)
    BY <2>14 DEF Woken
  <2>15. CASE LinkUp(c)
    BY <2>15 DEF LinkUp
  <2>16. CASE FreeEarly(c)
    BY <2>16 DEF FreeEarly
  <2>17. CASE FreeSema(c)
    BY <2>17 DEF FreeSema
  <2>18. CASE ClearUser(c)
    BY <2>18 DEF ClearUser
  <2>19. CASE FreeRecord(c)
    BY <2>19 DEF FreeRecord
  <2>20. CASE Unregister(c)
    BY <2>20 DEF Unregister
  <2>21. CASE ClearFlag(c)
    BY <2>21 DEF ClearFlag, Linked
  <2>22. CASE Disconnect(c)
    BY <2>22, <1>2, DropLinkBlamesNone DEF Disconnect, UserPcs, Blaming
  <2> QED
    BY <2>1, <2>2, <2>3, <2>4, <2>5, <2>6, <2>7, <2>8, <2>9, <2>10, <2>11, <2>12, <2>13, <2>14, <2>15, <2>16, <2>17, <2>18, <2>19, <2>20, <2>21, <2>22 DEF Step
<1> QED
  BY <1>4, <1>5 DEF HonestInv

LEMMA HandlerKeepsHonest ==
  ASSUME TypeOK, UserDataLive, NEW c, Callers = {c}, HonestInv(c), HandlerStep
  PROVE  HonestInv(c)'
<1>1. /\ att \in [assoc : BOOLEAN, nonet : BOOLEAN, seen : BOOLEAN]
      /\ run # None => run \in Running
  BY DEF TypeOK
<1>2. joinUser # None => joinUser = c /\ pc[c] \in UserPcs
  BY OnlyUser
<1>3. UNCHANGED <<pc, res>>
  BY OthersAreLocal
<1>4. att'.assoc = att.assoc /\ att'.nonet = att.nonet
  BY <1>1 DEF HandlerStep, Pop, NoNetworkHdl, ConnectedHdl, HandshakeDoneHdl, HandlerUp, DisconnHdl,
     DisconnHdlRelease
<1>5. Heard'
  BY <1>4, HandlerAddsNone DEF HonestInv, Heard, TransientEvents, Events
<1>6. joinUser # None => pc[c] \notin Asking \cup Excused
  BY <1>2 DEF UserPcs, Asking, Excused
<1>7. KeyResult(c)'
  BY <1>3 DEF HonestInv, KeyResult
<1>8. CASE NoNetworkHdl
  <2>1. UNCHANGED errorFlag /\ att.nonet
    BY <1>8 DEF NoNetworkHdl, HonestInv, Heard, Pending, Runs
  <2>2. CASE joinUser = None
    BY <1>3, <1>4, <1>5, <1>7, <1>8, <2>1, <2>2 DEF NoNetworkHdl, HonestInv, Quiet, Telling
  <2>3. CASE joinUser # None
    <3>1. status' = {"NO_NETWORKS", "CONNECTING"} /\ status' # Linked
      BY <1>8, <2>3 DEF NoNetworkHdl, Linked
    <3> QED
      BY <1>3, <1>4, <1>5, <1>6, <1>7, <2>1, <2>3, <3>1 DEF HonestInv, Quiet, Telling
  <2> QED
    BY <2>2, <2>3
<1>9. CASE ConnectedHdl
  <2>1. UNCHANGED errorFlag /\ att.assoc
    BY <1>9 DEF ConnectedHdl, HonestInv, Heard, Pending, Runs
  <2>2. UNCHANGED status \/ (joinUser # None /\ status' = Linked /\ "NO_NETWORKS" \notin status')
    BY <1>9 DEF ConnectedHdl, Linked
  <2> QED
    BY <1>3, <1>4, <1>5, <1>6, <1>7, <2>1, <2>2 DEF HonestInv, Quiet, Telling
<1>10. CASE HandshakeDoneHdl
  <2>1. UNCHANGED errorFlag /\ status' # Linked /\ "NO_NETWORKS" \notin status'
    BY <1>10 DEF HandshakeDoneHdl, WithKeys, Linked
  <2> QED
    BY <1>3, <1>4, <1>5, <1>7, <2>1 DEF HonestInv, Quiet, Telling
<1>11. CASE DisconnHdl
  <2>1. UNCHANGED status /\ errorFlag' = Classify(run.why) /\ run.why \in AllReasons
    BY <1>1, <1>11 DEF DisconnHdl, Runs, Running
  <2>2. /\ errorFlag' = "NONE_NETWORK" => errorFlag' = errorFlag \/ (joinUser # None /\ "NO_NETWORKS" \in status)
        /\ errorFlag' \in {"WRONG_PASSWORD", "HANDSHAKE_TIMEOUT"}
             => errorFlag' = errorFlag \/ (joinUser # None /\ status = Linked)
    <3>1. PICK f : f = Classify(run.why)
      OBVIOUS
    <3> QED
      BY <2>1, <3>1, WhoIsBlamed
  <2>3. Quiet(c)'
    BY <1>3, <1>6, <2>1, <2>2 DEF HonestInv, Quiet, Blaming
  <2>4. Telling(c)'
    BY <1>3, <1>4, <2>1, <2>2 DEF HonestInv, Telling
  <2> QED
    BY <1>5, <1>7, <2>3, <2>4 DEF HonestInv
<1>12. CASE Pop \/ HandlerUp \/ DisconnHdlRelease
  <2>1. UNCHANGED <<errorFlag, status>>
    BY <1>12 DEF Pop, HandlerUp, DisconnHdlRelease
  <2> QED
    BY <1>3, <1>4, <1>5, <1>7, <2>1 DEF HonestInv, Quiet, Telling
<1> QED
  BY <1>8, <1>9, <1>10, <1>11, <1>12 DEF HandlerStep

(* The driver indicates an association or a missing network as it happens.   *)
LEMMA DriverKeepsHeard ==
  ASSUME TypeOK, Heard, DriverStep
  PROVE  Heard' /\ (att.assoc => att'.assoc) /\ (att.nonet => att'.nonet)
<1>1. att \in [assoc : BOOLEAN, nonet : BOOLEAN, seen : BOOLEAN] /\ queue \in Seq(Messages)
  BY DEF TypeOK
<1>2. ASSUME NEW d \in Events, NEW why, Indicate(d, why), NEW e \in Events, e # d, Pending(e)'
      PROVE  Pending(e)
  <2>1. CASE UNCHANGED <<queue, run>>
    BY <1>2, <2>1 DEF Pending
  <2>2. CASE Push(d, why) /\ UNCHANGED run
    <3>1. queue' = queue \/ queue' = Append(queue, [ev |-> d, why |-> why])
      BY <2>2 DEF Push
    <3>2. \A i \in DOMAIN queue' : (i \in DOMAIN queue /\ queue'[i] = queue[i]) \/ queue'[i].ev = d
      BY <1>1, <3>1
    <3> QED
      BY <1>2, <2>2, <3>2 DEF Pending
  <2>3. CASE run'.ev = d /\ UNCHANGED queue
    BY <1>2, <2>3 DEF Pending
  <2> QED
    BY <1>2, <2>1, <2>2, <2>3 DEF Indicate
<1>3. (att.assoc => att'.assoc) /\ (att.nonet => att'.nonet)
  BY <1>1, DriverMoveIsOne
<1>4. \E d \in Events : \E why : Indicate(d, why) /\ (d = "CONNECT" => att'.assoc) /\ (d = "NO_NETWORK" => att'.nonet)
  BY <1>1 DEF DriverStep, DriverMoves, NetworkNotFound, Associate, HandshakeDone, Rekey, JoinFails,
     KeyFails, LinkLost, Events
<1>5. PICK d \in Events : /\ \E why : Indicate(d, why)
                         /\ (d = "CONNECT" => att'.assoc) /\ (d = "NO_NETWORK" => att'.nonet)
  BY <1>4
<1>6. Pending("CONNECT")' => att'.assoc
  BY <1>2, <1>3, <1>5 DEF Heard, Events
<1>7. Pending("NO_NETWORK")' => att'.nonet
  BY <1>2, <1>3, <1>5 DEF Heard, Events
<1> QED
  BY <1>3, <1>6, <1>7 DEF Heard

LEMMA DriverKeepsHonest ==
  ASSUME TypeOK, NEW c, Callers = {c}, HonestInv(c), DriverStep
  PROVE  HonestInv(c)'
<1>1. Heard' /\ (att.assoc => att'.assoc) /\ (att.nonet => att'.nonet)
  BY DriverKeepsHeard DEF HonestInv
<1>2. UNCHANGED <<pc, res, status, errorFlag>>
  BY DriverMoveIsOne DEF DriverMoves, apiVars
<1> QED
  BY <1>1, <1>2 DEF HonestInv, Quiet, Telling, KeyResult

(* ErrorFlagHonest of WifiConnect, for one caller that does not outrun the   *)
(* handlers' thread: what wifi_get_last_error() blames is what happened in   *)
(* the attempt it is asked about, and not in an earlier one.                 *)
THEOREM ErrorFlagHonestHolds ==
  ASSUME NEW c, Callers = {c}, HandlerFirst
  PROVE  Spec => []ErrorFlagHonest
<1>1. Init => HonestInv(c)
  BY DEF Init, HonestInv, Heard, Pending, Quiet, Telling, KeyResult, Asking, Excused, Linked
<1>2. TypeOK /\ UserDataLive /\ ConnectingOwned /\ HonestInv(c) /\ [Next]_vars => HonestInv(c)'
  <2> SUFFICES ASSUME TypeOK, UserDataLive, ConnectingOwned, HonestInv(c), [Next]_vars PROVE HonestInv(c)'
    OBVIOUS
  <2>1. CASE \E d \in Callers : Call(d) \/ Step(d) \/ Disconnect(d)
    BY <2>1, CallerKeepsHonest
  <2>2. CASE HandlerStep
    BY <2>2, HandlerKeepsHonest
  <2>3. CASE DriverStep
    BY <2>3, DriverKeepsHonest
  <2>4. CASE UNCHANGED vars
    BY <2>4 DEF vars, HonestInv, Heard, Pending, Quiet, Telling, KeyResult
  <2> QED
    BY <2>1, <2>2, <2>3, <2>4 DEF Next
<1>3. HonestInv(c) => ErrorFlagHonest
  BY DEF HonestInv, Quiet, Telling, ErrorFlagHonest, Asking, Excused, Blaming
<1> QED
  BY <1>1, <1>2, <1>3, TypeCorrect, UserDataSafe, ConnectingSafe, PTL DEF Spec
=============================================================================
