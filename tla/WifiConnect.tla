---------------------------- MODULE WifiConnect -----------------------------
(* Joining a network: wifi_connect, wifi_connect_bssid, wifi_disconnect and  *)
(* the four event handlers of component/common/api/wifi/wifi_conf.c, run by  *)
(* any number of application tasks, against the driver's indications (called *)
(* in the driver's thread, or queued to the worker thread of wifi_ind.c).    *)
(* The driver itself is a binary library: it is modelled from the events the *)
(* handlers expect, and marked external.                                     *)
EXTENDS Naturals, Sequences, FiniteSetsExt

CONSTANTS
  Callers,      \* tasks that call into wifi_conf.c
  None,         \* NULL
  Kinds,        \* which of "ssid" (wifi_connect), "bssid" (wifi_connect_bssid)
  Securities,   \* the security types asked for
  Blocking,     \* values of "semaphore == NULL"
  Reasons,      \* why a driver gives up before association
  FullEvents,   \* events whose rows the application's handlers have filled
  UseWorker,    \* CONFIG_WIFI_IND_USE_THREAD
  HandlerFirst, \* the thread that runs the handlers outranks every caller
  Faults,       \* rtw_zmalloc, rtw_init_sema and wext requests may fail
  QueueSize,    \* WIFI_MANAGER_Q_SZ
  MaxRow,       \* WIFI_EVENT_MAX_ROW
  MaxCalls,     \* bound: calls each task makes
  MaxSem        \* bound: tokens a semaphore accumulates

Events == {"CONNECT", "DISCONNECT", "NO_NETWORK", "FOURWAY_HANDSHAKE_DONE"}
HandlerOf == [CONNECT |-> "wifi_connected_hdl", DISCONNECT |-> "wifi_disconn_hdl",
              NO_NETWORK |-> "wifi_no_network_hdl",
              FOURWAY_HANDSHAKE_DONE |-> "wifi_handshake_done_hdl"]
JoinHandlers == {HandlerOf[e] : e \in Events}

Table == INSTANCE EventTable WITH Handlers <- JoinHandlers \cup {"app"}, NoHandler <- None

(* The events whose handler a join takes away again; wifi_disconn_hdl stays. *)
TransientEvents == Events \ {"DISCONNECT"}

(* JOIN_COMPLETE, SECURITY_COMPLETE, ASSOCIATED, AUTHENTICATED, LINK_READY   *)
(* are always written together: "LINK" stands for the five of them.          *)
Flags     == {"CONNECTING", "NO_NETWORKS", "LINK", "HANDSHAKE_DONE"}
Linked    == {"LINK", "CONNECTING"}
WithKeys  == Linked \cup {"HANDSHAKE_DONE"}

(* Security types by how the handlers list them. "WPA" stands for the types  *)
(* both handlers name; "WPA2_AES" is RTW_SECURITY_WPA2_AES_PSK, which        *)
(* neither of them names.                                                    *)
AllSecurities == {"OPEN", "WEP_PSK", "WEP_SHARED", "WPA", "WPA2_AES"}
Keyless       == {"OPEN", "WEP_PSK", "WEP_SHARED"}
ErrorFlags == {"NONE_NETWORK", "CONNECT_FAIL", "WRONG_PASSWORD", "HANDSHAKE_TIMEOUT",
               "AUTH_FAIL", "ASSOC_FAIL", "DEAUTH_DEASSOC", "UNKNOWN", "NO_ERROR"}
FailFlag == [auth |-> "AUTH_FAIL", assoc |-> "ASSOC_FAIL", deauth |-> "DEAUTH_DEASSOC"]
(* "replaced": the old connection is dropped because a new one is asked for. *)
AllReasons == {"auth", "assoc", "deauth", "other", "hsTimeout", "replaced"}

ASSUME ConnectAssumption ==
  /\ None \notin Callers \cup JoinHandlers \cup {"app"} \cup Nat
  /\ Kinds \subseteq {"ssid", "bssid"} /\ Securities \subseteq AllSecurities
  /\ Blocking \subseteq BOOLEAN /\ Reasons \subseteq AllReasons /\ FullEvents \subseteq Events
  /\ {UseWorker, HandlerFirst, Faults} \subseteq BOOLEAN
  /\ QueueSize \in Nat \ {0} /\ MaxRow \in Nat \ {0} /\ MaxCalls \in Nat /\ MaxSem \in Nat \ {0}

VARIABLES
  pc,         \* where each caller is
  call,       \* the arguments of its current or last call
  calls,      \* how many calls it has made
  res,        \* what its last call returned, or will return
  status,     \* rtw_join_status
  errorFlag,  \* error_flag
  joinUser,   \* join_user_data: the caller whose join_result it points to
  heap,       \* per caller: its join_result, password and join_sema, while allocated
  sem,        \* tokens of the caller's join_sema
  dsema,      \* disconnect_sema: None, or its tokens
  table,      \* event_callback_list
  queue,      \* wifi_worker_thread.event_queue
  run,        \* the handler that is running, or None
  netif,      \* link flag of xnetif[0]
  drv,        \* the driver's state for the station interface
  att         \* history: what the driver did since it was last told to join, and
              \* whether wifi_connected_hdl has run in the current call

apiVars == <<pc, call, calls, res, heap>>
vars == <<pc, call, calls, res, status, errorFlag, joinUser, heap, sem, dsema,
          table, queue, run, netif, drv, att>>

Arguments == [kind : {"ssid", "bssid"}, sec : AllSecurities, blocking : BOOLEAN,
              keyOk : BOOLEAN]
Messages  == [ev : Events, why : AllReasons]
Running   == [ev : Events, why : AllReasons, step : {"body", "up", "release"},
              ptr : Callers \cup {None}]
(* The caller may hold the flag from the moment it writes it to x_clear.     *)
HoldPcs  == {"check", "reg", "join", "dwait", "publish", "wait", "woken", "linkup",
             "b_free", "x_sema", "x_user", "x_rec", "x_unreg", "x_clear"}
HandlerPcs == {"join", "dwait", "publish", "wait", "woken", "linkup", "b_free", "x_sema",
               "x_user", "x_rec", "x_unreg"}
UserPcs  == {"wait", "woken", "linkup", "b_free", "x_sema", "x_user"}
Pcs      == HoldPcs \cup {"idle", "test", "spin", "set"}
Results  == {"NONE", "PENDING", "SUCCESS", "ERROR", "TIMEOUT", "INVALID_KEY", "NOMEM",
             "NORESOURCE"}

Init ==
  /\ pc = [c \in Callers |-> "idle"]
  /\ call = [c \in Callers |-> [kind |-> "ssid", sec |-> "OPEN", blocking |-> TRUE, keyOk |-> TRUE]]
  /\ calls = [c \in Callers |-> 0]
  /\ res = [c \in Callers |-> "NONE"]
  /\ status = {} /\ errorFlag = "UNKNOWN" /\ joinUser = None
  /\ heap = [c \in Callers |-> {}] /\ sem = [c \in Callers |-> 0]
  /\ dsema = None
  /\ table = [e \in Events |-> [i \in Table!Rows |-> IF e \in FullEvents THEN "app" ELSE None]]
  /\ queue = <<>> /\ run = None /\ netif = "down"
  /\ drv = [st |-> "idle", sec |-> "OPEN"]
  /\ att = [assoc |-> FALSE, nonet |-> FALSE, seen |-> FALSE]

-----------------------------------------------------------------------------
(* Semaphores and the effects of the handlers.                               *)

More(n) == IF n < MaxSem THEN n + 1 ELSE n

(* rtw_up_sema(&join_user_data->join_sema). A semaphore that is already      *)
(* deleted takes no token; a caller's own semaphore is never deleted here.   *)
UpSema(u) ==
  sem' = IF u # None /\ ("sema" \in heap[u] \/ ~call[u].blocking)
         THEN [sem EXCEPT ![u] = More(@)] ELSE sem

(* Mutant: only the handshake time-out is told from a lost connection.       *)
ClassifyNoKey(why) ==
  IF joinUser = None THEN errorFlag
  ELSE IF "NO_NETWORKS" \in status THEN "NONE_NETWORK"
  ELSE IF status = {"CONNECTING"}
  THEN IF why \in DOMAIN FailFlag THEN FailFlag[why] ELSE "CONNECT_FAIL"
  ELSE IF why = "hsTimeout" THEN "HANDSHAKE_TIMEOUT" ELSE errorFlag

(* wifi_disconn_hdl, first half: error_flag from the security type of the    *)
(* join in progress, rtw_join_status and the reason in the event.            *)
Classify(why) ==
  LET sec == call[joinUser].sec
  IN IF joinUser = None THEN IF errorFlag = "NO_ERROR" THEN "UNKNOWN" ELSE errorFlag
     ELSE IF sec \notin {"OPEN", "WEP_PSK", "WPA"} THEN errorFlag
     ELSE IF "NO_NETWORKS" \in status THEN "NONE_NETWORK"
     ELSE IF status = {"CONNECTING"}
     THEN IF why \in DOMAIN FailFlag THEN FailFlag[why] ELSE "CONNECT_FAIL"
     ELSE IF status = Linked /\ sec = "WPA"
     THEN IF why = "hsTimeout" THEN "HANDSHAKE_TIMEOUT" ELSE "WRONG_PASSWORD"
     ELSE errorFlag

(* wifi_disconn_hdl, second half: link down, then both semaphores.           *)
DisconnRelease ==
  /\ netif' = "down"
  /\ UpSema(joinUser)
  /\ dsema' = IF dsema = None THEN None ELSE More(dsema)

Registered(e) == Table!IsRegistered(table, e, HandlerOf[e])

Push(e, why) ==
  queue' = IF Len(queue) < QueueSize THEN Append(queue, [ev |-> e, why |-> why]) ELSE queue

(* An indication made by the driver's own thread. Without the worker thread  *)
(* the handlers run in that thread, so it makes no other one meanwhile.      *)
Indicate(e, why) ==
  IF ~Registered(e) THEN UNCHANGED <<queue, run>>
  ELSE IF UseWorker THEN Push(e, why) /\ UNCHANGED run
  ELSE /\ run' = [ev |-> e, why |-> why, step |-> "body", ptr |-> None]
       /\ UNCHANGED queue

(* A disconnection the caller's own wext request brings about: indicated     *)
(* before the request returns, or queued.                                    *)
IndicateDisconnect(why) ==
  IF ~Registered("DISCONNECT")
  THEN UNCHANGED <<queue, errorFlag, netif, sem, dsema>>
  ELSE IF UseWorker
  THEN Push("DISCONNECT", why) /\ UNCHANGED <<errorFlag, netif, sem, dsema>>
  ELSE /\ errorFlag' = Classify(why)
       /\ DisconnRelease
       /\ UNCHANGED queue

(* rltk_wlan_is_connected_to_ap()                                            *)
IsConnected == drv.st \in {"keying", "up"}

-----------------------------------------------------------------------------
(* The callers.                                                              *)

MayRun == HandlerFirst => run = None /\ queue = <<>>
At(c, p) == MayRun /\ pc[c] = p
Goto(c, p) == pc' = [pc EXCEPT ![c] = p]
Return(c, r) == Goto(c, "idle") /\ res' = [res EXCEPT ![c] = r]
Leave(c, p, r) == Goto(c, p) /\ res' = [res EXCEPT ![c] = r]
Drop(c, what) == heap' = [heap EXCEPT ![c] = @ \ what]

(* A task calls wifi_connect or wifi_connect_bssid. What an earlier call of  *)
(* its own has left allocated is out of everyone's reach from here on.       *)
Call(c) ==
  /\ At(c, "idle") /\ calls[c] < MaxCalls
  /\ calls' = [calls EXCEPT ![c] = @ + 1]
  /\ \E k \in Kinds, s \in Securities, b \in Blocking, ok \in BOOLEAN :
       /\ s = "OPEN" => ok
       /\ call' = [call EXCEPT ![c] = [kind |-> k, sec |-> s, blocking |-> b, keyOk |-> ok]]
  /\ Leave(c, "test", "PENDING")
  /\ heap' = [heap EXCEPT ![c] = {}]
  /\ sem' = [sem EXCEPT ![c] = 0]
  /\ UNCHANGED <<status, errorFlag, joinUser, dsema, table, queue, run, netif, drv, att>>

(* wext_set_bssid with the bogus address: whatever is joined or being joined *)
(* ends. A join that is cut short may end without an indication.             *)
DropLink ==
  /\ drv' = [drv EXCEPT !.st = "idle"]
  /\ \/ drv.st # "idle" /\ IndicateDisconnect("deauth")
     \/ ~IsConnected /\ UNCHANGED <<queue, errorFlag, netif, sem, dsema>>

(* The first test of JOIN_CONNECTING; when it is set, wifi_disconnect().     *)
Test(c) ==
  /\ At(c, "test")
  /\ \/ /\ "CONNECTING" \notin status
        /\ Goto(c, "set")
        /\ UNCHANGED <<res, drv, queue, errorFlag, netif, sem, dsema>>
     \/ /\ "CONNECTING" \in status /\ DropLink
        /\ Goto(c, "spin") /\ UNCHANGED res
     \/ /\ "CONNECTING" \in status /\ Faults
        /\ Return(c, "ERROR")
        /\ UNCHANGED <<drv, queue, errorFlag, netif, sem, dsema>>
  /\ UNCHANGED <<call, calls, status, joinUser, heap, table, run, att>>

(* while(rtw_join_status & JOIN_CONNECTING) vTaskDelay(1)                    *)
Spin(c) ==
  /\ At(c, "spin") /\ "CONNECTING" \notin status
  /\ Goto(c, "set")
  /\ UNCHANGED <<call, calls, res, status, errorFlag, joinUser, heap, sem, dsema, table, queue,
                 run, netif, drv, att>>

(* Mutant: error_flag keeps what the last join left in it.                   *)
SetKeepsError(c) ==
  /\ At(c, "set")
  /\ status' = {"CONNECTING"}
  /\ att' = [att EXCEPT !.seen = FALSE]
  /\ Goto(c, "check")
  /\ UNCHANGED <<call, calls, res, errorFlag, joinUser, heap, sem, dsema, table, queue, run,
                 netif, drv>>

(* The flag is written, which also wipes whatever it held: the test for      *)
(* JOIN_SIMPLE_CONFIG and JOIN_AIRKISS that follows can never succeed.       *)
Set(c) ==
  /\ At(c, "set")
  /\ status' = {"CONNECTING"} /\ errorFlag' = "UNKNOWN"
  /\ att' = [att EXCEPT !.seen = FALSE]
  /\ Goto(c, "check")
  /\ UNCHANGED <<call, calls, res, joinUser, heap, sem, dsema, table, queue, run, netif, drv>>

(* Mutant: a key that is refused leaves JOIN_CONNECTING set.                 *)
RejectKeySilently(c) ==
  /\ At(c, "check") /\ ~call[c].keyOk
  /\ Return(c, "INVALID_KEY")
  /\ UNCHANGED <<call, calls, status, errorFlag, joinUser, heap, sem, dsema, table, queue, run,
                 netif, drv, att>>

(* Key-length checks and allocations. wifi_connect checks the key first and  *)
(* goes to its error label once it has a join_result; wifi_connect_bssid     *)
(* allocates first and returns directly, leaving what it has allocated.      *)
RejectKey(c) ==
  /\ At(c, "check") /\ ~call[c].keyOk
  /\ status' = status \ {"CONNECTING"}
  /\ IF call[c].kind = "ssid"
     THEN errorFlag' = "WRONG_PASSWORD" /\ UNCHANGED heap
     ELSE heap' = [heap EXCEPT ![c] = @ \cup {"record"}] /\ UNCHANGED errorFlag
  /\ Return(c, "INVALID_KEY")
  /\ UNCHANGED <<call, calls, joinUser, sem, dsema, table, queue, run, netif, drv, att>>

Needs(c) == {"record"} \cup (IF call[c].sec = "OPEN" THEN {} ELSE {"password"})
                       \cup (IF call[c].blocking THEN {"sema"} ELSE {})

Allocate(c) ==
  /\ At(c, "check") /\ call[c].keyOk
  /\ heap' = [heap EXCEPT ![c] = @ \cup Needs(c)]
  /\ Goto(c, "reg")
  /\ UNCHANGED <<call, calls, res, status, errorFlag, joinUser, sem, dsema, table, queue, run,
                 netif, drv, att>>

(* One allocation fails, after those before it in the order record, password,*)
(* semaphore. (The error label also frees a semaphore variable that has no   *)
(* value yet when the password is the one that failed; whatever that frees,  *)
(* it is none of the objects here.)                                          *)
Got(c, missing) == IF missing = "record" THEN {} ELSE Needs(c) \ {missing, "sema"}

AllocationFails(c) ==
  /\ At(c, "check") /\ Faults
  /\ \E missing \in Needs(c) :
       /\ call[c].keyOk \/ (call[c].kind = "bssid" /\ missing = "record")
       /\ heap' = [heap EXCEPT ![c] = @ \cup Got(c, missing)]
       /\ LET r == IF missing = "sema" THEN "NORESOURCE" ELSE "NOMEM"
          IN IF call[c].kind = "ssid" /\ missing # "record"
             THEN Leave(c, "x_sema", r) /\ UNCHANGED status
             ELSE Return(c, r) /\ status' = status \ {"CONNECTING"}
  /\ UNCHANGED <<call, calls, errorFlag, joinUser, sem, dsema, table, queue, run, netif, drv, att>>

(* The four registrations; with the worker thread wifi_connect also creates  *)
(* disconnect_sema when the station is connected.                            *)
RegisterAll(t) ==
  Table!Reg(Table!Reg(Table!Reg(Table!Reg(t,
    "NO_NETWORK", HandlerOf["NO_NETWORK"]), "CONNECT", HandlerOf["CONNECT"]),
    "DISCONNECT", HandlerOf["DISCONNECT"]),
    "FOURWAY_HANDSHAKE_DONE", HandlerOf["FOURWAY_HANDSHAKE_DONE"])

Register(c) ==
  /\ At(c, "reg")
  /\ table' = RegisterAll(table)
  /\ dsema' = IF UseWorker /\ call[c].kind = "ssid" /\ IsConnected THEN 0 ELSE dsema
  /\ Goto(c, "join")
  /\ UNCHANGED <<call, calls, res, status, errorFlag, joinUser, heap, sem, queue, run, netif,
                 drv, att>>

(* wifi_connect_local, wifi_connect_bssid_local: the request replaces        *)
(* whatever was joined. A request that fails leaves the driver as it was,    *)
(* and the result is not looked at.                                          *)
Join(c) ==
  /\ At(c, "join")
  /\ \/ /\ drv' = [st |-> "joining", sec |-> call[c].sec]
        /\ att' = [assoc |-> FALSE, nonet |-> FALSE, seen |-> FALSE]
        /\ IF IsConnected THEN IndicateDisconnect("replaced")
           ELSE UNCHANGED <<queue, errorFlag, netif, sem, dsema>>
     \/ /\ Faults
        /\ UNCHANGED <<drv, att, queue, errorFlag, netif, sem, dsema>>
  /\ Goto(c, IF call[c].kind = "ssid" /\ dsema # None THEN "dwait" ELSE "publish")
  /\ UNCHANGED <<call, calls, res, status, joinUser, heap, table, run>>

(* At most 50 ms for the indication of the disconnection, then               *)
(* rtw_free_sema(&disconnect_sema): with a token or without one.             *)
DisconnectWait(c) ==
  /\ At(c, "dwait")
  /\ dsema' = None
  /\ Goto(c, "publish")
  /\ UNCHANGED <<call, calls, res, status, errorFlag, joinUser, heap, sem, table, queue, run,
                 netif, drv, att>>

(* join_user_data = join_result; with a semaphore of the caller's own the    *)
(* function does not wait and goes on as if it had joined.                   *)
Publish(c) ==
  /\ At(c, "publish")
  /\ joinUser' = c
  /\ Goto(c, IF call[c].blocking THEN "wait" ELSE "linkup")
  /\ UNCHANGED <<call, calls, res, status, errorFlag, heap, sem, dsema, table, queue, run, netif,
                 drv, att>>

(* Mutant: the result of rtw_down_timeout_sema is not looked at.             *)
WakeAnyhow(c) ==
  /\ At(c, "wait")
  /\ sem' = [sem EXCEPT ![c] = @ - 1]
  /\ Goto(c, "woken")
  /\ UNCHANGED <<call, calls, res, status, errorFlag, joinUser, heap, dsema, table, queue, run,
                 netif, drv, att>>

(* rtw_down_timeout_sema(&join_result->join_sema, RTW_JOIN_TIMEOUT)          *)
Wake(c) ==
  /\ At(c, "wait") /\ sem[c] > 0
  /\ sem' = [sem EXCEPT ![c] = @ - 1]
  /\ Goto(c, "woken")
  /\ UNCHANGED <<call, calls, res, status, errorFlag, joinUser, heap, dsema, table, queue, run,
                 netif, drv, att>>

(* Mutant: the time-out path forgets the password.                           *)
TimeoutKeepsPassword(c) ==
  /\ At(c, "wait") /\ sem[c] = 0
  /\ Leave(c, IF call[c].kind = "ssid" THEN "x_sema" ELSE "b_free", "TIMEOUT")
  /\ UNCHANGED <<call, calls, status, errorFlag, joinUser, heap, sem, dsema, table, queue, run,
                 netif, drv, att>>

Timeout(c) ==
  /\ At(c, "wait") /\ sem[c] = 0
  /\ Drop(c, {"password"})
  /\ Leave(c, IF call[c].kind = "ssid" THEN "x_sema" ELSE "b_free", "TIMEOUT")
  /\ UNCHANGED <<call, calls, status, errorFlag, joinUser, sem, dsema, table, queue, run, netif,
                 drv, att>>

(* Woken: the password goes, and wifi_is_connected_to_ap() decides.          *)
(* wifi_connect_bssid has freed everything before it asks.                   *)
Woken(c) ==
  /\ At(c, "woken")
  /\ Drop(c, IF call[c].kind = "ssid" THEN {"password"} ELSE {"record", "password", "sema"})
  /\ IF IsConnected THEN Goto(c, "linkup") /\ UNCHANGED res
     ELSE Leave(c, IF call[c].kind = "ssid" THEN "x_sema" ELSE "x_user", "ERROR")
  /\ UNCHANGED <<call, calls, status, errorFlag, joinUser, sem, dsema, table, queue, run, netif,
                 drv, att>>

LinkUp(c) ==
  /\ At(c, "linkup")
  /\ netif' = "up"
  /\ Leave(c, IF call[c].kind = "ssid" THEN "x_sema" ELSE "x_user", "SUCCESS")
  /\ UNCHANGED <<call, calls, status, errorFlag, joinUser, heap, sem, dsema, table, queue, run,
                 drv, att>>

(* The time-out branch of wifi_connect_bssid: rtw_free, rtw_free_sema.       *)
FreeEarly(c) ==
  /\ At(c, "b_free")
  /\ Drop(c, {"record", "sema"})
  /\ Goto(c, "x_user")
  /\ UNCHANGED <<call, calls, res, status, errorFlag, joinUser, sem, dsema, table, queue, run,
                 netif, drv, att>>

(* The error label, statement by statement.                                  *)
FreeSema(c) ==
  /\ At(c, "x_sema")
  /\ Drop(c, {"sema"})
  /\ Goto(c, "x_user")
  /\ UNCHANGED <<call, calls, res, status, errorFlag, joinUser, sem, dsema, table, queue, run,
                 netif, drv, att>>

(* Mutant: join_user_data is left pointing at the freed join_result.         *)
ClearUserDangling(c) ==
  /\ At(c, "x_user")
  /\ Goto(c, IF call[c].kind = "ssid" THEN "x_rec" ELSE "x_unreg")
  /\ UNCHANGED <<call, calls, res, status, errorFlag, joinUser, heap, sem, dsema, table, queue,
                 run, netif, drv, att>>

ClearUser(c) ==
  /\ At(c, "x_user")
  /\ joinUser' = None
  /\ Goto(c, IF call[c].kind = "ssid" THEN "x_rec" ELSE "x_unreg")
  /\ UNCHANGED <<call, calls, res, status, errorFlag, heap, sem, dsema, table, queue, run, netif,
                 drv, att>>

FreeRecord(c) ==
  /\ At(c, "x_rec")
  /\ Drop(c, {"record"})
  /\ Goto(c, "x_unreg")
  /\ UNCHANGED <<call, calls, res, status, errorFlag, joinUser, sem, dsema, table, queue, run,
                 netif, drv, att>>

(* Mutant: the handler of the 4-way handshake stays registered too.          *)
UnregisterTwo(t) ==
  Table!Unreg(Table!Unreg(t, "CONNECT", HandlerOf["CONNECT"]),
    "NO_NETWORK", HandlerOf["NO_NETWORK"])

(* wifi_disconn_hdl stays registered.                                        *)
UnregisterAll(t) ==
  Table!Unreg(Table!Unreg(Table!Unreg(t, "CONNECT", HandlerOf["CONNECT"]),
    "NO_NETWORK", HandlerOf["NO_NETWORK"]),
    "FOURWAY_HANDSHAKE_DONE", HandlerOf["FOURWAY_HANDSHAKE_DONE"])

Unregister(c) ==
  /\ At(c, "x_unreg")
  /\ table' = UnregisterAll(table)
  /\ Goto(c, "x_clear")
  /\ UNCHANGED <<call, calls, res, status, errorFlag, joinUser, heap, sem, dsema, queue, run,
                 netif, drv, att>>

ClearFlag(c) ==
  /\ At(c, "x_clear")
  /\ status' = status \ {"CONNECTING"}
  /\ Goto(c, "idle")
  /\ UNCHANGED <<call, calls, res, errorFlag, joinUser, heap, sem, dsema, table, queue, run,
                 netif, drv, att>>

(* An application calls wifi_disconnect() on its own.                        *)
Disconnect(c) ==
  /\ At(c, "idle") /\ DropLink
  /\ UNCHANGED <<pc, call, calls, res, status, joinUser, heap, table, run, att>>

Step(c) ==
  \/ Test(c) \/ Spin(c) \/ Set(c) \/ RejectKey(c) \/ Allocate(c) \/ AllocationFails(c)
  \/ Register(c) \/ Join(c) \/ DisconnectWait(c) \/ Publish(c) \/ Wake(c) \/ Timeout(c)
  \/ Woken(c) \/ LinkUp(c) \/ FreeEarly(c) \/ FreeSema(c) \/ ClearUser(c) \/ FreeRecord(c)
  \/ Unregister(c) \/ ClearFlag(c)

-----------------------------------------------------------------------------
(* The handlers, in the driver's thread or in the worker thread.             *)

(* worker_thread_main takes the next message.                                *)
Pop ==
  /\ UseWorker /\ run = None /\ queue # <<>>
  /\ queue' = Tail(queue)
  /\ run' = [ev |-> Head(queue).ev, why |-> Head(queue).why, step |-> "body", ptr |-> None]
  /\ UNCHANGED <<apiVars, status, errorFlag, joinUser, sem, dsema, table, netif, drv, att>>

Runs(e, s) == run # None /\ run.ev = e /\ run.step = s
Then(s) == run' = [run EXCEPT !.step = s, !.ptr = joinUser]

NoNetworkHdl ==
  /\ Runs("NO_NETWORK", "body")
  /\ status' = IF joinUser # None THEN {"NO_NETWORKS", "CONNECTING"} ELSE status
  /\ run' = None
  /\ UNCHANGED <<apiVars, errorFlag, joinUser, sem, dsema, table, queue, netif, drv, att>>

ConnectedHdl ==
  /\ Runs("CONNECT", "body")
  /\ status' = IF joinUser # None /\ call[joinUser].sec \in Keyless \cup {"WPA"} THEN Linked
               ELSE status
  /\ IF joinUser # None /\ call[joinUser].sec \in Keyless THEN Then("up") ELSE run' = None
  /\ att' = [att EXCEPT !.seen = joinUser # None]
  /\ UNCHANGED <<apiVars, errorFlag, joinUser, sem, dsema, table, queue, netif, drv>>

HandshakeDoneHdl ==
  /\ Runs("FOURWAY_HANDSHAKE_DONE", "body")
  /\ status' = WithKeys
  /\ IF joinUser # None THEN Then("up") ELSE run' = None
  /\ UNCHANGED <<apiVars, errorFlag, joinUser, sem, dsema, table, queue, netif, drv, att>>

(* rtw_up_sema through the pointer the handler has read.                     *)
HandlerUp ==
  /\ run # None /\ run.step = "up"
  /\ UpSema(run.ptr)
  /\ run' = None
  /\ UNCHANGED <<apiVars, status, errorFlag, joinUser, dsema, table, queue, netif, drv, att>>

DisconnHdl ==
  /\ Runs("DISCONNECT", "body")
  /\ errorFlag' = Classify(run.why)
  /\ Then("release")
  /\ UNCHANGED <<apiVars, status, joinUser, sem, dsema, table, queue, netif, drv, att>>

DisconnHdlRelease ==
  /\ Runs("DISCONNECT", "release")
  /\ DisconnRelease
  /\ run' = None
  /\ UNCHANGED <<apiVars, status, errorFlag, joinUser, table, queue, drv, att>>

HandlerStep == Pop \/ NoNetworkHdl \/ ConnectedHdl \/ HandshakeDoneHdl \/ HandlerUp
               \/ DisconnHdl \/ DisconnHdlRelease

-----------------------------------------------------------------------------
(* The driver (external).                                                    *)

DriverFree == UseWorker \/ run = None
DriverMoves(from, to, e, why) ==
  /\ DriverFree /\ drv.st = from
  /\ drv' = [drv EXCEPT !.st = to]
  /\ Indicate(e, why)
  /\ UNCHANGED <<apiVars, status, errorFlag, joinUser, sem, dsema, table, netif>>

NetworkNotFound ==
  /\ DriverMoves("joining", "notFound", "NO_NETWORK", "other")
  /\ att' = [att EXCEPT !.nonet = TRUE]
Associate ==
  /\ DriverMoves("joining", IF drv.sec \in Keyless THEN "up" ELSE "keying", "CONNECT", "other")
  /\ att' = [att EXCEPT !.assoc = TRUE]
HandshakeDone ==
  /\ DriverMoves("keying", "up", "FOURWAY_HANDSHAKE_DONE", "other")
  /\ UNCHANGED att
Rekey ==
  /\ drv.sec \notin Keyless
  /\ DriverMoves("up", "up", "FOURWAY_HANDSHAKE_DONE", "other")
  /\ UNCHANGED att
JoinFails ==
  /\ \/ \E why \in Reasons : DriverMoves("joining", "idle", "DISCONNECT", why)
     \/ DriverMoves("notFound", "idle", "DISCONNECT", "other")
  /\ UNCHANGED att
KeyFails ==
  /\ \E why \in {"hsTimeout", "other"} : DriverMoves("keying", "idle", "DISCONNECT", why)
  /\ UNCHANGED att
LinkLost ==
  /\ DriverMoves("up", "idle", "DISCONNECT", "deauth")
  /\ UNCHANGED att

DriverStep == NetworkNotFound \/ Associate \/ HandshakeDone \/ Rekey \/ JoinFails \/ KeyFails
              \/ LinkLost

-----------------------------------------------------------------------------
Next == \/ \E c \in Callers : Call(c) \/ Step(c) \/ Disconnect(c)
        \/ HandlerStep \/ DriverStep

Spec == Init /\ [][Next]_vars

(* Every task and the handlers' thread are scheduled, and both waits for a   *)
(* semaphore end, with a token or at their time-out. A caller that outranked *)
(* tasks hold up still runs between two indications: they come milliseconds  *)
(* to hours apart, and a handler does not block; hence strong fairness.      *)
(* Nothing is assumed of the driver, the access point or the application.    *)
Fairness == /\ \A c \in Callers : SF_vars(Step(c))
            /\ WF_vars(HandlerStep)
FairSpec == Spec /\ Fairness

-----------------------------------------------------------------------------
(* Properties.                                                               *)

TypeOK ==
  /\ pc \in [Callers -> Pcs]
  /\ call \in [Callers -> Arguments]
  /\ calls \in [Callers -> Nat]
  /\ res \in [Callers -> Results]
  /\ status \subseteq Flags
  /\ errorFlag \in ErrorFlags
  /\ joinUser \in Callers \cup {None}
  /\ heap \in [Callers -> SUBSET {"record", "password", "sema"}]
  /\ sem \in [Callers -> Nat]
  /\ dsema \in Nat \cup {None}
  /\ table \in Table!Tables
  /\ queue \in Seq(Messages)
  /\ run \in Running \cup {None}
  /\ netif \in {"up", "down"}
  /\ drv \in [st : {"idle", "joining", "notFound", "keying", "up"}, sec : AllSecurities]
  /\ att \in [assoc : BOOLEAN, nonet : BOOLEAN, seen : BOOLEAN]

(* The handlers dereference join_user_data whenever it is not NULL. It       *)
(* always belongs to a call that has not passed "join_user_data = NULL" yet, *)
(* and a wifi_connect call frees its join_result only after that statement,  *)
(* however the calls of several tasks overlap.                               *)
UserDataLive ==
  joinUser # None =>
    /\ pc[joinUser] \in UserPcs
    /\ call[joinUser].kind = "ssid" => "record" \in heap[joinUser]

(* Nobody gives a semaphore that has been deleted: that of join_user_data is *)
(* there, and so is the one that a running handler has read the pointer of,  *)
(* if no caller runs before the handler ends. Only between rtw_free_sema and *)
(* join_user_data = NULL, on the way out of a call, is it gone: one statement*)
(* in wifi_connect, and netif's link as well in wifi_connect_bssid.          *)
SemaGone(u) == pc[u] = "x_user" \/ (call[u].kind = "bssid" /\ pc[u] = "linkup")
Givable(u)  == call[u].blocking => "sema" \in heap[u] \/ SemaGone(u)

SemaLive ==
  /\ joinUser # None => Givable(joinUser)
  /\ HandlerFirst /\ run # None /\ run.step = "up" => Givable(run.ptr)

(* The handlers of CONNECT, NO_NETWORK and FOURWAY_HANDSHAKE_DONE are in the *)
(* table only while some call is between its registrations and its           *)
(* unregistrations: no way out of a join leaves one of them behind, and the  *)
(* table holds none of them twice.                                           *)
HandlersOwned ==
  \A e \in TransientEvents :
    /\ Registered(e) => \E c \in Callers : pc[c] \in HandlerPcs
    /\ \A i, j \in Table!RowsOf(table, e, HandlerOf[e]) : i = j

(* JOIN_CONNECTING makes the next caller wait until it is cleared, so it     *)
(* must have an owner that will clear it. It has one as long as no caller    *)
(* can run between an indication and the end of its handler.                 *)
ConnectingOwned ==
  HandlerFirst /\ "CONNECTING" \in status => \E c \in Callers : pc[c] \in HoldPcs

(* What every path of a blocking wifi_connect allocates, it frees before it  *)
(* returns; the path on which the semaphore could not be made is left out,   *)
(* because there the code does keep the password buffer.                     *)
NothingKept ==
  \A c \in Callers :
    pc[c] = "idle" /\ call[c].kind = "ssid" /\ call[c].blocking /\ res[c] # "NORESOURCE"
      => heap[c] = {}

(* From the moment a call resets error_flag until the next call does, what   *)
(* wifi_get_last_error() blames has happened in that call's attempt:         *)
(* NONE_NETWORK only if the driver found no network, WRONG_PASSWORD or       *)
(* 4WAY_HANDSHAKE_TIMEOUT only if it associated (or the key had an           *)
(* impossible length). One caller, handlers not preempted by it.             *)
ErrorFlagHonest ==
  \A c \in Callers : pc[c] \notin {"test", "spin", "set"} =>
    /\ errorFlag = "NONE_NETWORK" => att.nonet
    /\ errorFlag \in {"WRONG_PASSWORD", "HANDSHAKE_TIMEOUT"} =>
         att.assoc \/ res[c] = "INVALID_KEY"

(* When the access point drops a station during the handshake, after         *)
(* wifi_connected_hdl has seen the join in progress, wifi_disconn_hdl says   *)
(* that the key is wrong: the caller can tell it from a lost network.        *)
KeyFailureReported ==
  [][ /\ Runs("DISCONNECT", "body") /\ run.why \in {"other", "hsTimeout"}
      /\ joinUser # None /\ att.seen /\ drv.st = "idle"
      /\ status \cap {"NO_NETWORKS", "HANDSHAKE_DONE"} = {}
      /\ call[joinUser].sec \notin Keyless
      => errorFlag' \in {"WRONG_PASSWORD", "HANDSHAKE_TIMEOUT"} ]_vars

(* A call into wifi_connect returns: the flag it may wait for is cleared,    *)
(* and each of its own waits has a time-out.                                 *)
ConnectReturns == \A c \in Callers : pc[c] # "idle" ~> pc[c] = "idle"
=============================================================================
