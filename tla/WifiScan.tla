------------------------------ MODULE WifiScan ------------------------------
(* Scanning: wifi_scan_networks, wifi_scan_networks_mcc, wifi_scan and the   *)
(* handlers of SCAN_RESULT_REPORT and SCAN_DONE of                           *)
(* component/common/api/wifi/wifi_conf.c. The handlers run in the driver's   *)
(* thread; the driver (a binary library) is external.                        *)
EXTENDS Naturals, SequencesExt

CONSTANTS
  Callers,      \* tasks that ask for scans
  None,         \* NULL
  Bssids,       \* access points in range
  MaxLevel,     \* signal strengths are 1 .. MaxLevel, a higher one is stronger
  MaxAp,        \* max_ap_size
  Channels,     \* SCAN_CHANNEL_NUM
  Kinds,        \* which of "plain" (wifi_scan_networks), "mcc" (.._mcc)
  UseSema,      \* SCAN_USE_SEMAPHORE
  HandlerFirst, \* the driver's thread outranks every caller
  Faults,       \* rtw_zmalloc and wext requests may fail
  MaxCalls,     \* bound: scans the tasks ask for, together
  MaxReports    \* bound: reports in one scan of the driver

Slots    == 1 .. MaxAp
Levels   == 1 .. MaxLevel
Entries  == [b : Bssids, s : Levels]

(* What may be running in the driver's thread: a handler, or the rest of     *)
(* wifi_scan_done_hdl, with the handlers that are to run after it.           *)
Handlers    == {"each_report", "done", "done_mcc"}
ReportCalls == [h : {"each_report"}, e : Entries]
DoneCalls   == [h : {"done", "done_mcc", "release", "unreg"}, rest : SUBSET {"done", "done_mcc"}]

ASSUME ScanAssumption ==
  /\ None \notin Callers \cup Entries \cup ReportCalls \cup DoneCalls
  /\ {MaxLevel, MaxAp, Channels} \subseteq Nat \ {0}
  /\ Kinds \subseteq {"plain", "mcc"}
  /\ {UseSema, HandlerFirst, Faults} \subseteq BOOLEAN
  /\ MaxCalls \in Nat /\ MaxReports \in Nat

VARIABLES
  pc,       \* where each caller is
  kind,     \* which function it has called
  chan,     \* its channel_index
  calls,    \* how many calls there have been
  owed,     \* callers whose accepted scan has not been reported complete yet
  free,     \* 1 - scan_running, or the tokens of scan_semaphore
  buf,      \* ap_details and pap_details: "null", "live" or "freed"
  ap,       \* ap_details: what each slot holds
  pap,      \* pap_details[0 .. scan_cnt - 1]: slots, strongest first
  user,     \* gscan_result_handler and user_data: whose they are
  regs,     \* which of the handlers are registered
  run,      \* the handler that is running, or None
  drv,      \* the driver: scanning or not, and how much it has reported
  best,     \* history: strongest report of each access point in this scan, or 0
  wild,     \* history: a buffer was used or freed when it was not allocated
  raced     \* history: a scan was let in while another one was in progress

vars == <<pc, kind, chan, calls, owed, free, buf, ap, pap, user, regs, run, drv, best, wild, raced>>
tableVars == <<buf, ap, pap, best>>

Busy     == {"alloc", "reg", "request"}   \* between the claim and the driver
Pcs      == {"idle", "test", "poll", "claim"} \cup Busy

Init ==
  /\ pc = [c \in Callers |-> "idle"] /\ kind = [c \in Callers |-> "plain"]
  /\ chan = [c \in Callers |-> 1] /\ calls = 0 /\ owed = {}
  /\ free = 1
  /\ buf = "null" /\ ap = [i \in Slots |-> None] /\ pap = <<>>
  /\ user = None /\ regs = {} /\ run = None
  /\ drv = [on |-> FALSE, sent |-> 0]
  /\ best = [b \in Bssids |-> 0] /\ wild = FALSE /\ raced = FALSE

-----------------------------------------------------------------------------
(* The result table: wifi_scan_each_report_hdl as a function of the report.  *)

Signal(i) == ap[pap[i]].s

Weaker(s) == {i \in DOMAIN pap : s > Signal(i)}

(* Mutant: the strength is updated in place.                                 *)
RaiseInPlace(i, s) == ap' = [ap EXCEPT ![pap[i]].s = s] /\ UNCHANGED pap

(* A known access point: it moves up past every weaker one before it.        *)
Raise(i, s) ==
  LET stronger == {j \in 1 .. i - 1 : Signal(j) >= s}
      pos      == Max(stronger \cup {0}) + 1
  IN /\ pap' = InsertAt(RemoveAt(pap, i), pos, pap[i])
     /\ ap' = [ap EXCEPT ![pap[i]].s = s]

(* A new one takes a free slot, or the slot of the weakest when it is        *)
(* stronger, and is inserted before the first weaker one.                    *)
InsertSlot(kept, slot, e) ==
  LET weaker == Weaker(e.s) \cap DOMAIN kept
      pos    == Min(weaker \cup {Len(kept) + 1})
  IN /\ pap' = InsertAt(kept, pos, slot)
     /\ ap' = [ap EXCEPT ![slot] = e]

(* Mutant: a new access point always takes the next slot.                    *)
ReportUnbounded(e) ==
  IF \E i \in DOMAIN pap : ap[pap[i]].b = e.b THEN UNCHANGED <<ap, pap>>
  ELSE InsertSlot(pap, Len(pap) + 1, e)

Report(e) ==
  LET known == {i \in DOMAIN pap : ap[pap[i]].b = e.b}
      last  == Len(pap)
  IN CASE known # {} ->
            LET i == Min(known)
            IN IF e.s > Signal(i) THEN Raise(i, e.s) ELSE UNCHANGED <<ap, pap>>
       [] known = {} /\ last < MaxAp -> InsertSlot(pap, last + 1, e)
       [] OTHER ->
            IF e.s > Signal(last) THEN InsertSlot(Front(pap), pap[last], e)
            ELSE UNCHANGED <<ap, pap>>

-----------------------------------------------------------------------------
(* The callers.                                                              *)

MayRun == HandlerFirst => run = None
At(c, p) == pc[c] = p /\ MayRun
Goto(c, p) == pc' = [pc EXCEPT ![c] = p]

Call(c) ==
  /\ At(c, "idle") /\ calls < MaxCalls
  /\ calls' = calls + 1
  /\ \E k \in Kinds : kind' = [kind EXCEPT ![c] = k]
  /\ chan' = [chan EXCEPT ![c] = 1]
  /\ Goto(c, "test")
  /\ UNCHANGED <<owed, free, tableVars, user, regs, run, drv, wild, raced>>

(* if(scan_running); the semaphore is tested by taking it.                   *)
Test(c) ==
  /\ At(c, "test")
  /\ Goto(c, IF UseSema \/ free = 0 THEN "poll" ELSE "claim")
  /\ UNCHANGED <<kind, chan, calls, owed, free, tableVars, user, regs, run, drv, wild, raced>>

(* A scan is in progress from its claim to the end of its last handler; one  *)
(* that goes channel by channel is in progress between two channels as well. *)
InProgress(c) ==
  drv.on \/ run # None \/ \E d \in Callers \ {c} : pc[d] \in Busy \/ (pc[d] # "idle" /\ chan[d] > 1)

Claimed(c) ==
  /\ free' = IF UseSema THEN free - 1 ELSE 0
  /\ raced' = (raced \/ InProgress(c))
  /\ Goto(c, IF chan[c] = 1 THEN "alloc" ELSE "reg")

(* The waiting loop sees the scan over, or there is a token.                 *)
Poll(c) ==
  /\ At(c, "poll") /\ free > 0
  /\ IF UseSema THEN Claimed(c) ELSE Goto(c, "claim") /\ UNCHANGED <<free, raced>>
  /\ UNCHANGED <<kind, chan, calls, owed, tableVars, user, regs, run, drv, wild>>

(* Or the loop has counted to its end, which says RTW_TIMEOUT even when the  *)
(* last sleep was the one that helped. With the semaphore, the time-out path *)
(* gives a token that it has not taken.                                      *)
PollTimeout(c) ==
  /\ At(c, "poll") /\ (UseSema => free = 0)
  /\ free' = IF UseSema THEN free + 1 ELSE free
  /\ Goto(c, "idle")
  /\ UNCHANGED <<kind, chan, calls, owed, tableVars, user, regs, run, drv, wild, raced>>

(* scan_running = 1, whatever it is by now.                                  *)
Claim(c) ==
  /\ At(c, "claim") /\ Claimed(c)
  /\ UNCHANGED <<kind, chan, calls, owed, tableVars, user, regs, run, drv, wild>>

(* rtw_memset(&scan_result_handler_ptr, 0, ..) at err_exit; the next caller  *)
(* makes a semaphore anew.                                                   *)
Wipe ==
  /\ free' = 1 /\ buf' = "null" /\ pap' = <<>> /\ user' = None
  /\ UNCHANGED <<ap, best>>

(* Mutant: tables are allocated only while the pointers are NULL.            *)
KeptTables == /\ buf' = IF buf = "null" THEN "live" ELSE buf
              /\ pap' = <<>> /\ ap' = [i \in Slots |-> None] /\ best' = [b \in Bssids |-> 0]

NewTables == /\ buf' = "live" /\ pap' = <<>> /\ ap' = [i \in Slots |-> None]
             /\ best' = [b \in Bssids |-> 0]

Allocate(c) ==
  /\ At(c, "alloc")
  /\ \/ /\ NewTables
        /\ user' = c
        /\ Goto(c, "reg")
        /\ UNCHANGED free
     \/ /\ Faults /\ Wipe
        /\ Goto(c, "idle")
  /\ UNCHANGED <<kind, chan, calls, owed, regs, run, drv, wild, raced>>

LastChannel(c) == kind[c] = "plain" \/ chan[c] = Channels

(* wifi_scan registers both handlers; the channel-by-channel scan registers  *)
(* its own SCAN_DONE handler first and the final one for the last channel.   *)
Register(c) ==
  /\ At(c, "reg")
  /\ regs' = IF kind[c] = "plain" THEN regs \cup {"each_report", "done"}
             ELSE LET first == IF chan[c] = 1 THEN regs \cup {"each_report", "done_mcc"} ELSE regs
                  IN IF LastChannel(c) THEN (first \ {"done_mcc"}) \cup {"done"} ELSE first
  /\ Goto(c, "request")
  /\ UNCHANGED <<kind, chan, calls, owed, free, tableVars, user, run, drv, wild, raced>>

NextChannel(c) ==
  IF LastChannel(c) THEN Goto(c, "idle") /\ UNCHANGED chan
  ELSE Goto(c, "test") /\ chan' = [chan EXCEPT ![c] = @ + 1]

(* wext_set_scan: accepted, ...                                              *)
Request(c) ==
  /\ At(c, "request") /\ ~drv.on
  /\ drv' = [on |-> TRUE, sent |-> 0]
  /\ owed' = IF LastChannel(c) THEN owed \cup {c} ELSE owed
  /\ NextChannel(c)
  /\ UNCHANGED <<kind, calls, free, tableVars, user, regs, run, wild, raced>>

(* ... or not: handlers unregistered, buffers freed, everything cleared. The *)
(* driver turns a request down while it scans.                               *)
RequestFails(c) ==
  /\ At(c, "request") /\ (Faults \/ drv.on)
  /\ regs' = regs \ (IF kind[c] = "plain" THEN {"each_report", "done"} ELSE Handlers)
  /\ wild' = (wild \/ buf = "freed")
  /\ Wipe
  /\ Goto(c, "idle")
  /\ UNCHANGED <<kind, chan, calls, owed, run, drv, raced>>

(* Mutant: only the semaphore build gives the scan up.                       *)
ReleaseSemaOnly(n) == free' = IF UseSema THEN free + n ELSE free

Release(n) == free' = IF UseSema THEN free + n ELSE 1

(* Mutant: the final call is made only when there are results.               *)
DeliverResultsOnly ==
  /\ wild' = (wild \/ buf # "live")
  /\ buf' = "freed"
  /\ owed' = IF pap = <<>> THEN owed ELSE owed \ {user}

(* wifi_scan_done_hdl up to its frees: every result and the final call go to *)
(* the result handler.                                                       *)
Deliver ==
  /\ wild' = (wild \/ buf # "live")
  /\ buf' = "freed"
  /\ owed' = owed \ {user}

(* wifi_set_pscan_chan fails: the channel is given up; on the last one the   *)
(* caller runs wifi_scan_done_hdl itself, which gives the flag up again.     *)
PartialScanFails(c) ==
  /\ At(c, "request") /\ kind[c] = "mcc" /\ Faults
  /\ NextChannel(c)
  /\ IF LastChannel(c)
     THEN Deliver /\ Release(2) /\ regs' = regs \ {"each_report", "done"}
     ELSE Release(1) /\ UNCHANGED <<wild, buf, regs, owed>>
  /\ UNCHANGED <<kind, calls, ap, pap, best, user, run, drv, raced>>

Step(c) ==
  \/ Test(c) \/ Poll(c) \/ PollTimeout(c) \/ Claim(c) \/ Allocate(c) \/ Register(c)
  \/ Request(c) \/ RequestFails(c) \/ PartialScanFails(c)

-----------------------------------------------------------------------------
(* The driver (external) and the handlers, which run in its thread.          *)

Calls(h) == run = None /\ h \in regs

DriverReport ==
  /\ drv.on /\ drv.sent < MaxReports /\ run = None
  /\ drv' = [drv EXCEPT !.sent = @ + 1]
  /\ \E e \in Entries :
       IF "each_report" \in regs
       THEN run' = [h |-> "each_report", e |-> e]
       ELSE UNCHANGED run
  /\ UNCHANGED <<pc, kind, chan, calls, owed, free, tableVars, user, regs, wild, raced>>

(* The SCAN_DONE event goes to each handler it still has when its row comes. *)
RunOne(hs) ==
  IF hs \cap regs' = {} THEN run' = None
  ELSE \E h \in hs \cap regs' : run' = [h |-> h, rest |-> hs \ {h}]

DriverDone ==
  /\ drv.on /\ run = None
  /\ drv' = [on |-> FALSE, sent |-> 0]
  /\ UNCHANGED <<pc, kind, chan, calls, owed, free, tableVars, user, regs, wild, raced>>
  /\ RunOne({"done", "done_mcc"})

Runs(h) == run # None /\ run.h = h

EachReportHdl ==
  /\ Runs("each_report")
  /\ IF buf = "live"
     THEN /\ Report(run.e)
          /\ best' = [best EXCEPT ![run.e.b] = Max({@, run.e.s})]
          /\ UNCHANGED wild
     ELSE wild' = TRUE /\ UNCHANGED <<ap, pap, best>>
  /\ run' = None
  /\ UNCHANGED <<pc, kind, chan, calls, owed, free, buf, user, regs, drv, raced>>

(* wifi_scan_done_hdl lets the next scan in before it unregisters.           *)
DoneHdl ==
  /\ Runs("done") /\ Deliver
  /\ run' = [run EXCEPT !.h = "release"]
  /\ UNCHANGED <<pc, kind, chan, calls, free, ap, pap, best, user, regs, drv, raced>>

DoneHdlRelease ==
  /\ Runs("release") /\ Release(1)
  /\ run' = [run EXCEPT !.h = "unreg"]
  /\ UNCHANGED <<pc, kind, chan, calls, owed, tableVars, user, regs, drv, wild, raced>>

DoneHdlUnregister ==
  /\ Runs("unreg")
  /\ regs' = regs \ {"each_report", "done"}
  /\ RunOne(run.rest)
  /\ UNCHANGED <<pc, kind, chan, calls, owed, free, tableVars, user, drv, wild, raced>>

DoneHdlMcc ==
  /\ Runs("done_mcc") /\ Release(1)
  /\ UNCHANGED <<pc, kind, chan, calls, owed, tableVars, user, regs, drv, wild, raced>>
  /\ RunOne(run.rest)

HandlerStep == EachReportHdl \/ DoneHdl \/ DoneHdlRelease \/ DoneHdlUnregister \/ DoneHdlMcc

-----------------------------------------------------------------------------
Next == \/ \E c \in Callers : Call(c) \/ Step(c)
        \/ HandlerStep \/ DriverReport \/ DriverDone

Spec == Init /\ [][Next]_vars

(* Tasks and the driver's thread are scheduled, and a scan the driver has    *)
(* accepted ends (it sweeps a fixed list of channels).                       *)
Fairness == /\ \A c \in Callers : WF_vars(Step(c))
            /\ WF_vars(HandlerStep) /\ WF_vars(DriverDone)
FairSpec == Spec /\ Fairness

-----------------------------------------------------------------------------
(* Properties.                                                               *)

TypeOK ==
  /\ pc \in [Callers -> Pcs] /\ kind \in [Callers -> {"plain", "mcc"}]
  /\ chan \in [Callers -> 1 .. Channels] /\ calls \in 0 .. MaxCalls
  /\ owed \subseteq Callers /\ free \in Nat
  /\ buf \in {"null", "live", "freed"}
  /\ ap \in [Slots -> Entries \cup {None}]
  /\ Len(pap) <= MaxAp /\ \A i \in DOMAIN pap : pap[i] \in Slots /\ ap[pap[i]] # None
  /\ user \in Callers \cup {None} /\ regs \subseteq Handlers
  /\ run \in {None} \cup ReportCalls \cup DoneCalls
  /\ drv \in [on : BOOLEAN, sent : Nat]
  /\ best \in [Bssids -> 0 .. MaxLevel] /\ wild \in BOOLEAN /\ raced \in BOOLEAN

(* What wifi_scan_each_report_hdl builds out of reports in any order, the    *)
(* same access point heard several times at several strengths: strongest     *)
(* first, no access point and no slot twice, each at the best strength it    *)
(* was heard at, and one that was heard and is not in the table is no        *)
(* stronger than the weakest in a full table.                                *)
TopN ==
  LET n == Len(pap)
  IN buf = "live" =>
       /\ \A i, j \in 1 .. n : i < j => Signal(i) >= Signal(j) /\ pap[i] # pap[j]
                                        /\ ap[pap[i]].b # ap[pap[j]].b
       /\ \A i \in 1 .. n : Signal(i) = best[ap[pap[i]].b]
       /\ \A b \in Bssids : best[b] > 0 /\ (\A i \in 1 .. n : ap[pap[i]].b # b) =>
            n = MaxAp /\ best[b] <= Signal(n)

(* ap_details and pap_details are used and freed only while they are         *)
(* allocated, as long as no scan is let in while another one is in progress: *)
(* not after a failed request, a time-out between two channels, a channel    *)
(* that is given up or a wiped control block.                                *)
BuffersSafe == wild => raced

(* scan_running turns every other scan away, so there must be someone who    *)
(* will clear it: a caller on its way to the driver, or a scan whose         *)
(* SCAN_DONE event has a handler that clears it, or that handler.            *)
RunningOwned ==
  free = 0 /\ ~raced =>
    \/ \E c \in Callers : pc[c] \in Busy
    \/ drv.on /\ regs \cap {"done", "done_mcc"} # {}
    \/ run # None /\ run.h # "each_report"

(* A scan that was accepted ends with the call that says scan_complete to    *)
(* the handler of the caller that asked for it.                              *)
ScanReported == \A c \in Callers : c \in owed ~> (c \notin owed \/ raced)
=============================================================================
