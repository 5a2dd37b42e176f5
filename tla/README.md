# TLA+ models of the Ameba SDK

This directory models and verifies parts of the Realtek Ameba-1 (RTL8195A) and
Ameba-Z (RTL8711B) SDK in `src/`: TLA+ modules translated from the C sources,
TLC configurations that check them on small instances, and theorems that TLAPS
proves for every value of the constants. Every definition that stands for code
names its lines in `PROJECT.json` ("map").

The SDK is a FreeRTOS application framework around a Wi-Fi driver. The driver's
core is a binary library (`lib_wlan.a`); it, FreeRTOS and lwIP are external
here and are modelled only by what the SDK's own code relies on. Paths below
are relative to `src/component/`.

## 1. Inventory

| Component | State it keeps | Operations | Hard behaviour | What makes it correct |
|---|---|---|---|---|
| **Event table** `common/api/wifi/wifi_ind.c` | `event_callback_list`: 3 rows per event; optional worker thread with a queue of 8 | register, unregister, `wifi_indication`, init/deinit | registration from any task while the driver indicates; silent failure when full; lossy queue; buffer ownership of queued messages | a handler is registered once; an indication reaches the handlers registered when it is made; each buffer is freed once |
| **Join** `common/api/wifi/wifi_conf.c` | `rtw_join_status`, `join_user_data`, `error_flag`, `disconnect_sema`; per call `join_result`, password, semaphore | `wifi_connect`, `wifi_connect_bssid`, `wifi_disconnect`, handlers of CONNECT, DISCONNECT, NO_NETWORK, FOURWAY_HANDSHAKE_DONE | unlocked globals shared by tasks and the driver's thread; time-outs; events that come before the pointer is set or after it is cleared; many error paths | no dangling `join_user_data`, no handler left behind, JOIN_CONNECTING always released, buffers freed, `error_flag` blames what happened, calls return |
| **Scan** `common/api/wifi/wifi_conf.c` | `scan_result_handler_ptr`: flag or semaphore, result table, application handler | `wifi_scan_networks`, `wifi_scan_networks_mcc`, `wifi_scan`, report and done handlers | unlocked check-then-set; a channel-by-channel scan gives the flag up between channels; done handler lets the next scan in before it has unregistered | one scan at a time; buffers used only while allocated; the table holds the strongest access points in order; every scan ends with a report |
| **Driver extensions** `wifi_util.c`, `wifi_promisc.c`, `dev_wowlan.c` | a promiscuous-mode buffer list | ioctl wrappers | driver callbacks queue packets for a task | queue accounting |
| **Provisioning** `wifi_simple_config.c`, `rtw_wpa_supplicant/*` | join flags, P2P/WPS queues | simple config, WPS, EAP, P2P commands | protocol engines are binary; writes `rtw_join_status` | leaves the join's flags consistent |
| **lwIP glue** `lwip_netconf.c`, `lwip_intf.c` | DHCP state per interface | `LwIP_DHCP` loop, packet hand-over | retries, link loss during DHCP | the loop ends with an address or a fallback |
| **AT commands** `common/api/at_cmd/*` | socket node list, pending accept/receive, log buffer | some 150 commands | node list shared by command, accept and receive tasks | no node used after it is freed; ids unique |
| **UART adapter** `uart_adapter.c`, `uart_socket.c` | RX ring, control states, sockets | ISR fills, tasks drain | ISR against tasks; ring wrap | no byte lost or repeated below the limit |
| **MQTT client** `mqtt/MQTTClient` | packet id, keep-alive timers, status machine | connect, subscribe, publish, yield | reconnect, QoS acknowledgements, timers | QoS promises, keep-alive |
| **Firmware transfer** `uart_fw_update.c`, `uart_ymodem.c` | packet number, file offset | XMODEM/YMODEM receive | retransmission, lost acknowledgements, cancel | the image is written once and in order |
| **OTA** `ota_8195a.c`, `rtl8710b_ota.c`, `sys_api.c` | address word and the other words of system data, backup sector, the image behind the running one, its signature | two downloads (local server, HTTP), checksum, sign, clear, recover | power loss between flash operations; packets of any size; early closes; two updates at once | what is signed is a whole verified file; system data survives; a right file is recognised |
| **DHCP server** `dhcps.c` | bit table and owner table of addresses, one state machine, one offered and one requested address for all clients | discover, offer, request, renew, decline, release, inform, init | packets of several clients interleave; lost, late and repeated packets; a restart under clients that hold addresses | no address used by two clients; the tables agree and know every user; a client that asks is served |
| **Other protocols** SNTP, TFTP, HTTP, WebSocket, CoAP, SSL, RTSP, mDNS | sessions | - | - | - |
| **Media framework** `common/media/framework` | source/sink queues | - | real-time hand-over | queue accounting |
| **OS services** `osdep_service.c`, `freertos_service.c`, `cmsis_os.c` | none (a call-through layer), worker threads, wake-lock timer | - | worker deletion with messages in the queue | buffers freed |
| **Device lock** `os/os_dep/device_lock.c` | bitmap, mutex per device | lock, unlock | lazy creation, freeing while in use | mutual exclusion per device |
| **TCM heap** `os/os_dep/tcm_heap.c` | list of free chunks | allocmem, freemem, malloc, calloc, free, freeSpace | any order of calls; coalescing | blocks disjoint, nothing lost, refuses only what does not fit |
| **Mailboxes** `soc/realtek/8195a/misc/os/mailbox.c` | list of mailboxes | create, delete, send, receive, peek | look-up and use are not atomic; lazy initialisation | ids unique; no mailbox used after deletion; wake-ups not lost |
| **Power management** `freertos_pmu_8195a.c` | wakelock bits, missing ticks, sleep hooks, wakeup events, statistics | acquire, release, decide, sleep, wake, hook, unhook | unprotected bits changed by tasks and interrupt handlers; the decision precedes the masking of interrupts; wrap of the stamp | no sleep under a wakelock, none refused without; every hook called; kernel time equals passed time |
| **HAL, mbed** `soc/*/fwlib`, `common/mbed` | hardware registers | - | hardware | - |

Interactions. An application task calls the join or scan functions; these
register handlers in the event table, send a wext request to the driver, and
wait on a semaphore or a flag. The driver's thread calls `wifi_indication`,
which runs the registered handlers in that thread (`CONFIG_WIFI_IND_USE_THREAD`
0, the default) or copies the event into the worker thread's queue (1). The
handlers write `rtw_join_status` and `error_flag`, change the link flag of
`xnetif[0]`, and give the semaphores. None of this is locked. Buffers come from
the FreeRTOS heap, task stacks and large driver buffers also from the TCM heap.

## 2. Modules

| Module | Models |
|---|---|
| `EventTable` | `event_callback_list` and its register/unregister functions, as operators on a table value |
| `WifiInd` | the same table a statement at a time, the indication loop of both builds, the worker thread; INSTANCEs `EventTable` and `InOrder` |
| `WifiInd_proofs` | theorems about `WifiInd` |
| `InOrder` | abstract specification: each handler hears events in the order they were indicated |
| `WifiConnect` | the join: callers, handlers, driver; INSTANCEs `EventTable` |
| `WifiConnect_proofs` | theorems about `WifiConnect` |
| `WifiScan` | the scan: callers, result table, handlers, driver |
| `WifiScan_proofs` | theorems about `WifiScan` |
| `Dhcps` | the DHCP server with its clients and links; INSTANCEs `Leases` |
| `Dhcps_proofs` | theorems about `Dhcps` |
| `Leases` | abstract specification: an address has at most one user |
| `Ota` | firmware update of the 8195A with power failures |
| `Ota_proofs` | theorems about `Ota` |
| `Pmu` | wakelocks, tickless sleep, sleep hooks, tick compensation |
| `Pmu_proofs` | theorems about `Pmu` |
| `Allocator` | abstract specification: what a heap promises |
| `TcmHeap` | the TCM heap's free list, shown to implement `Allocator` |
| `TcmHeap_proofs` | theorems about `TcmHeap` |
| `SequenceFacts` | lemmas about `Append`, `Tail`, `RemoveAt`, `InsertAt`, minima, and sums of sizes, which the proofs of `WifiInd`, `WifiScan` and `TcmHeap` share |
| `MC...` | instances for TLC |

### WifiConnect

One process per caller (`pc`), one thread that runs handlers (`run`), and the
driver (`drv`). A caller's step is a stretch of the C function between two
points where another thread's step could matter: the test of JOIN_CONNECTING
(`Test`, `Spin`), the store that follows it (`Set`), key checks
(`RejectKey`), allocations (`Allocate`, `AllocationFails`), the four
registrations (`Register`), the wext request (`Join`), the wait for
`disconnect_sema` (`DisconnectWait`), the store of `join_user_data`
(`Publish`), the wait (`Wake`, `Timeout`), what follows (`Woken`, `LinkUp`,
`FreeEarly`), and each statement of the error label (`FreeSema`, `ClearUser`,
`FreeRecord`, `Unregister`, `ClearFlag`). `wifi_connect` and
`wifi_connect_bssid` share these actions and differ where the code does: the
latter checks the key after allocating, returns from the middle on errors, and
frees its record before it clears the pointer.

A handler is one or two steps: it reads and writes the flags, then gives the
semaphore through the pointer it has read. The five JOIN flags that are always
written together are one flag, `LINK`. Of the security types the model keeps
the classes the handlers' lists distinguish. `att` is a history variable: what
the driver did in the current attempt; `heap` says what each call still has
allocated.

A semaphore or record that was already freed is not written to in the model
(`UpSema` has no effect on it). The code does write to it in the windows the
hazards name; what that does to the heap is undefined and no property here
depends on it.

`HandlerFirst` says whether the thread that runs the handlers outranks the
callers, so that no caller moves while a handler or a queued event is pending.
`UseWorker` selects the worker thread. `Faults` lets allocations and wext
requests fail. `FullEvents` are events whose rows the application has filled.

### WifiScan

A caller tests `scan_running` (`Test`), waits (`Poll`, `PollTimeout`), claims
it (`Claim`; with `SCAN_USE_SEMAPHORE` the test takes the token), allocates
(`Allocate`), registers, and asks the driver; a channel-by-channel scan does so
once per channel. `EachReportHdl` is `wifi_scan_each_report_hdl` in full: raise
a known access point, insert a new one, replace the weakest. `DoneHdl`,
`DoneHdlRelease` and `DoneHdlUnregister` are `wifi_scan_done_hdl` in the order
of its statements. `raced` and `wild` are history variables: a scan was let in
while another was in progress; a buffer was touched while not allocated.

### WifiInd and InOrder

One event's rows (`handler`, `data`), the tasks that register and unregister
(`op`), the driver's thread (`snd`) and the worker thread (`queue`, `call`).
Every load and store of a row is a step: `Register` is the search,
`StoreHandler` and `StoreData` the two stores, in the code's order;
`Unregister`, `ClearHandler`, `ClearData` likewise. `Look` tests a row; then,
without the thread, `Call` loads the user data and calls, and with it `Load`
reads the handler a second time and copies the buffer, and `Push` loads the
user data and queues the message. `LoadFails` and `PushFails` leave from the
middle of the loop. The copy of a buffer is named by its event and row, and
`heap` holds the copies that are allocated.

`raced` and `torn` record what nothing in the code prevents: two updates of the
table that overlap, and an update of a row between the driver's loads of it.
`WifiConnect` and `WifiScan` use the table with atomic updates; `TableAtomic`
shows that this is what any step of this module amounts to while no two updates
overlap. The abstract `InOrder` knows which event each handler was last called
for; it is the mapping's identity on `seen` and `sent`.

### Dhcps and Leases

A packet is handled by one step, as lwIP's thread does it. `Receive` takes the
oldest packet of a client's link and is the handler with its state machine
(`HandleDiscover`, `HandleRequest`, `HandleEnd`, `HandleOther`), the address
search (`Offerable`), the check of a requested address (`Available`,
`Granted`) and both tables. What an earlier packet leaves in
`client_request_ip` stays in `request`. The two readings of the bit table
differ as they do in the code: `Marked` (search_next_ip) and `Seen`
(check_client_request_ip, which for a multiple of 32 looks at the next word and
shifts by -1, for which the model allows either result).

The clients follow RFC 2131 (discover, request, renew, ask for the old address
again, retransmit, decline, release, inform) and are external, like the links.
A transaction id is abstracted to whether a packet belongs to the client's
present transaction. `Restart` is dhcps_init on a running access point. The
abstract `Leases` maps an address to the clients that use it.

### Ota

The configuration in the repository (WRITE_OTA_ADDR set, SWAP_UPDATE and
CONFIG_CUSTOM_SIGNATURE not). `up` says where each updater is; a step is one
flash operation, or a read from the network with the write that follows it.
Flash words are programmed or erased, bytes of the image are named by the
update they belong to (0 erased, -1 programmed twice), the signature is one of
blank, half written, signed, cleared. `Read` takes any number of bytes; `Sum`
keeps the last four of what alloc holds after each packet, as positions in the
file, so that a packet of fewer than four bytes moves the earlier ones.
`Matches` stands for the comparison of checksums: sums of different bytes are
taken to differ. `Recover` and the steps after it are
sys_recover_ota_signature, which writes the first sector again by way of the
backup sector (0x8000, the sector before system data), from its beginning; the
signature is near there, so the sector is written in two steps (`RecoverHead`,
`RecoverRest`). `PowerFails`, `Reset` and `Restart` keep the flash and forget
the rest. `overlap` records that two updates were under way at once (TaskOTA
keeps only local ones apart), `again` that an address was written, or the
backup sector reused, while system data was missing, and `torn` that a failure
left a signature in front of an erased sector.

### Pmu

`wakelock |= BIT` and `&= ~BIT` are a load (`Load`) and a store (`Store`) in a
task and one step in an interrupt handler. The idle task decides
(`freertos_ready_to_sleep`), may be called off by the kernel (`AbortSleep`),
sleeps (`Sleep`, with the hooks) and catches up (`Wake`). `cut` records a store
that wrote back bits which had changed since the load, `late` a wakelock that an
interrupt handler took between the decision and the sleep. The table of hooks has
`MAX_PSM_DD_HOOK_INFO_SIZE` rows, which `pmu_register_sleep_callback` does not
look at: with one driver more it writes behind the table (`Overrun`). The model
takes that step and stops (`Undefined`), since what becomes of the memory there
is undefined. `clock.owed` is the
time slept that has not become ticks; the stamp wraps at `Word`.

### TcmHeap and Allocator

Addresses are unit numbers, the free list is a sequence of chunks, and every
function, which runs in a critical section, is one step. `live` is a history
variable and, with the last returned address, the whole state of the abstract
specification `Allocator`; the mapping is the identity on both.

## 3. Runs

| Run | Checks | Instance |
|---|---|---|
| `ConnectSingle` | `ErrorFlagHonest`, `NothingKept`, `KeyFailureReported` | 1 caller, 2 calls, both functions, every security class but WPA2-AES, all failure reasons, worker thread with a queue of 2, faults |
| `ConnectLive` | `TypeOK`, `UserDataLive`, `SemaLive`, `HandlersOwned`, `ConnectingOwned`, `ConnectReturns` | 2 callers under `FairSpec`, rows of CONNECT taken by the application, handlers first |
| `ScanTable` | `TypeOK`, `TopN` | 3 access points, 3 levels, table of 2, 5 reports, built with SCAN_USE_SEMAPHORE |
| `Scan` | `BuffersSafe`, `RunningOwned`, `ScanReported` | 2 callers under `FairSpec`, both kinds of scan, faults, time-outs, callers may overtake handlers |
| `Indications` | `TypeOK`, `BuffersOwned`, `OwnData`, `TableAtomic`, `OrderSpec`, `NoneSkipped`, `ResidentHears` | both builds, 2 tasks, 3 handlers (one resident, one that unregisters itself), 2 rows, queue of 2, 2 events, 3 calls, faults |
| `DhcpLease` | `TypeOK`, `LeaseKnown`, `TablesAgree`, `LeasesSpec`, `Served` | 2 clients, 3 addresses of which the last ends a word, 2 mishaps |
| `Update` | `TypeOK`, `SignedIsVerified`, `SystemDataKept`, `GoodIsTaken`, `FlashExclusive` | 2 updates, one local and one HTTP updater, 7 bytes over 2 sectors, packets of up to 6 bytes, headers of 2 and 5 bytes, 3 words of system data, 2 mishaps |
| `Sleeps` | `TypeOK`, `AwakeWhileHeld`, `SleepsWhenFree`, `HooksCalled`, `ClockKept` | 2 tasks and an interrupt handler, 3 drivers with 2 hooks and a table of 2 rows, 2 sleeps, any stamp |
| `HeapLists` | `TypeOK`, `FreeListExact`, `SpaceExact`, `AllocatorSpec` | 6 units, requests of 1, 2 and 3 units |

Three runs look for a violation, and find it; each is a disagreement between the
code and a comment or header of the repository:

| Run | What it shows |
|---|---|
| `ConnectAes` | RTW_SECURITY_WPA2_AES_PSK is in neither of the handlers' lists, so a wrong key is not reported as RTW_WRONG_PASSWORD |
| `DhcpUsed` | an address that the check has refused as used is acknowledged all the same when it equals the address offered last: a bound client's INFORM while another's offer is open makes it so |
| `UpdateEmpty` | a server that closes the connection after the size makes the local task sign an erased image: both checksums are 0 |

Seen on the way, and needing no run:

- `wifi_is_ready_to_transceive` succeeds when `error_flag` is RTW_NO_ERROR, a
  value that no statement assigns.
- On the way out of a join the semaphore is deleted before `join_user_data` is
  cleared, and `wifi_connect_bssid` clears netif's link in between: a handler that
  reads the pointer then has a deleted semaphore. `SemaLive` names this window
  and says that there is no other while no caller runs in the middle of a handler.
- A join's semaphore that the caller brings along is never flagged, so that
  handlers do not give it back; and the old connection's disconnect handler may
  run after `join_user_data` is set when the worker thread runs it.
- The time-out path of SCAN_USE_SEMAPHORE gives a token it has not taken.
- `wifi_ind.h` says that registering an empty handler unregisters; the code
  does not look. A message's function is read again after the test
  (wifi_ind.c:42) and may be NULL by then. `wifi_manager_deinit` has no caller.
- An HTTP update takes the four checksum bytes of the first packet without
  skipping the header before them. After a redirection it starts again with
  `request` already freed, and the redirect strings are freed and not cleared.
- Two updates at once may sign a mixture of two images. Nothing reads the backup
  sector after a power failure.
- A power failure while sys_recover_ota_signature writes the first sector leaves
  a signature in front of erased bytes. Without memory it returns with the flash
  lock held.
- freertos_pmu.h promises that the system does not sleep while a bit is held.
  A lost update, or a wakelock taken by an interrupt handler after the idle task
  has looked, breaks that; two equal stamps count as a wrap, so that the
  kernel's clock jumps ahead by up to the idle time; each wrap loses 1 us.
- `pmu_register_sleep_callback` appends to a table of 8 rows without a look at
  its size (freertos_pmu_8195a.c:265), while freertos_pmu.h gives drivers ids up
  to 31: a ninth driver's row is written behind the table. `Sleeps` goes there
  (`Overrun`); no code in the repository registers that many.

`HandlerFirst` is TRUE in the runs of the join: a disconnect handler that comes
after its caller has moved on is not among what TLC explores. What callers may do
in the middle of a handler (`HandlerFirst` FALSE), and the worker thread with
several callers, are covered by the theorems of section 4 that do not ask for
`HandlerFirst` or for one caller.

Bounds, and why they are enough.

- Join. Two callers show every race between two calls, and one call each is
  enough for it because a call's leftovers (flag, table, pointer,
  `wifi_disconn_hdl`) are what the other call meets. Two calls of one caller
  show what a call leaves for the next. `MaxRow` is 2 rather than 3: the four
  handlers are registered for four different events, so one row is free for
  them and one is the application's; `ConnectLive` covers the full table. A
  queue of 2 shows late and dropped events; 8 only makes a drop rarer. `MaxSem`
  is 1: nobody takes two tokens of one join semaphore.
- Scan. A scan of 2 or 3 channels has a first, a middle and a last one. A table
  of 2 slots for 3 access points is the smallest in which one is pushed out.
- Indications. Two rows for three handlers, so that the table is full at times;
  two events, so that one waits in the
  queue while the next is indicated; the bounds on calls let both tasks be in
  the middle of an update. Two events are enough for `NoneSkipped`: a handler
  that hears of the second without the first has skipped one.
- DHCP. Two clients contend for the one server state; a pool of 3 addresses has
  a free one when both hold one, and its last address is the last of a word of 4
  bits, the case of 128, 160 and 192. Two mishaps (a lost packet, a
  retransmission while an answer is under way, a client that leaves, a restart,
  a failed allocation) are the pairs of failures. Mishaps also bound INFORM,
  which in `DhcpLease` comes from clients that hold no lease (one with a static
  address): with bound clients `LeaseKnown` does not hold, which is what
  `DhcpUsed` shows. The liveness property needs no bound: only packets that
  disturb are counted, not the retransmissions of a client that waits.
- OTA. 7 bytes are three of image and four of checksum in two sectors of four,
  so that the checksum straddles a sector, and packets of 1 to 6 bytes fall on
  every boundary. Three words of system data: the address, a first and a last.
  Two mishaps are a failure in an update and another in the next one. For
  `FlashExclusive` the two updaters and the recovery after a failure are all
  that ever contend for the lock.
- Sleep. A tick of 3 us, a stamp that wraps at 11 and idle times of up to 2
  ticks give every order of stamps, remainders and wraps; one task and an
  interrupt handler that change the word while another task is between its load
  and its store are all the ways to lose a bit. Two rows are the smallest table
  in which the last row is moved and another one is not; the third driver finds
  it full. The code has 8 rows, and the theorems hold for any number.
- Heap. 6 units with requests of 1 to 3 have every neighbourhood of a freed
  block: free or taken on either side, at either end.

Deadlock checks are off where the model's bounded calls, updates or events run
out and the driver, a server or a client may stay silent; the heap runs with
the check.

Fairness. `WifiConnect!FairSpec`: the handlers' thread is scheduled (weak
fairness), and each caller is (strong fairness, because a caller outranked by
the handlers' thread is disabled while a handler runs; handlers do not block
and events come at most every few milliseconds). The time-outs are ordinary
steps of a waiting caller, so they do expire. Nothing is assumed of the access
point, the driver or the application. `WifiScan!FairSpec`: tasks and the
driver's thread are scheduled, and the driver ends a scan it has accepted,
which it does after a fixed list of channels. `WifiInd!FairSpec`: the driver's
and the worker's threads are scheduled and handlers return; a full queue is no
reason to wait, because the code drops instead. `Dhcps!FairSpec`: lwIP's thread
and the clients run, and a client that waits in vain asks again, as RFC 2131
has it; links deliver what they have not lost.

## 4. Proofs

`WifiConnect_proofs` proves, for any number of callers, rows and queue slots,
in every configuration that `ConnectAssumption` allows, unless it says otherwise:

- `TypeCorrect`: `Spec => []TypeOK`.
- `UserDataSafe`: `Spec => []UserDataLive`. `UserDataLive` alone is not
  inductive: that `wifi_connect` still has its record when it stores the
  pointer needs `RecordHeld` (from the registrations to `rtw_free`, a
  `wifi_connect` call holds its record). The argument: a caller's step changes
  the fields of that caller only (`CallerIsLocal`, `OthersAreLocal`), and the
  only step that frees the record comes after the step that clears the pointer;
  when another call has replaced the pointer, clearing it is harmless.
- `HandlersSafe`: `Spec => []HandlersOwned`, from the lemmas on the table
  operators (`RegOne`, `UnregOne`, `RegisterAllSingle`, `UnregisterAllGone`):
  registering never makes a second row, and unregistering removes the only one.
- `ConnectingSafe`: `Spec => []ConnectingOwned`, with the strengthening
  `RunOwned`: when callers do not overtake handlers, a handler of a transient
  event runs only while some call is between registering and unregistering.
- `SemaLiveHolds`: `Spec => []SemaLive`. `SemaHeld` says at which statements a
  blocking call has its semaphore, which is local to the caller. `RunsUser` says
  that the pointer a running handler has read is `join_user_data` still, when
  callers do not overtake handlers. What is left is that a call to which the
  pointer leads goes from its semaphore to the named window and no further
  before it clears the pointer (`UserKeepsSema`).
- `NothingKeptHolds`: `Spec => []NothingKept`. `Allocated` says what a blocking
  `wifi_connect` still has at each statement from the last allocation to the
  last free; it is local to the caller, so overlapping calls cannot disturb it.
- `KeyFailureReportedHolds`: `Spec => KeyFailureReported`, for one caller, with
  `HandlerFirst`, if WPA2-AES is not among the security types, the case that
  `ConnectAes` shows to be wrong. `SeenJoin` says what `rtw_join_status` can be
  once `wifi_connected_hdl` has seen the join in progress.
- `ErrorFlagHonestHolds`: `Spec => []ErrorFlagHonest`, for one caller, with
  `HandlerFirst`, in both builds. `HonestInv` says that what waits in the queue
  has happened (`Heard`), that between `Set` and the request neither the flags
  nor `error_flag` say anything of a network or a key, although an old
  connection's events still come in (`Quiet`), and that after it the flags only
  say what the driver did (`Telling`). With several callers there is one
  `error_flag` for all of them: a key of one that is refused for its length is
  blamed on the other, so the hypothesis is needed.

`Ota_proofs` proves, for files, sectors, packets, headers and system data of
any size and any number of updates and mishaps that `OtaAssumption` allows:

- `TypesHold`: `Spec => []TypeOK`. `TypeInv` adds what belongs to each place of
  an update (`InPlace`): who has the lock, how far a loop is, that nothing has
  been read before `read`, and what the four kept bytes are.
- `GoodIsTakenHolds`: `Spec => []GoodIsTaken`. The argument is `SumKeepsLast`:
  appending a packet to the four kept bytes and keeping the last four again
  gives the last four of what has been read, however long the packet is; so
  without a header in the buffer they end as the file's last four.
- `SystemDataKeptHolds`: `Spec => []SystemDataKept`, from `DataInv`. That one
  sector is whole does not say which one a copying updater may erase next:
  `CopyKept` says, for each step of the rewriting, which sector is whole and how
  far the copy is. Other updaters and the recovery cannot disturb it, because
  whoever writes either sector holds the lock (`OneCopies`).
- `FlashExclusiveHolds`: `Spec => FlashExclusive`, an action property, from
  `InPlace`: whoever is between taking and giving back the lock has it, so a step
  that changes the flash is of the one that has the lock (`WritesAlone`,
  `RecoversAlone`) or finds it free.
- `SignedIsVerifiedHolds`: `Spec => []SignedIsVerified`, if `0 \notin Closes`,
  the case that `UpdateEmpty` shows to be wrong. `SignInv` says that while one
  update at most is under way the flash is erased up to its loop (`Sectors` does
  the division), then holds one file up to what has been read and is erased
  behind it; that between erasing and signing there is no signature, so that no
  recovery can begin; and that a recovery has in its buffer what it erases.

`Dhcps_proofs` proves, for any number of clients, addresses, packets under way,
restarts and losses that `DhcpsAssumption` allows:

- `TypeCorrect`: `Spec => []TypeOK`.
- `TablesAgreeHolds`: `Spec => []TablesAgree`. The work is in the division of an
  address into a word and a bit, which no two addresses share.
- `LeaseKnownHolds`, `UsedRefusedHolds` and `LeasesSpecHolds`, if
  `"bound" \notin InformIn`: the INFORM of a bound client is the case that
  `DhcpUsed` shows to be wrong. `LeasesSpecHolds` is the refinement of `Leases`.
  `LeaseKnown` is not inductive: what makes a client use an address is an ACK
  that may have been on its way for long. `AcksKnown` says that the table has
  the client down for every address in an ACK of its present transaction;
  `Orderly` that a client with a lease or such an ACK has no DISCOVER or INFORM
  under way, none behind a REQUEST of its present transaction, and neither
  REQUEST nor ACK while it still selects; `OfferUnused` that the address offered
  last is nobody's, or of a client that has not been told so.

`WifiInd_proofs` proves, for any tasks, handlers, rows, events and queue length
that `IndAssumption` allows, and in both builds:

- `TypeCorrect`: `Spec => []TypeOK`.
- `OrderSpecHolds`: `Spec => OrderSpec`, the refinement of `InOrder`. `InTurn`
  says that the queue is sorted by event and that no handler has heard of a
  later event than the first one that waits or is being looked at.
- `BuffersOwnedHolds`: `Spec => []BuffersOwned`. Two copies differ because a
  copy is named by its event and row and the driver's thread has passed every
  row that a message comes from (`Earlier`).
- `TableAtomicHolds`: `Spec => TableAtomic`. `OneUpdate` says that, while no two
  updates have overlapped, the table is as the last update left it or exactly
  one task is at a known place of its update (`InHand`).
- `OwnDataHolds`: `Spec => []OwnData`, from `OneUpdate` and `RowRead`, what the
  driver's thread knows of the row it is at.
- `NoneSkippedHolds`: `Spec => NoneSkipped`, an action property. `Followed` says
  that a resident's row stays its own and no other has it (`Safe`), that the
  driver's thread looks at the handler exactly when it is at that row (`Aimed`),
  and, until something was dropped, that what waits for the handler are exactly
  the events from the last that it heard of to the last that passed its row
  (`Gapless`), each once (`Once`). In which row a resident starts needs an
  injection into the last rows, hence finitely many residents.

`WifiScan_proofs` proves, for any number of callers, access points, levels,
slots, channels and reports that `ScanAssumption` allows, both with and without
the semaphore and the handlers' precedence:

- `TypeCorrect`: `Spec => []TypeOK`.
- `TopNHolds`: `Spec => []TopN`. The inductive form says that `pap_details` is a
  list of different slots sorted by strength (`Table`), that each entry is the
  best report of its access point (`AtBest`), and what that says of those that
  were left out (`NoneBetter`). The lemmas on `InsertAt` and `RemoveAt` carry it
  through the three things the report handler does.
- `BuffersSafeHolds` and `RunningOwnedHolds`: `Spec => []BuffersSafe` and
  `Spec => []RunningOwned`. Neither is inductive. `Orderly` says, as long as no
  scan was let in while another one was in progress, that one caller at most is
  past the claim (`Alone`), when the buffers are allocated (`Buffers`), which
  handlers are registered while the driver scans (`Handled`), and which handler
  will clear `scan_running` (`Running`, `Clears`).

`TcmHeap_proofs` proves, for a heap, chunks and requests of any size that
`HeapAssumption` allows:

- `TypeCorrect`: `Spec => []TypeOK`.
- `FreeListExactHolds`: `Spec => []FreeListExact`. `HeapInv` says that the list
  is sorted with gaps between its chunks and inside the heap (`List`), that the
  blocks are and do not overlap (`Blocks`), and that a unit is in a chunk or in
  a block (`Exact`). A free inserts the block and merges it with neighbours on
  either side; an allocation takes the first chunk that fits.
- `SpaceExactHolds`: `Spec => []SpaceExact`. It compares a sum over the list
  with one over the set of blocks, which are both folds. A fold with + is a
  function that `AddUp` maps to itself, whose recursion the number of units that
  the remaining parts cover satisfies too (`CountAddsUp`), when the parts are
  disjoint and finitely many; two solutions of the recursion are equal, since the
  smallest set on which they differ would have a smaller one (`SumIsCount`). So
  both sums are the number of units of a set, and `Exact` says which sets.
- `AllocatorSpecHolds`: `Spec => AllocatorSpec`, the refinement of `Allocator`:
  each call is an abstract step or a stutter, because what comes from a chunk
  is in no block.

`Pmu_proofs` proves, for any number of tasks, interrupt handlers, drivers and
hooks that `PmuAssumption` allows:

- `TypeCorrect`: `Spec => []TypeOK`. It does not say that the table of hooks has
  room, which the code does not see to (`Overrun`).
- `AwakeWhileHeldHolds` and `SleepsWhenFreeHolds`, from `LockInv`: until a store
  has written back bits that had changed, the word is what is held, but for the
  bits that are about to be cleared (`WordTrue`); and after a decision the word
  stays empty until an interrupt handler takes a wakelock (`SleepTrue`).
- `HooksCalledHolds`, from `HookInv`: each registered driver has one row and the
  row its last hook, also after `pmu_unregister_sleep_callback` has moved the
  last row into the place of the one that is removed. The rows number the
  registered drivers (`RowsCounted`), so that no row is ever lost, and a table
  runs over only by more drivers than rows that are registered at once. Nothing
  is assumed of how many drivers there are.
- `ClockKeptHolds`: `Spec => []ClockKept`, with the hypothesis `Room`: a word
  holds the longest idle time, a tick, and a microsecond for each sleep. A sleep
  may end a microsecond later than its timer, which puts off one more
  (`SmallRest`), so that after about 2^32 such sleeps in a row the sum of what
  was slept and what was put off would wrap; the bound on sleeps is part of the
  claim. `CaughtUp` says that dividing into ticks and a rest loses nothing,
  `Stamps` what two stamps tell of a sleep.

The strengthenings were checked with TLC on the instances above before they
were proved. The proofs rest on the modules' named assumptions only
(`ConnectAssumption`, `OtaAssumption`, `DhcpsAssumption`, `IndAssumption`,
`ScanAssumption`, `HeapAssumption`, `PmuAssumption`) and on the hypotheses named
here. They say that the bounds are natural numbers, that a sentinel is no member
of the set it is told from, and what the code's configuration fixes (a pool that
the table of bits covers, finitely many residents and at most as many as rows).

Only model-checked are the liveness properties, because fairness is out of the
prover's reach: `ConnectReturns`, `ScanReported`, `ResidentHears`, `Served`. Of
`ResidentHears` the safety part is proved (`NoneSkippedHolds`). Every other
property of the passing runs is proved.

## 5. Plan

Done: `EventTable`, `WifiConnect`, `WifiScan`, `TcmHeap` implementing
`Allocator`, `WifiInd` implementing `InOrder`, `Dhcps` implementing `Leases`,
`Ota` and `Pmu`, each with its proofs. The device lock is part of `Ota`, where
its users are.

Left, in this order; each module gets an MC module, runs, and mutants of its own:

1. `Ymodem`: packet numbers and file offset against a lossy line, with a
   refinement to a reliable file transfer.
2. `UartRing` and the control of the UART adapter; the AT socket node list.
3. `MqttClient`: status machine, QoS 1 and 2, keep-alive.
4. `LwIP_DHCP`, auto-reconnect, and wifi on/off around `WifiConnect`.
5. `Mailbox`, which no code in the repository calls: its look-up and its use
   are separate steps.

Theorems planned next: `ErrorFlagHonest` in a form that holds of several callers
(for a call whose flags no other call has reset), and the safety properties of
the modules above as they are written.

## 6. Not modelled

The WLAN driver's core, FreeRTOS and lwIP are not in source or are third-party;
so are the libraries under `common/network/{coap,ssl,lwip}` and
`common/file_system`. HAL drivers are register access whose meaning is the
hardware's. AT command parsing, printing, HTTP and cloud adaptations are data
formatting. Of the modelled components: the 8711B's OTA and SWAP_UPDATE; the
DHCP server's pool at boundaries other than the end of a word; the statistics,
wakeup events and PLL flag of the power management; deletion of the worker
thread's queue, which nothing calls. Undefined behaviour after a write to freed memory is excluded, as
said above. `PROJECT.json` lists each component with its reason, and every
hazard with the properties that cover it or a note why none does.
