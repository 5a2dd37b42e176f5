-------------------------------- MODULE Pmu ---------------------------------
(* Power management under FreeRTOS's tickless idle:                          *)
(* component/soc/realtek/8195a/misc/os/freertos_pmu_8195a.c (the statistics  *)
(* of who holds a wakelock are left out). Tasks and interrupt handlers set   *)
(* and clear bits of one word, the idle task looks at it and sleeps, drivers *)
(* hook the sleep, and the kernel's tick catches up afterwards. The kernel's *)
(* own part is external.                                                     *)
EXTENDS Integers, Sequences, FiniteSets

CONSTANTS
  Tasks, Irqs,  \* who uses a wakelock; each has a bit of its own
  PMU_OS,       \* the bit that is set at the beginning, held by a task
  Devices,      \* drivers that hook the sleep
  Funs,         \* what a driver may hook
  MAX_PSM_DD_HOOK_INFO_SIZE, \* rows of the table of hooks (8)
  TickUs,       \* microseconds of a tick (1000)
  Word,         \* 2^32: the microsecond stamp wraps
  MaxTicks,     \* the longest idle time
  MaxSleeps     \* bound: sleeps

None == "none"

ASSUME PmuAssumption ==
  /\ PMU_OS \in Tasks /\ Tasks \cap Irqs = {} /\ None \notin Tasks \cup Irqs \cup Funs
  /\ {TickUs, Word, MaxTicks} \subseteq Nat \ {0} /\ MaxSleeps \in Nat
  /\ MaxTicks * TickUs < Word
  /\ MAX_PSM_DD_HOOK_INFO_SIZE \in Nat \ {0}

VARIABLES
  wakelock, \* the bits that are set
  reg,      \* each task between its load and its store: what it loaded
  held,     \* who holds a wakelock: its call to acquire has returned
  idle,     \* the idle task: "awake", "decided" or "asleep"
  cut,      \* history: a store wrote back bits that had changed since the load
  late,     \* history: an interrupt handler took a wakelock after the decision
  infos,    \* psm_dd_hook_infos, as far as psm_dd_hook_info_size
  hooked,   \* history: what each driver has registered
  called,   \* history: the hooks that were called before this sleep
  clock     \* missing_tick; history: the time slept that has not become ticks

vars == <<wakelock, reg, held, idle, cut, late, infos, hooked, called, clock>>
lockVars == <<wakelock, reg, held, idle, cut, late>>
hookVars == <<infos, hooked, called>>

Users  == Tasks \cup Irqs
Resting == \A t \in Tasks : reg[t].op = None

(* Nothing keeps a driver from registering when all rows are taken: its row  *)
(* is then written behind the table, over whatever the build has put there.  *)
(* What the program does next is undefined: the model stops, and nothing is  *)
(* claimed of it.                                                            *)
Overrun == Len(infos) > MAX_PSM_DD_HOOK_INFO_SIZE
Awake   == idle = "awake" /\ ~Overrun

Undefined == Overrun /\ UNCHANGED vars

Init ==
  /\ wakelock = {PMU_OS} /\ held = {PMU_OS}
  /\ reg = [t \in Tasks |-> [op |-> None, bits |-> {}]]
  /\ idle = "awake" /\ cut = FALSE /\ late = FALSE
  /\ infos = <<>> /\ hooked = [d \in Devices |-> None] /\ called = {}
  /\ clock = [missing |-> 0, owed |-> 0, wraps |-> 0, still |-> FALSE, sleeps |-> 0]

-----------------------------------------------------------------------------
(* wakelock |= BIT(lock_id) and wakelock &= ~BIT(lock_id): a load, and a     *)
(* store. A task may be preempted between the two.                           *)

(* Mutant: one who gives up its wakelock gives up the others'.               *)
ApplyAll(op, bits, u) == IF op = "acquire" THEN bits \cup {u} ELSE {}

(* Mutant: what is cleared is the complement.                                *)
ApplyNot(op, bits, u) == IF op = "acquire" THEN bits \cup {u} ELSE bits \cap {u}

Apply(op, bits, u) == IF op = "acquire" THEN bits \cup {u} ELSE bits \ {u}

Holds(op, u) == held' = IF op = "acquire" THEN held \cup {u} ELSE held \ {u}

Load(t, op) ==
  /\ Awake /\ reg[t].op = None
  /\ reg' = [reg EXCEPT ![t] = [op |-> op, bits |-> wakelock]]
  /\ held' = IF op = "release" THEN held \ {t} ELSE held
  /\ UNCHANGED <<wakelock, idle, cut, late, hookVars, clock>>

Store(t) ==
  /\ Awake /\ reg[t].op # None
  /\ wakelock' = Apply(reg[t].op, reg[t].bits, t)
  /\ cut' = (cut \/ wakelock # reg[t].bits)
  /\ Holds(reg[t].op, t)
  /\ reg' = [reg EXCEPT ![t] = [op |-> None, bits |-> {}]]
  /\ UNCHANGED <<idle, late, hookVars, clock>>

(* An interrupt handler calls the same functions; no task can cut it short.  *)
Interrupt(u, op) ==
  /\ idle # "asleep" /\ ~Overrun
  /\ wakelock' = Apply(op, wakelock, u)
  /\ Holds(op, u)
  /\ late' = (late \/ (idle = "decided" /\ op = "acquire"))
  /\ UNCHANGED <<reg, idle, cut, hookVars, clock>>

-----------------------------------------------------------------------------
(* The table of hooks.                                                       *)

Row(d, f) == [dev |-> d, fun |-> f]
RowsOf(d) == {i \in DOMAIN infos : infos[i].dev = d}

pmu_register_sleep_callback(d, f) ==
  /\ Awake
  /\ infos' = IF RowsOf(d) = {} THEN Append(infos, Row(d, f))
              ELSE [infos EXCEPT ![CHOOSE i \in RowsOf(d) : TRUE] = Row(d, f)]
  /\ hooked' = [hooked EXCEPT ![d] = f]
  /\ UNCHANGED <<lockVars, called, clock>>

(* Mutant: the last row is not moved into the one that becomes free.         *)
UnregisterLast(d) ==
  /\ Awake /\ RowsOf(d) # {}
  /\ infos' = SubSeq(infos, 1, Len(infos) - 1)
  /\ hooked' = [hooked EXCEPT ![d] = None]
  /\ UNCHANGED <<lockVars, called, clock>>

(* The last row takes the place of the one that is removed.                  *)
pmu_unregister_sleep_callback(d) ==
  /\ Awake /\ RowsOf(d) # {}
  /\ LET swapped == [infos EXCEPT ![CHOOSE i \in RowsOf(d) : TRUE] = infos[Len(infos)]]
     IN infos' = SubSeq(swapped, 1, Len(infos) - 1)
  /\ hooked' = [hooked EXCEPT ![d] = None]
  /\ UNCHANGED <<lockVars, called, clock>>

-----------------------------------------------------------------------------
(* The idle task runs when no task is ready, suspends the scheduler, looks   *)
(* at the wakelock and only then masks the interrupts.                       *)

freertos_ready_to_sleep ==
  /\ Awake /\ Resting /\ wakelock = {}
  /\ idle' = "decided"
  /\ UNCHANGED <<wakelock, reg, held, cut, late, hookVars, clock>>

(* An interrupt handler has made a task ready: no sleep.                     *)
AbortSleep ==
  /\ idle = "decided"
  /\ idle' = "awake" /\ late' = FALSE
  /\ UNCHANGED <<wakelock, reg, held, cut, hookVars, clock>>

(* freertos_pre_sleep_processing up to sleep_ex_selective: the sleep hooks.  *)
Sleep ==
  /\ idle = "decided" /\ clock.sleeps < MaxSleeps
  /\ idle' = "asleep"
  /\ called' = {infos[i] : i \in DOMAIN infos}
  /\ UNCHANGED <<wakelock, reg, held, cut, late, infos, hooked, clock>>

(* Mutant: the parts of a tick are lost when the sleep was a long one.       *)
CatchUpCapped(passed, stime) ==
  IF passed > stime * TickUs
  THEN [missing |-> 0, us |-> stime * TickUs]
  ELSE [missing |-> passed % TickUs, us |-> passed]

(* Mutant: it is not asked whether the sleep was shorter than expected.      *)
CatchUpAlways(passed, stime) ==
  [missing |-> passed - stime * TickUs, us |-> stime * TickUs]

(* What of the time that has passed becomes ticks, and what is kept.         *)
CatchUp(passed, stime) ==
  IF passed > stime * TickUs
  THEN [missing |-> passed - stime * TickUs, us |-> stime * TickUs]
  ELSE [missing |-> passed % TickUs, us |-> passed]

(* The rest of it, from the stamp at the beginning and the stamp at the end  *)
(* of a sleep of d microseconds: equal stamps count as an overflow.          *)
Wake(before, d, stime) ==
  LET after  == (before + d) % Word
      passed == IF after > before THEN after - before ELSE (Word - 1 - before) + after
      caught == CatchUp((passed + clock.missing) % Word, stime)
  IN /\ idle = "asleep"
     /\ idle' = "awake" /\ late' = FALSE
     /\ clock' = [missing |-> caught.missing,
                  owed    |-> clock.owed + d - TickUs * (caught.us \div TickUs),
                  wraps   |-> clock.wraps + IF before + d >= Word THEN 1 ELSE 0,
                  still   |-> clock.still \/ d = 0,
                  sleeps  |-> clock.sleeps + 1]
     /\ called' = {}
     /\ UNCHANGED <<wakelock, reg, held, cut, infos, hooked>>

(* A timer ends the sleep after stime ticks at the latest, or a little later.*)
freertos_pre_sleep_processing ==
  \E stime \in 1 .. MaxTicks, before \in 0 .. Word - 1 :
    \E d \in 0 .. stime * TickUs + 1 : d < Word /\ Wake(before, d, stime)

Next ==
  \/ \E op \in {"acquire", "release"} : (\E t \in Tasks : Load(t, op)) \/ (\E u \in Irqs : Interrupt(u, op))
  \/ \E t \in Tasks : Store(t)
  \/ \E d \in Devices : (\E f \in Funs : pmu_register_sleep_callback(d, f))
                        \/ pmu_unregister_sleep_callback(d)
  \/ freertos_ready_to_sleep \/ AbortSleep \/ Sleep \/ freertos_pre_sleep_processing
  \/ Undefined

Spec == Init /\ [][Next]_vars

-----------------------------------------------------------------------------
(* Properties.                                                               *)

TypeOK ==
  /\ wakelock \subseteq Users /\ held \subseteq Users
  /\ reg \in [Tasks -> [op : {None, "acquire", "release"}, bits : SUBSET Users]]
  /\ idle \in {"awake", "decided", "asleep"} /\ cut \in BOOLEAN /\ late \in BOOLEAN
  /\ infos \in Seq([dev : Devices, fun : Funs])
  /\ hooked \in [Devices -> Funs \cup {None}]
  /\ called \subseteq [dev : Devices, fun : Funs]
  /\ clock \in [missing : 0 .. Word - 1, owed : Int, wraps : 0 .. MaxSleeps, still : BOOLEAN,
                sleeps : 0 .. MaxSleeps]

(* The system sleeps while somebody holds a wakelock only because of one of  *)
(* the two races this code leaves open: a change of the word that was lost   *)
(* in another's load and store, or an interrupt between decision and sleep.  *)
AwakeWhileHeld == idle = "asleep" /\ held # {} => cut \/ late

(* And a bit stays behind, so that the system never sleeps again, only by    *)
(* the first of them: when nobody holds or is taking a wakelock, it may.     *)
SleepsWhenFree ==
  held = {} /\ Resting => wakelock = {} \/ cut

(* The drivers that are registered.                                          *)
Hooked == {d \in Devices : hooked[d] # None}

(* Before a sleep exactly the drivers that are registered are called, each   *)
(* with what it registered last, however they came and went. At any time     *)
(* each has one row, so that none is called twice, and no row is lost: it    *)
(* takes more drivers than rows, registered at once, to overrun the table.   *)
HooksCalled ==
  /\ idle = "asleep" => called = {Row(d, hooked[d]) : d \in Hooked}
  /\ Len(infos) = Cardinality(Hooked)

(* The kernel's time never runs ahead of the time that was slept, and loses  *)
(* no more than a microsecond at each wrap of the stamp, however long the    *)
(* sleeps and however many parts of ticks they leave - as long as no sleep   *)
(* is so short that its two stamps are equal.                                *)
ClockKept ==
  clock.still \/ (clock.missing <= clock.owed /\ clock.owed <= clock.missing + clock.wraps)
=============================================================================
